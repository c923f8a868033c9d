----------------------------- MODULE DiscProofs -----------------------------
(***************************************************************************)
(* Proofs about rm, mv, mkdir and rmdir, for any tree and any command      *)
(* lines, any number of shells and any other process in the same           *)
(* directories: what a call of rm holds, what it removes and leaves.       *)
(***************************************************************************)
EXTENDS Disc, Recursion, SequenceTheorems

-----------------------------------------------------------------------------
(* Paths.                                                                  *)

\* Every string: no prover knows that "*" is one.
AnyName == STRING \cup {"*"}

Paths == Seq(AnyName)

\* Files, directories and the words of command lines have paths.
LEMMA PathsAreSequences ==
  /\ Path \subseteq Paths \ {<<>>}
  /\ \A p \in Seq(STRING) : p \in Paths
<1>1. \A p \in Seq(STRING) : p \in Paths
  <2> TAKE p \in Seq(STRING)
  <2>1. Seq(STRING) \subseteq Seq(AnyName)
    BY SeqMonotonic DEF AnyName
  <2> QED BY <2>1 DEF Paths
<1> QED BY <1>1, DiscAssumption

\* The first elements of a sequence
LEMMA FirstElements ==
  ASSUME NEW S, NEW s \in Seq(S), NEW n \in 0..Len(s)
  PROVE  /\ SubSeq(s, 1, n) \in Seq(S) /\ Len(SubSeq(s, 1, n)) = n
         /\ \A k \in 1..n : SubSeq(s, 1, n)[k] = s[k]
<1>1. n \in Int /\ 1 \in Int /\ \A i \in 1..n : s[i] \in S
  OBVIOUS
<1>2. n \in Nat /\ n - 1 + 1 = n /\ \A k \in 1..n : 1 + k - 1 = k
  OBVIOUS
<1>3. /\ SubSeq(s, 1, n) \in Seq(S)
      /\ Len(SubSeq(s, 1, n)) = IF 1 <= n THEN n - 1 + 1 ELSE 0
      /\ \A k \in 1..(n - 1 + 1) : SubSeq(s, 1, n)[k] = s[1 + k - 1]
  BY <1>1, SubSeqProperties
<1> QED BY <1>2, <1>3

\* All but the last element of a sequence, and the last one
LEMMA FrontAndLast ==
  ASSUME NEW S, NEW s \in Seq(S), s # <<>>
  PROVE  /\ Len(s) \in Nat \ {0} /\ Front(s) \in Seq(S) /\ Len(Front(s)) = Len(s) - 1
         /\ \A k \in 1..(Len(s) - 1) : Front(s)[k] = s[k]
         /\ Last(s) = s[Len(s)] /\ Last(s) \in S
<1>1. Len(s) \in Nat \ {0} /\ Len(s) - 1 \in 0..Len(s)
  BY EmptySeq
<1>2. Last(s) = s[Len(s)] /\ Last(s) \in S
  BY <1>1 DEF Last
<1> QED BY <1>1, <1>2, FirstElements DEF Front

\* A prefix, name by name
LEMMA PrefixByName ==
  ASSUME NEW p \in Paths, NEW q \in Paths
  PROVE  IsPrefix(p, q) <=> Len(p) <= Len(q) /\ \A k \in 1..Len(p) : p[k] = q[k]
<1>1. Len(p) \in Nat /\ Len(q) \in Nat /\ SubSeq(p, 1, Len(p)) = p
  BY SubSeqFull DEF Paths
<1>2. ASSUME Len(p) <= Len(q)
      PROVE  SubSeq(q, 1, Len(p)) = p <=> \A k \in 1..Len(p) : p[k] = q[k]
  <2> DEFINE s == SubSeq(q, 1, Len(p))
  <2>1. \A k \in 1..Len(p) : k \in 1..Len(q)
    BY <1>1, <1>2
  <2>2. s \in Paths /\ Len(s) = Len(p) /\ \A k \in 1..Len(p) : s[k] = q[k]
    BY <1>1, <1>2, FirstElements DEF Paths
  <2> HIDE DEF s
  <2>3. (\A k \in 1..Len(p) : s[k] = p[k]) => s = p
    BY <2>2, SeqEqual DEF Paths
  <2> QED BY <2>2, <2>3 DEF s
<1> QED BY <1>1, <1>2 DEF IsPrefix

\* The directory a path is in, and its last name
LEMMA DirectoryAndName ==
  ASSUME NEW p \in Paths, p # <<>>
  PROVE  /\ Len(p) \in Nat \ {0} /\ Front(p) \in Paths /\ Len(Front(p)) = Len(p) - 1
         /\ \A k \in 1..(Len(p) - 1) : Front(p)[k] = p[k]
         /\ Last(p) = p[Len(p)] /\ Last(p) \in AnyName
BY FrontAndLast DEF Paths

\* Paths with the same names are the same.
LEMMA SamePath ==
  ASSUME NEW p \in Paths, NEW q \in Paths, Len(p) = Len(q), \A k \in 1..Len(p) : p[k] = q[k]
  PROVE  p = q
BY SeqEqual DEF Paths

\* A path in a directory, name by name
LEMMA InDirectory ==
  ASSUME NEW p \in Paths, NEW q \in Paths
  PROVE  (IsStrictPrefix(p, q) /\ Len(q) = Len(p) + 1) <=> (q # <<>> /\ Front(q) = p)
<1>1. Len(p) \in Nat /\ Len(q) \in Nat
  BY DEF Paths
<1>2. ASSUME q # <<>>, Front(q) = p
      PROVE  IsStrictPrefix(p, q) /\ Len(q) = Len(p) + 1
  <2>1. Len(q) = Len(p) + 1 /\ \A k \in 1..Len(p) : p[k] = q[k]
    BY <1>1, <1>2, DirectoryAndName
  <2>2. IsPrefix(p, q) /\ p # q
    BY <1>1, <2>1, PrefixByName
  <2> QED BY <2>1, <2>2 DEF IsStrictPrefix
<1>3. ASSUME IsStrictPrefix(p, q), Len(q) = Len(p) + 1
      PROVE  q # <<>> /\ Front(q) = p
  <2>1. q # <<>>
    BY <1>1, <1>3 DEF Paths
  <2>2. \A k \in 1..Len(p) : p[k] = q[k]
    BY <1>3, PrefixByName DEF IsStrictPrefix
  <2>3. Front(q) \in Paths /\ Len(Front(q)) = Len(p) /\ \A k \in 1..Len(p) : Front(q)[k] = p[k]
    BY <1>1, <1>3, <2>1, <2>2, DirectoryAndName
  <2> QED BY <2>1, <2>3, SamePath
<1> QED BY <1>2, <1>3

\* What is above the directory of a path is above the path.
LEMMA PrefixOfDirectory ==
  ASSUME NEW p \in Paths, NEW q \in Paths, q # <<>>, IsPrefix(p, Front(q))
  PROVE  IsStrictPrefix(p, q)
<1>1. /\ Len(q) \in Nat \ {0} /\ Len(p) \in Nat /\ Front(q) \in Paths
      /\ Len(Front(q)) = Len(q) - 1 /\ \A k \in 1..(Len(q) - 1) : Front(q)[k] = q[k]
  BY DirectoryAndName DEF Paths
<1>2. Len(p) <= Len(q) - 1 /\ \A k \in 1..Len(p) : p[k] = Front(q)[k] /\ k \in 1..(Len(q) - 1)
  BY <1>1, PrefixByName
<1>3. IsPrefix(p, q)
  BY <1>1, <1>2, PrefixByName
<1> QED BY <1>1, <1>2, <1>3 DEF IsStrictPrefix

-----------------------------------------------------------------------------
(* Trees.                                                                  *)

\* What exists has a name, a kind and a directory.
LEMMA InTree ==
  ASSUME IsTree(tree), NEW p \in DOMAIN tree
  PROVE  /\ p \in Path /\ p \in Paths /\ p # <<>> /\ Len(p) \in Nat \ {0}
         /\ tree[p] \in Kind
         /\ Len(p) > 1 => Front(p) \in DOMAIN tree /\ tree[Front(p)] = "dir"
BY PathsAreSequences, EmptySeq DEF IsTree, Paths

\* So have all directories above it.
LEMMA AllAbove ==
  ASSUME IsTree(tree), NEW q \in DOMAIN tree, NEW p \in Paths, p # <<>>, IsPrefix(p, q)
  PROVE  p \in DOMAIN tree
<1> DEFINE n == Len(q) - Len(p)
           T == {k \in 0..n : SubSeq(q, 1, Len(q) - k) \in DOMAIN tree}
<1>1. q \in Paths /\ Len(q) \in Nat \ {0} /\ Len(p) \in Nat \ {0} /\ n \in Nat
  BY InTree, PrefixByName, DirectoryAndName
<1>2. 0 \in T
  <2>1. SubSeq(q, 1, Len(q)) = q /\ Len(q) - 0 = Len(q) /\ 0 \in 0..n
    BY <1>1, SubSeqFull DEF Paths
  <2>2. SubSeq(q, 1, Len(q) - 0) = q
    BY <2>1
  <2> QED BY <2>1, <2>2
<1>3. ASSUME NEW k \in 1..n, k - 1 \in T
      PROVE  k \in T
  <2> DEFINE s == SubSeq(q, 1, Len(q) - (k - 1))
             t == SubSeq(q, 1, Len(q) - k)
  <2>1. s \in DOMAIN tree
    BY <1>3
  <2>2. Len(q) - (k - 1) \in 0..Len(q) /\ Len(q) - k \in 0..Len(q)
    BY <1>1
  <2>3. s \in Paths /\ Len(s) = Len(q) - (k - 1) /\ \A i \in 1..(Len(q) - (k - 1)) : s[i] = q[i]
    <3> HIDE DEF n
    <3> QED BY <1>1, <2>2, FirstElements DEF Paths
  <2>4. t \in Paths /\ Len(t) = Len(q) - k /\ \A i \in 1..(Len(q) - k) : t[i] = q[i]
    <3> HIDE DEF n
    <3> QED BY <1>1, <2>2, FirstElements DEF Paths
  <2> HIDE DEF s, t
  <2>5. Len(s) > 1
    BY <1>1, <2>3
  <2>6. s # <<>> /\ Front(s) \in DOMAIN tree
    BY <2>1, <2>5, InTree
  <2>7. Front(s) = t
    <3>1. /\ Front(s) \in Paths /\ Len(Front(s)) = Len(s) - 1
          /\ \A i \in 1..(Len(s) - 1) : Front(s)[i] = s[i]
      BY <2>3, <2>6, DirectoryAndName
    <3>2. Len(s) - 1 = Len(q) - k /\ k \in Int
      BY <1>1, <2>3
    <3>3. \A i \in 1..(Len(q) - k) : i \in 1..(Len(q) - (k - 1))
      BY <1>1
    <3>4. Len(Front(s)) = Len(t) /\ \A i \in 1..Len(Front(s)) : Front(s)[i] = t[i]
      <4> HIDE DEF n
      <4> QED BY <2>3, <2>4, <3>1, <3>2, <3>3
    <3> QED BY <2>4, <3>1, <3>4, SamePath
  <2> QED BY <2>6, <2>7 DEF t
<1>4. n \in T
  <2>1. \A k \in 1..n : k - 1 \in T => k \in T
    BY <1>3
  <2>2. n \in 0..n
    BY <1>1
  <2> HIDE DEF T, n
  <2> QED BY <1>1, <1>2, <2>1, <2>2, InductionUpTo
<1>5. SubSeq(q, 1, Len(p)) = p
  BY SubSeqFull DEF IsPrefix, Paths
<1>6. Len(q) - n = Len(p)
  BY <1>1
<1> QED BY <1>4, <1>5, <1>6

\* A new file or directory in a directory
LEMMA WithIsTree ==
  ASSUME IsTree(tree), NEW p, CanCreate(p), NEW kind \in Kind
  PROVE  IsTree(With(p, kind))
<1> DEFINE t == With(p, kind)
<1>1. p \in Path /\ p \in Paths /\ p # <<>> /\ p \notin DOMAIN tree
  BY PathsAreSequences DEF CanCreate, Exists
<1>2. DOMAIN t = DOMAIN tree \cup {p} /\ t[p] = kind
      /\ \A q \in DOMAIN tree : q # p /\ t[q] = tree[q]
  BY <1>1 DEF With
<1>3. t = [q \in DOMAIN t |-> t[q]]
  BY DEF With
<1>4. Len(p) > 1 => Front(p) \in DOMAIN tree /\ tree[Front(p)] = "dir"
  <2>1. Len(p) > 1 => Front(p) # <<>> /\ Len(p) # 1
    BY <1>1, DirectoryAndName
  <2> QED BY <2>1 DEF CanCreate, IsDir, Exists
<1> HIDE DEF t
<1>5. \A q \in DOMAIN t : t[q] \in Kind
  BY <1>2, InTree
<1>6. \A q \in DOMAIN t : Len(q) > 1 => Front(q) \in DOMAIN t /\ t[Front(q)] = "dir"
  BY <1>2, <1>4, InTree
<1>7. DOMAIN t \subseteq Path
  BY <1>1, <1>2, InTree
<1> QED BY <1>3, <1>5, <1>6, <1>7 DEF IsTree, t

\* Without something that nothing is in
LEMMA WithoutIsTree ==
  ASSUME IsTree(tree), NEW p, \A q \in DOMAIN tree : Len(q) > 1 => Front(q) # p
  PROVE  IsTree(Without(p))
<1> DEFINE t == Without(p)
<1>1. /\ DOMAIN t = DOMAIN tree \ {p} /\ t = [q \in DOMAIN t |-> t[q]]
      /\ \A q \in DOMAIN t : q \in DOMAIN tree /\ t[q] = tree[q]
  BY DEF Without
<1> HIDE DEF t
<1>2. \A q \in DOMAIN t : q \in Path /\ t[q] \in Kind
  BY <1>1, InTree
<1>3. \A q \in DOMAIN t : Len(q) > 1 => Front(q) \in DOMAIN t /\ t[Front(q)] = "dir"
  BY <1>1, InTree
<1> QED BY <1>1, <1>2, <1>3 DEF IsTree, t

\* Nothing is in a file.
LEMMA UnlinkedIsTree ==
  ASSUME IsTree(tree), NEW p, ~IsDir(p)
  PROVE  IsTree(Without(p))
<1>1. \A q \in DOMAIN tree : Len(q) > 1 => Front(q) # p
  BY InTree DEF IsDir, Exists
<1> QED BY <1>1, WithoutIsTree

\* rmdir(2) refuses a directory that something is in.
LEMMA RmdirIsTree ==
  ASSUME IsTree(tree), NEW p
  PROVE  IsTree(Rmdir(p))
<1>1. CASE IsDir(p) /\ Below(p) = {}
  <2>1. ASSUME NEW q \in DOMAIN tree, Len(q) > 1, Front(q) = p PROVE FALSE
    <3>1. p \in Paths /\ q \in Paths /\ q # <<>>
      BY <2>1, InTree
    <3>2. IsStrictPrefix(p, q)
      BY <2>1, <3>1, InDirectory
    <3> QED BY <1>1, <3>2 DEF Below
  <2>2. IsTree(Without(p))
    BY <2>1, WithoutIsTree
  <2> QED BY <1>1, <2>2 DEF Rmdir
<1>2. CASE ~(IsDir(p) /\ Below(p) = {})
  BY <1>2 DEF Rmdir
<1> QED BY <1>1, <1>2

-----------------------------------------------------------------------------
(* rename(2).                                                              *)

\* Where a path is after old has become new
To(old, new, q) == new \o SubSeq(q, Len(old) + 1, Len(q))

\* The new name, then what was behind the old one
LEMMA MovedByName ==
  ASSUME NEW old \in Paths, NEW new \in Paths, NEW q \in Paths, IsPrefix(old, q)
  PROVE  /\ To(old, new, q) \in Paths
         /\ Len(To(old, new, q)) = Len(new) + (Len(q) - Len(old))
         /\ \A k \in 1..Len(new) : To(old, new, q)[k] = new[k]
         /\ \A k \in 1..(Len(q) - Len(old)) : To(old, new, q)[Len(new) + k] = q[Len(old) + k]
<1> DEFINE m == Len(old) + 1
           n == Len(q)
           rest == SubSeq(q, m, n)
<1>1. Len(old) \in Nat /\ Len(q) \in Nat /\ Len(new) \in Nat /\ Len(old) <= Len(q)
  BY PrefixByName DEF Paths
<1>2. m \in Int /\ n \in Int /\ \A k \in m..n : q[k] \in AnyName
  BY <1>1 DEF Paths
<1>3. /\ n - m + 1 = Len(q) - Len(old) /\ (m <= n \/ n - m + 1 = 0)
      /\ \A k \in 1..(n - m + 1) : m + k - 1 = Len(old) + k
  BY <1>1
<1>4. /\ rest \in Paths /\ Len(rest) = (IF m <= n THEN n - m + 1 ELSE 0)
      /\ \A k \in 1..(n - m + 1) : rest[k] = q[m + k - 1]
  <2> HIDE DEF m, n
  <2> QED BY <1>2, SubSeqProperties DEF Paths
<1>5. /\ rest \in Paths /\ Len(rest) = Len(q) - Len(old)
      /\ \A k \in 1..(Len(q) - Len(old)) : rest[k] = q[Len(old) + k]
  <2> HIDE DEF m, n, rest
  <2>1. Len(rest) = n - m + 1
    BY <1>1, <1>2, <1>3, <1>4
  <2> QED BY <1>3, <1>4, <2>1
<1>6. To(old, new, q) = new \o rest
  BY DEF To
<1> HIDE DEF rest, m, n
<1>7. /\ new \o rest \in Paths /\ Len(new \o rest) = Len(new) + Len(rest)
      /\ \A k \in 1..(Len(new) + Len(rest)) :
           (new \o rest)[k] = IF k <= Len(new) THEN new[k] ELSE rest[k - Len(new)]
  BY <1>5, ConcatProperties DEF Paths
<1>8. \A k \in 1..Len(new) : (new \o rest)[k] = new[k]
  BY <1>1, <1>5, <1>7
<1>9. \A k \in 1..(Len(q) - Len(old)) : (new \o rest)[Len(new) + k] = q[Len(old) + k]
  <2> TAKE k \in 1..(Len(q) - Len(old))
  <2>1. Len(new) + k \in 1..(Len(new) + Len(rest)) /\ ~(Len(new) + k <= Len(new))
        /\ Len(new) + k - Len(new) = k
    BY <1>1, <1>5
  <2> QED BY <1>5, <1>7, <2>1
<1> QED BY <1>5, <1>6, <1>7, <1>8, <1>9

\* Names that were apart stay apart.
LEMMA MovedApart ==
  ASSUME NEW old \in Paths, NEW new \in Paths, NEW q \in Paths, NEW r \in Paths,
         IsPrefix(old, q), IsPrefix(old, r), To(old, new, q) = To(old, new, r)
  PROVE  q = r
<1>1. Len(old) \in Nat /\ Len(q) \in Nat /\ Len(r) \in Nat /\ Len(new) \in Nat
  BY DEF Paths
<1>2. Len(q) = Len(r)
  <2>1. Len(To(old, new, q)) = Len(new) + (Len(q) - Len(old))
    BY MovedByName
  <2>2. Len(To(old, new, r)) = Len(new) + (Len(r) - Len(old))
    BY MovedByName
  <2> QED BY <1>1, <2>1, <2>2
<1>3. /\ \A k \in 1..(Len(q) - Len(old)) : To(old, new, q)[Len(new) + k] = q[Len(old) + k]
      /\ \A k \in 1..(Len(r) - Len(old)) : To(old, new, r)[Len(new) + k] = r[Len(old) + k]
  BY MovedByName
<1>4. ASSUME NEW k \in 1..Len(q) PROVE q[k] = r[k]
  <2>1. CASE k <= Len(old)
    <3>1. k \in 1..Len(old)
      BY <1>1, <2>1
    <3> QED BY <3>1, PrefixByName
  <2>2. CASE ~(k <= Len(old))
    <3>1. k - Len(old) \in 1..(Len(q) - Len(old)) /\ Len(old) + (k - Len(old)) = k
      BY <1>1, <2>2
    <3> DEFINE j == k - Len(old)
    <3>2. j \in 1..(Len(q) - Len(old)) /\ j \in 1..(Len(r) - Len(old)) /\ Len(old) + j = k
      BY <1>2, <3>1
    <3> HIDE DEF j
    <3>3. To(old, new, q)[Len(new) + j] = q[Len(old) + j]
          /\ To(old, new, r)[Len(new) + j] = r[Len(old) + j]
      BY <1>3, <3>2
    <3> QED BY <3>2, <3>3
  <2> QED BY <2>1, <2>2
<1> QED BY <1>2, <1>4, SamePath

\* old itself becomes new.
LEMMA MovedSelf ==
  ASSUME NEW old \in Paths, NEW new \in Paths
  PROVE  IsPrefix(old, old) /\ To(old, new, old) = new
<1>1. Len(old) \in Nat /\ Len(new) \in Nat
  BY DEF Paths
<1>2. IsPrefix(old, old)
  BY <1>1, PrefixByName
<1>3. To(old, new, old) \in Paths /\ Len(To(old, new, old)) = Len(new)
      /\ \A k \in 1..Len(new) : To(old, new, old)[k] = new[k]
  BY <1>1, <1>2, MovedByName
<1> QED BY <1>2, <1>3, SamePath

\* What is in a directory moves with it.
LEMMA MovedTogether ==
  ASSUME NEW old \in Paths, NEW new \in Paths, NEW q \in Paths, IsStrictPrefix(old, q)
  PROVE  /\ q # <<>> /\ Front(q) \in Paths /\ IsPrefix(old, Front(q))
         /\ Front(To(old, new, q)) = To(old, new, Front(q))
<1>1. /\ Len(old) \in Nat /\ Len(q) \in Nat /\ Len(new) \in Nat
      /\ IsPrefix(old, q) /\ Len(old) < Len(q)
  <2>1. /\ Len(old) \in Nat /\ Len(q) \in Nat /\ Len(new) \in Nat
        /\ IsPrefix(old, q) /\ Len(old) <= Len(q) /\ \A k \in 1..Len(old) : old[k] = q[k]
    BY PrefixByName DEF IsStrictPrefix, Paths
  <2>2. Len(old) # Len(q)
    BY <2>1, SamePath DEF IsStrictPrefix
  <2> QED BY <2>1, <2>2
<1> DEFINE f == Front(q)
           t == To(old, new, q)
<1>2. /\ q # <<>> /\ f \in Paths /\ Len(f) = Len(q) - 1 /\ \A k \in 1..(Len(q) - 1) : f[k] = q[k]
  <2>1. q # <<>>
    BY <1>1
  <2> QED BY <2>1, DirectoryAndName
<1>3. IsPrefix(old, f)
  <2>1. \A k \in 1..Len(old) : old[k] = q[k] /\ k \in 1..(Len(q) - 1)
    BY <1>1, PrefixByName
  <2> HIDE DEF f
  <2> QED BY <1>1, <1>2, <2>1, PrefixByName
<1>4. /\ t \in Paths /\ Len(t) = Len(new) + (Len(q) - Len(old))
      /\ \A k \in 1..Len(new) : t[k] = new[k]
      /\ \A k \in 1..(Len(q) - Len(old)) : t[Len(new) + k] = q[Len(old) + k]
  BY <1>1, MovedByName
<1> DEFINE g == To(old, new, f)
<1>5. /\ g \in Paths /\ Len(g) = Len(new) + (Len(f) - Len(old))
      /\ \A k \in 1..Len(new) : g[k] = new[k]
      /\ \A k \in 1..(Len(f) - Len(old)) : g[Len(new) + k] = f[Len(old) + k]
  <2> HIDE DEF f
  <2> QED BY <1>2, <1>3, MovedByName
<1> HIDE DEF f, t, g
<1>6. t # <<>> /\ Front(t) \in Paths /\ Len(Front(t)) = Len(t) - 1
      /\ \A k \in 1..(Len(t) - 1) : Front(t)[k] = t[k]
  <2>1. t # <<>>
    BY <1>1, <1>4
  <2> QED BY <1>4, <2>1, DirectoryAndName
<1>7. Len(Front(t)) = Len(g)
  BY <1>1, <1>2, <1>4, <1>5, <1>6
<1>8. ASSUME NEW k \in 1..Len(g) PROVE Front(t)[k] = g[k]
  <2>1. k \in 1..(Len(t) - 1)
    BY <1>1, <1>2, <1>4, <1>5
  <2>2. CASE k <= Len(new)
    <3>1. k \in 1..Len(new)
      BY <1>1, <2>2
    <3> QED BY <1>4, <1>5, <1>6, <2>1, <3>1
  <2>3. CASE ~(k <= Len(new))
    <3> DEFINE j == k - Len(new)
    <3>1. /\ j \in 1..(Len(f) - Len(old)) /\ j \in 1..(Len(q) - Len(old)) /\ Len(new) + j = k
          /\ Len(old) + j \in 1..(Len(q) - 1)
      BY <1>1, <1>2, <1>5, <2>3
    <3> HIDE DEF j
    <3>2. g[Len(new) + j] = f[Len(old) + j] /\ t[Len(new) + j] = q[Len(old) + j]
      BY <1>4, <1>5, <3>1
    <3>3. f[Len(old) + j] = q[Len(old) + j]
      BY <1>2, <3>1
    <3> QED BY <1>6, <2>1, <3>1, <3>2, <3>3
  <2> QED BY <2>2, <2>3
<1>9. Front(t) = g
  BY <1>5, <1>6, <1>7, <1>8, SamePath
<1> QED BY <1>2, <1>3, <1>9 DEF f, t, g

Moved(old) == {old} \cup Below(old)
Targets(old, new) == {To(old, new, q) : q \in Moved(old)}

\* Every file that moves is found again under its new name, the others stay.
LEMMA RenamedByPath ==
  ASSUME IsTree(tree), NEW old \in DOMAIN tree, NEW new \in Paths
  PROVE  LET t == Renamed(old, new) IN
           /\ DOMAIN t = (DOMAIN tree \ Moved(old)) \cup Targets(old, new)
           /\ t = [p \in DOMAIN t |-> t[p]]
           /\ \A q \in Moved(old) : t[To(old, new, q)] = tree[q]
           /\ \A p \in DOMAIN t \ Targets(old, new) : t[p] = tree[p]
<1> DEFINE origin(p) == CHOOSE q \in Moved(old) : To(old, new, q) = p
           t == [p \in (DOMAIN tree \ Moved(old)) \cup Targets(old, new) |->
                   IF p \in Targets(old, new) THEN tree[origin(p)] ELSE tree[p]]
<1>1. Renamed(old, new) = t
  BY DEF Renamed, Moved, Targets, To
<1>2. old \in Paths /\ \A q \in Moved(old) : q \in Paths /\ IsPrefix(old, q)
  BY InTree, MovedSelf DEF Moved, Below, IsStrictPrefix
<1>3. ASSUME NEW q \in Moved(old) PROVE t[To(old, new, q)] = tree[q]
  <2>1. To(old, new, q) \in Targets(old, new)
    BY DEF Targets
  <2>2. origin(To(old, new, q)) \in Moved(old)
        /\ To(old, new, origin(To(old, new, q))) = To(old, new, q)
    OBVIOUS
  <2>3. origin(To(old, new, q)) = q
    <3> HIDE DEF origin
    <3> QED BY <1>2, <2>2, MovedApart
  <2> QED BY <2>1, <2>3
<1>4. \A p \in DOMAIN t \ Targets(old, new) : t[p] = tree[p]
  OBVIOUS
<1>5. DOMAIN t = (DOMAIN tree \ Moved(old)) \cup Targets(old, new) /\ t = [p \in DOMAIN t |-> t[p]]
  OBVIOUS
<1> HIDE DEF t
<1> QED BY <1>1, <1>3, <1>4, <1>5

\* What rename(2) makes of a tree is a tree.
LEMMA RenamedIsTree ==
  ASSUME IsTree(tree), NEW old, NEW new, CanRename(old, new),
         DOMAIN Renamed(old, new) \subseteq Path
  PROVE  IsTree(Renamed(old, new))
<1> DEFINE t == Renamed(old, new)
           targets == Targets(old, new)
<1>1. old \in DOMAIN tree /\ old \in Paths /\ old # <<>> /\ ~IsStrictPrefix(old, new)
  BY InTree DEF CanRename, Exists
<1>2. /\ new \in Paths /\ new # <<>> /\ Len(new) \in Nat \ {0}
      /\ Len(new) > 1 => Front(new) \in DOMAIN tree /\ tree[Front(new)] = "dir"
  <2>1. CASE CanCreate(new)
    <3>1. new \in Paths /\ new # <<>>
      BY <2>1, PathsAreSequences DEF CanCreate
    <3>2. Len(new) > 1 => Front(new) # <<>> /\ Len(new) # 1
      BY <3>1, DirectoryAndName
    <3>3. Len(new) \in Nat \ {0}
      BY <3>1, DirectoryAndName
    <3> QED BY <2>1, <3>1, <3>2, <3>3 DEF CanCreate, IsDir, Exists
  <2>2. CASE new \in DOMAIN tree
    BY <2>2, InTree
  <2> QED BY <2>1, <2>2 DEF CanRename, Exists
<1>3. \A p \in DOMAIN tree : ~IsStrictPrefix(new, p)
  <2> SUFFICES ASSUME NEW p \in DOMAIN tree, IsStrictPrefix(new, p) PROVE FALSE
    OBVIOUS
  <2>1. new \in DOMAIN tree
    BY <1>2, AllAbove DEF IsStrictPrefix
  <2>2. Below(new) = {}
    BY <2>1 DEF CanRename, CanCreate, Exists
  <2> QED BY <2>2 DEF Below
<1>4. /\ DOMAIN t = (DOMAIN tree \ Moved(old)) \cup targets
      /\ t = [p \in DOMAIN t |-> t[p]]
      /\ \A q \in Moved(old) : t[To(old, new, q)] = tree[q]
      /\ \A p \in DOMAIN t \ targets : t[p] = tree[p]
  BY <1>1, <1>2, RenamedByPath
<1> HIDE DEF t
<1>5. \A q \in Moved(old) :
        /\ q \in DOMAIN tree /\ q \in Paths /\ IsPrefix(old, q) /\ To(old, new, q) \in targets
        /\ q # old => IsStrictPrefix(old, q)
  BY <1>1, InTree, MovedSelf DEF Moved, Below, IsStrictPrefix, Targets
<1>11. \A q \in Moved(old) :
         /\ Len(To(old, new, q)) = Len(new) + (Len(q) - Len(old))
         /\ \A k \in 1..Len(new) : To(old, new, q)[k] = new[k]
  BY <1>1, <1>2, <1>5, MovedByName
<1>12. \A q \in Moved(old) : Len(q) \in Nat /\ Len(old) \in Nat /\ Len(old) <= Len(q)
  <2>1. \A q \in Moved(old) : Len(old) <= Len(q)
    BY <1>1, <1>5, PrefixByName
  <2>2. \A q \in Paths : Len(q) \in Nat
    BY DEF Paths
  <2> QED BY <1>1, <1>5, <2>1, <2>2
<1>6. \A p \in DOMAIN t : t[p] \in Kind
  <2>1. \A p \in targets : t[p] \in Kind
    BY <1>4, <1>5, InTree DEF Targets
  <2> QED BY <1>4, <2>1, InTree
\* Where new is put nothing moves away.
<1>7. ASSUME Len(new) > 1
      PROVE  Front(new) \in DOMAIN t /\ t[Front(new)] = "dir"
  <2>1. Front(new) \in Paths /\ Len(Front(new)) = Len(new) - 1
    BY <1>2, DirectoryAndName
  <2>2. Front(new) \notin Moved(old)
    <3> SUFFICES ASSUME Front(new) \in Moved(old) PROVE FALSE
      OBVIOUS
    <3>1. IsPrefix(old, Front(new))
      BY <1>5
    <3>2. IsStrictPrefix(old, new)
      BY <1>1, <1>2, <2>1, <3>1, PrefixOfDirectory
    <3> QED BY <1>1, <3>2
  <2>3. Front(new) \notin targets
    <3> SUFFICES ASSUME NEW q \in Moved(old), Front(new) = To(old, new, q) PROVE FALSE
      BY DEF Targets
    <3>1. Len(Front(new)) = Len(new) + (Len(q) - Len(old)) /\ Len(q) \in Nat /\ Len(old) \in Nat
          /\ Len(old) <= Len(q)
      BY <1>11, <1>12
    <3> QED BY <1>2, <2>1, <3>1
  <2>4. Front(new) \in DOMAIN t
    BY <1>2, <1>4, <1>7, <2>2
  <2> QED BY <1>2, <1>4, <1>7, <2>3, <2>4
<1>8. ASSUME NEW q \in Moved(old), Len(To(old, new, q)) > 1
      PROVE  Front(To(old, new, q)) \in DOMAIN t /\ t[Front(To(old, new, q))] = "dir"
  <2>1. CASE q = old
    <3>1. To(old, new, q) = new
      BY <1>1, <1>2, <2>1, MovedSelf
    <3> QED BY <1>7, <1>8, <3>1
  <2>2. CASE q # old
    <3>1. /\ Front(To(old, new, q)) = To(old, new, Front(q)) /\ q # <<>>
          /\ Front(q) \in Paths /\ IsPrefix(old, Front(q))
      BY <1>1, <1>2, <1>5, <2>2, MovedTogether
    <3>2. Len(q) > 1
      <4>1. Len(q) \in Nat /\ Len(Front(q)) = Len(q) - 1 /\ Len(old) \in Nat \ {0}
            /\ Len(old) <= Len(Front(q))
        BY <1>1, <1>5, <3>1, DirectoryAndName, PrefixByName
      <4> QED BY <4>1
    <3>3. Front(q) \in DOMAIN tree /\ tree[Front(q)] = "dir"
      BY <1>5, <3>2, InTree
    <3>4. Front(q) \in Moved(old)
      BY <3>1, <3>3 DEF Moved, Below, IsStrictPrefix
    <3> QED BY <1>4, <1>5, <3>1, <3>3, <3>4
  <2> QED BY <2>1, <2>2
<1>9. ASSUME NEW p \in DOMAIN t, p \notin targets, Len(p) > 1
      PROVE  Front(p) \in DOMAIN t /\ t[Front(p)] = "dir"
  <2>1. /\ p \in DOMAIN tree /\ p \notin Moved(old) /\ p \in Paths /\ p # <<>>
        /\ Front(p) \in DOMAIN tree /\ tree[Front(p)] = "dir" /\ Front(p) \in Paths
    BY <1>4, <1>9, InTree
  <2>2. Front(p) \notin Moved(old)
    <3> SUFFICES ASSUME Front(p) \in Moved(old) PROVE FALSE
      OBVIOUS
    <3>1. IsStrictPrefix(old, p)
      BY <1>1, <1>5, <2>1, PrefixOfDirectory
    <3> QED BY <2>1, <3>1 DEF Moved, Below
  <2>3. Front(p) \notin targets
    <3> SUFFICES ASSUME NEW q \in Moved(old), Front(p) = To(old, new, q) PROVE FALSE
      BY DEF Targets
    <3>1. IsPrefix(new, Front(p))
      <4>1. /\ Len(Front(p)) = Len(new) + (Len(q) - Len(old)) /\ Len(q) \in Nat /\ Len(old) \in Nat
            /\ Len(old) <= Len(q)
            /\ \A k \in 1..Len(new) : Front(p)[k] = new[k]
        BY <1>11, <1>12
      <4> QED BY <1>2, <2>1, <4>1, PrefixByName
    <3>2. IsStrictPrefix(new, p)
      BY <1>2, <2>1, <3>1, PrefixOfDirectory
    <3> QED BY <1>3, <2>1, <3>2
  <2> QED BY <1>4, <2>1, <2>2, <2>3
<1>10. \A p \in DOMAIN t : Len(p) > 1 => Front(p) \in DOMAIN t /\ t[Front(p)] = "dir"
  BY <1>8, <1>9 DEF Targets
<1> QED BY <1>4, <1>6, <1>10 DEF IsTree, t

-----------------------------------------------------------------------------
(* The tree.                                                               *)

\* The tree only ever becomes one that a shell or another process makes.
LEMMA StepKeepsTree ==
  ASSUME IsTree(tree), Next
  PROVE  IsTree(tree')
<1>1. ASSUME NEW sh \in Shell, MvRename(sh)
      PROVE  IsTree(tree')
  <2> DEFINE old == call[sh].old
             new == call[sh].new
  <2>1. \/ tree' = tree
        \/ CanRename(old, new) /\ DOMAIN Renamed(old, new) \subseteq Path /\ tree' = Renamed(old, new)
    BY <1>1 DEF MvRename, Changes
  <2> HIDE DEF old, new
  <2> QED BY <2>1, RenamedIsTree
<1>2. ASSUME NEW sh \in Shell, RmNext(sh)
      PROVE  IsTree(tree')
  BY <1>2 DEF RmNext
<1>3. ASSUME NEW sh \in Shell, NEW p \in Todo(sh), RmUnlink(sh, p)
      PROVE  IsTree(tree')
  <2>1. tree' = tree \/ (~IsDir(p) /\ tree' = Without(p))
    BY <1>3 DEF RmUnlink, Changes
  <2> QED BY <2>1, UnlinkedIsTree
<1>4. ASSUME NEW sh \in Shell, RmReturn(sh)
      PROVE  IsTree(tree')
  <2>1. tree' = tree \/ tree' = Rmdir(Last(Frames(sh)).of)
    BY <1>4 DEF RmReturn, Changes
  <2> QED BY <2>1, RmdirIsTree
<1>5. ASSUME NEW sh \in Shell, NEW p \in Path, MkdirFunc(sh, p)
      PROVE  IsTree(tree')
  <2>1. CanCreate(p) /\ tree' = With(p, "dir") /\ "dir" \in Kind
    BY <1>5 DEF MkdirFunc, Changes, Kind
  <2> QED BY <2>1, WithIsTree
<1>6. ASSUME NEW sh \in Shell, NEW p \in Path, RmdirFunc(sh, p)
      PROVE  IsTree(tree')
  BY <1>6, RmdirIsTree DEF RmdirFunc, Changes
<1>7. ASSUME NEW p \in Path, OtherProcess(p)
      PROVE  IsTree(tree')
  <2>1. CASE \E kind \in Kind : CanCreate(p) /\ tree' = With(p, kind)
    BY <2>1, WithIsTree
  <2>2. CASE ~IsDir(p) /\ tree' = Without(p)
    BY <2>2, UnlinkedIsTree
  <2>3. CASE tree' = Rmdir(p)
    BY <2>3, RmdirIsTree
  <2> QED BY <1>7, <2>1, <2>2, <2>3 DEF OtherProcess
<1>8. ASSUME NEW sh \in Shell, RmDone(sh) \/ \E p, q \in Path : MvFunc(sh, p, q)
      PROVE  IsTree(tree')
  BY <1>8 DEF RmDone, MvFunc
<1>9. ASSUME NEW sh \in Shell, \E args \in Commands : RmFunc(sh, args)
      PROVE  IsTree(tree')
  BY <1>9 DEF RmFunc
<1> QED BY <1>1, <1>2, <1>3, <1>4, <1>5, <1>6, <1>7, <1>8, <1>9 DEF Next, Goes

-----------------------------------------------------------------------------
(* What a call of rm is about to remove.                                   *)

\* p is one of the paths a pattern stands for.
Matches(p, pattern) == Len(p) = Len(pattern) /\ \A k \in 1..Len(p) : p[k] \in Reads[pattern[k]]

\* What glob returns matches the pattern, also where there is no such file.
LEMMA GlobMatches ==
  ASSUME IsTree(tree), NEW pattern \in Paths, pattern # <<>>, NEW p \in Glob(pattern)
  PROVE  p \in Paths /\ p # <<>> /\ Matches(p, pattern)
<1>1. Len(pattern) \in Nat
  BY DEF Paths
<1>2. CASE IsPlain(pattern)
  BY <1>2 DEF Glob, IsPlain, Matches
<1>3. CASE ~IsPlain(pattern)
  BY <1>3, InTree DEF Glob, Matches
<1> QED BY <1>2, <1>3

\* glob finds everything that exists and matches.
LEMMA GlobFinds ==
  ASSUME IsTree(tree), NEW pattern \in Paths, NEW p \in DOMAIN tree, Matches(p, pattern)
  PROVE  p \in Glob(pattern)
<1>1. p \in Paths
  BY InTree
<1>2. CASE IsPlain(pattern)
  <2>1. Len(p) = Len(pattern) /\ \A k \in 1..Len(p) : p[k] = pattern[k]
    BY <1>2 DEF IsPlain, Matches
  <2> QED BY <1>1, <1>2, <2>1, SamePath DEF Glob
<1>3. CASE ~IsPlain(pattern)
  BY <1>3 DEF Glob, Matches
<1> QED BY <1>2, <1>3

\* The pattern for a directory, name by name
LEMMA PatternByName ==
  ASSUME NEW p \in Paths
  PROVE  /\ Append(p, "*") \in Paths /\ Append(p, "*") # <<>>
         /\ Len(Append(p, "*")) = Len(p) + 1 /\ Len(p) \in Nat
         /\ \A k \in 1..Len(p) : Append(p, "*")[k] = p[k]
         /\ Append(p, "*")[Len(p) + 1] = "*"
<1>1. "*" \in AnyName /\ Len(p) \in Nat
  BY DEF AnyName, Paths
<1> QED BY <1>1, AppendProperties DEF Paths

\* The pattern for a directory without wildcards stands for what is in it
\* and not hidden.
LEMMA PatternMatches ==
  ASSUME NEW p \in Paths, IsPlain(p), NEW q \in Paths
  PROVE  Matches(q, Append(p, "*"))
           <=> (q # <<>> /\ Front(q) = p /\ Last(q) \in Names \ Hidden)
<1>1. /\ Append(p, "*") \in Paths /\ Len(Append(p, "*")) = Len(p) + 1 /\ Len(p) \in Nat
      /\ \A k \in 1..Len(p) : Append(p, "*")[k] = p[k]
      /\ Append(p, "*")[Len(p) + 1] = "*"
  BY PatternByName
<1> DEFINE pattern == Append(p, "*")
<1> HIDE DEF pattern
<1>2. \A k \in 1..Len(p) : Reads[pattern[k]] = {p[k]}
  BY <1>1 DEF IsPlain, pattern
<1>3. Reads[pattern[Len(p) + 1]] = Names \ Hidden
  BY <1>1, DiscAssumption DEF pattern
<1>4. Len(pattern) = Len(p) + 1
  BY <1>1 DEF pattern
<1>5. ASSUME Matches(q, pattern)
      PROVE  q # <<>> /\ Front(q) = p /\ Last(q) \in Names \ Hidden
  <2>1. /\ Len(q) = Len(p) + 1 /\ \A k \in 1..Len(p) : q[k] = p[k]
        /\ q[Len(q)] \in Names \ Hidden
    <3>1. Len(q) = Len(p) + 1 /\ Len(p) + 1 \in 1..Len(q) /\ \A k \in 1..Len(p) : k \in 1..Len(q)
      BY <1>1, <1>4, <1>5 DEF Matches
    <3> QED BY <1>2, <1>3, <1>5, <3>1 DEF Matches
  <2>2. q # <<>>
    BY <1>1, <2>1
  <2>3. /\ Front(q) \in Paths /\ Len(Front(q)) = Len(q) - 1 /\ Last(q) = q[Len(q)]
        /\ \A k \in 1..(Len(q) - 1) : Front(q)[k] = q[k]
    BY <2>2, DirectoryAndName
  <2>4. Len(Front(q)) = Len(p) /\ \A k \in 1..Len(Front(q)) : Front(q)[k] = p[k]
    BY <1>1, <2>1, <2>3
  <2> QED BY <2>1, <2>2, <2>3, <2>4, SamePath
<1>6. ASSUME q # <<>>, Front(q) = p, Last(q) \in Names \ Hidden
      PROVE  Matches(q, pattern)
  <2>1. /\ Len(p) = Len(q) - 1 /\ Last(q) = q[Len(q)] /\ Len(q) \in Nat
        /\ \A k \in 1..(Len(q) - 1) : p[k] = q[k]
    BY <1>6, DirectoryAndName
  <2>2. ASSUME NEW k \in 1..Len(q) PROVE q[k] \in Reads[pattern[k]]
    <3>1. CASE k = Len(p) + 1
      BY <1>1, <1>3, <1>6, <2>1, <3>1
    <3>2. CASE k # Len(p) + 1
      <4>1. k \in 1..Len(p) /\ k \in 1..(Len(q) - 1)
        BY <1>1, <2>1, <3>2
      <4> QED BY <1>2, <2>1, <4>1
    <3> QED BY <3>1, <3>2
  <2> QED BY <1>1, <1>4, <2>1, <2>2 DEF Matches
<1> QED BY <1>5, <1>6 DEF pattern

\* The words that count as options are the ones of which one has the r.
LEMMA FlagsAreRecursive ==
  ASSUME NEW args
  PROVE  Flags(args) <=> Recursive(args)
BY DEF Flags, Recursive, IsOperand

\* The path is what a word stands for or, with -r, below such a path and
\* not hidden.
Asked(p, args) ==
  \/ Meant(p, args)
  \/ /\ Recursive(args) /\ Last(p) \notin Hidden
     /\ \E n \in 1..(Len(p) - 1) : Meant(SubSeq(p, 1, n), args)

\* What rm -r finds in a directory that it was asked to remove it is asked
\* to remove.
LEMMA AskedBelow ==
  ASSUME NEW args, Recursive(args), NEW p \in Paths, p # <<>>, Asked(p, args),
         NEW q \in Paths, q # <<>>, Front(q) = p, Last(q) \notin Hidden
  PROVE  Asked(q, args)
<1>1. /\ Len(p) \in Nat \ {0} /\ Len(q) \in Nat /\ Len(p) = Len(q) - 1
      /\ \A k \in 1..Len(p) : p[k] = q[k]
  BY DirectoryAndName
<1>2. \A n \in 1..Len(p) : SubSeq(q, 1, n) = SubSeq(p, 1, n)
  <2> TAKE n \in 1..Len(p)
  <2>1. n \in 0..Len(p) /\ n \in 0..Len(q) /\ \A k \in 1..n : k \in 1..Len(p)
    BY <1>1
  <2>2. /\ SubSeq(q, 1, n) \in Paths /\ Len(SubSeq(q, 1, n)) = n
        /\ \A k \in 1..n : SubSeq(q, 1, n)[k] = q[k]
    BY <2>1, FirstElements DEF Paths
  <2>3. /\ SubSeq(p, 1, n) \in Paths /\ Len(SubSeq(p, 1, n)) = n
        /\ \A k \in 1..n : SubSeq(p, 1, n)[k] = p[k]
    BY <2>1, FirstElements DEF Paths
  <2> QED BY <1>1, <2>1, <2>2, <2>3, SamePath
<1>3. SubSeq(p, 1, Len(p)) = p
  BY SubSeqFull DEF Paths
<1>4. CASE Meant(p, args)
  <2>1. Len(p) \in 1..(Len(q) - 1) /\ Len(p) \in 1..Len(p)
    BY <1>1
  <2>2. Meant(SubSeq(q, 1, Len(p)), args)
    BY <1>2, <1>3, <1>4, <2>1
  <2> QED BY <2>1, <2>2 DEF Asked
<1>5. CASE \E n \in 1..(Len(p) - 1) : Meant(SubSeq(p, 1, n), args)
  <2>1. PICK n \in 1..(Len(p) - 1) : Meant(SubSeq(p, 1, n), args)
    BY <1>5
  <2>2. n \in 1..Len(p) /\ n \in 1..(Len(q) - 1)
    BY <1>1
  <2> QED BY <1>2, <2>1, <2>2 DEF Asked
<1> QED BY <1>4, <1>5 DEF Asked

-----------------------------------------------------------------------------
(* The active calls of rmPriv.                                             *)

AnyFrame == [of : Paths, todo : SUBSET (Paths \ {<<>>})]

\* The stack after one path of the innermost globresult has been handled
Rest(frames, p) == Append(Front(frames), Frame(Last(frames).of, Last(frames).todo \ {p}))

\* Handling a path changes nothing but the innermost globresult.
LEMMA RestByFrame ==
  ASSUME NEW frames \in Seq(AnyFrame), frames # <<>>, NEW p
  PROVE  /\ Rest(frames, p) \in Seq(AnyFrame) /\ Len(Rest(frames, p)) = Len(frames)
         /\ Len(frames) \in Nat \ {0} /\ Last(frames) = frames[Len(frames)]
         /\ \A f \in 1..(Len(frames) - 1) : Rest(frames, p)[f] = frames[f]
         /\ Rest(frames, p)[Len(frames)].todo = frames[Len(frames)].todo \ {p}
         /\ \A f \in 1..Len(frames) : Rest(frames, p)[f].of = frames[f].of
         /\ \A f \in 1..Len(frames) : Rest(frames, p)[f].todo \subseteq frames[f].todo
<1>1. /\ Len(frames) \in Nat \ {0} /\ Front(frames) \in Seq(AnyFrame)
      /\ Len(Front(frames)) = Len(frames) - 1 /\ Last(frames) = frames[Len(frames)]
      /\ Last(frames) \in AnyFrame
      /\ \A f \in 1..(Len(frames) - 1) : Front(frames)[f] = frames[f]
  BY FrontAndLast
<1> DEFINE new == Frame(Last(frames).of, Last(frames).todo \ {p})
<1>2. new \in AnyFrame /\ new.of = Last(frames).of /\ new.todo = Last(frames).todo \ {p}
  BY <1>1 DEF Frame, AnyFrame
<1>3. Rest(frames, p) = Append(Front(frames), new)
  BY DEF Rest
<1>4. new = Frame(frames[Len(frames)].of, frames[Len(frames)].todo \ {p})
  BY <1>1
<1> HIDE DEF new
<1>5. /\ Rest(frames, p) \in Seq(AnyFrame) /\ Len(Rest(frames, p)) = Len(frames)
      /\ \A f \in 1..(Len(frames) - 1) : Rest(frames, p)[f] = Front(frames)[f]
      /\ Rest(frames, p)[Len(frames)] = new
  <2>1. Len(frames) - 1 + 1 = Len(frames)
    BY <1>1
  <2> QED BY <1>1, <1>2, <1>3, <2>1, AppendProperties
<1>6. \A f \in 1..Len(frames) : f = Len(frames) \/ f \in 1..(Len(frames) - 1)
  BY <1>1
<1>7. Rest(frames, p)[Len(frames)].todo = frames[Len(frames)].todo \ {p}
  BY <1>1, <1>2, <1>5 DEF new
<1> QED BY <1>1, <1>2, <1>4, <1>5, <1>6, <1>7

\* One of the directories up to the frame has a name with wildcards.
Wild(frames, f) == \E g \in 1..f : ~IsPlain(frames[g].of)

\* Everything that the active calls of rmPriv have in hand is asked for, or
\* is below a directory whose name has wildcards.
FramesAsked(frames, args, r) ==
  /\ frames # <<>> => frames[1].of = <<>>
  /\ \A f \in 2..Len(frames) :
       frames[f].of # <<>> /\ r /\ (Wild(frames, f - 1) \/ Asked(frames[f].of, args))
  /\ \A f \in 1..Len(frames) : \A q \in frames[f].todo : Wild(frames, f) \/ Asked(q, args)

\* The first call, for a word
LEMMA FirstFrameAsked ==
  ASSUME NEW args, NEW r, NEW todo \in SUBSET (Paths \ {<<>>}), \A q \in todo : Asked(q, args)
  PROVE  LET frames == <<Frame(<<>>, todo)>> IN
           frames \in Seq(AnyFrame) /\ FramesAsked(frames, args, r)
<1> DEFINE frames == <<Frame(<<>>, todo)>>
<1>1. Frame(<<>>, todo) \in AnyFrame
  BY DEF Frame, AnyFrame, Paths
<1>2. frames \in Seq(AnyFrame) /\ Len(frames) = 1 /\ frames[1] = Frame(<<>>, todo)
  BY <1>1
<1>3. frames[1].of = <<>> /\ frames[1].todo = todo
  BY <1>2 DEF Frame
<1> HIDE DEF frames
<1> QED BY <1>2, <1>3 DEF FramesAsked, frames

\* A path is handled.
LEMMA RestAsked ==
  ASSUME NEW frames \in Seq(AnyFrame), frames # <<>>, NEW args, NEW r, FramesAsked(frames, args, r), NEW p
  PROVE  FramesAsked(Rest(frames, p), args, r)
<1> DEFINE rest == Rest(frames, p)
<1>1. /\ Len(rest) = Len(frames) /\ Len(frames) \in Nat \ {0} /\ rest # <<>>
      /\ \A f \in 1..Len(frames) : rest[f].of = frames[f].of /\ rest[f].todo \subseteq frames[f].todo
  BY RestByFrame
<1> HIDE DEF rest
<1>2. \A f \in 0..Len(frames) : Wild(rest, f) <=> Wild(frames, f)
  BY <1>1 DEF Wild
<1>3. \A f \in 2..Len(frames) : f - 1 \in 0..Len(frames) /\ f \in 1..Len(frames)
  BY <1>1
<1>4. \A f \in 1..Len(frames) : f \in 0..Len(frames)
  BY <1>1
<1>5. 1 \in 1..Len(frames)
  BY <1>1
<1> QED BY <1>1, <1>2, <1>3, <1>4, <1>5 DEF FramesAsked, rest

\* rmPriv calls itself.
LEMMA PushAsked ==
  ASSUME NEW frames \in Seq(AnyFrame), frames # <<>>, NEW args, NEW r, FramesAsked(frames, args, r),
         NEW p \in Paths, p # <<>>, NEW todo \in SUBSET (Paths \ {<<>>}), r,
         Wild(frames, Len(frames)) \/ Asked(p, args),
         \A q \in todo : Wild(frames, Len(frames)) \/ ~IsPlain(p) \/ Asked(q, args)
  PROVE  LET new == Append(frames, Frame(p, todo)) IN
           new \in Seq(AnyFrame) /\ FramesAsked(new, args, r)
<1> DEFINE new == Append(frames, Frame(p, todo))
           n == Len(frames)
<1>1. Frame(p, todo) \in AnyFrame /\ Frame(p, todo).of = p /\ Frame(p, todo).todo = todo
  BY DEF Frame, AnyFrame
<1>2. /\ new \in Seq(AnyFrame) /\ new # <<>> /\ Len(new) = n + 1 /\ n \in Nat \ {0}
      /\ \A f \in 1..n : new[f] = frames[f]
      /\ new[n + 1].of = p /\ new[n + 1].todo = todo
  BY <1>1, AppendProperties, EmptySeq
<1> HIDE DEF new
<1>3. n + 1 \in 1..(n + 1) /\ 1 \in 1..n /\ n + 1 - 1 = n /\ n \in 0..n
  BY <1>2
<1>4. \A f \in 0..n : Wild(new, f) <=> Wild(frames, f)
  BY <1>2 DEF Wild
<1>5. Wild(new, n + 1) <=> Wild(frames, n) \/ ~IsPlain(p)
  <2>1. \A g \in 1..(n + 1) : g = n + 1 \/ g \in 1..n
    BY <1>2
  <2>2. \A g \in 1..n : g \in 1..(n + 1)
    BY <1>2
  <2> QED BY <1>2, <1>3, <2>1, <2>2 DEF Wild
<1>6. ASSUME NEW f \in 2..Len(new)
      PROVE  new[f].of # <<>> /\ r /\ (Wild(new, f - 1) \/ Asked(new[f].of, args))
  <2>1. CASE f = n + 1
    BY <1>2, <1>3, <1>4, <2>1
  <2>2. CASE f # n + 1
    <3>1. f \in 2..n /\ f \in 1..n /\ f - 1 \in 0..n
      BY <1>2, <2>2
    <3> HIDE DEF n
    <3> QED BY <1>2, <1>4, <3>1 DEF FramesAsked, n
  <2> QED BY <2>1, <2>2
<1>7. ASSUME NEW f \in 1..Len(new), NEW q \in new[f].todo
      PROVE  Wild(new, f) \/ Asked(q, args)
  <2>1. CASE f = n + 1
    BY <1>2, <1>5, <1>7, <2>1
  <2>2. CASE f # n + 1
    <3>1. f \in 1..n /\ f \in 0..n
      BY <1>2, <2>2
    <3> QED BY <1>2, <1>4, <1>7, <3>1 DEF FramesAsked
  <2> QED BY <2>1, <2>2
<1>8. new[1].of = <<>>
  BY <1>2, <1>3 DEF FramesAsked
<1> QED BY <1>2, <1>6, <1>7, <1>8 DEF FramesAsked, new

\* rmPriv returns.
LEMMA PopAsked ==
  ASSUME NEW frames \in Seq(AnyFrame), frames # <<>>, NEW args, NEW r, FramesAsked(frames, args, r)
  PROVE  Front(frames) \in Seq(AnyFrame) /\ FramesAsked(Front(frames), args, r)
<1> DEFINE new == Front(frames)
           n == Len(frames) - 1
<1>1. /\ new \in Seq(AnyFrame) /\ Len(new) = n /\ Len(frames) \in Nat \ {0} /\ n \in Nat
      /\ \A f \in 1..n : new[f] = frames[f]
  BY FrontAndLast
<1>2. new # <<>> => 1 \in 1..n
  BY <1>1, EmptySeq
<1>3. \A f \in 1..n : f \in 1..Len(frames) /\ f \in 0..n
  BY <1>1
<1>4. \A f \in 2..n : f \in 2..Len(frames) /\ f \in 1..n /\ f - 1 \in 0..n
  BY <1>1
<1> HIDE DEF new, n
<1>5. \A f \in 0..n : Wild(new, f) <=> Wild(frames, f)
  BY <1>1 DEF Wild
<1> QED BY <1>1, <1>2, <1>3, <1>4, <1>5 DEF FramesAsked, new

\* The call of rmPriv for a word has the paths of its glob in hand.
LEMMA FirstNested ==
  ASSUME NEW length \in Nat, NEW todo \in SUBSET (Paths \ {<<>>}), \A q \in todo : Len(q) = length
  PROVE  Nested(<<Frame(<<>>, todo)>>, length)
<1> DEFINE frames == <<Frame(<<>>, todo)>>
<1>1. Frame(<<>>, todo) \in AnyFrame /\ Frame(<<>>, todo).todo = todo
  BY DEF Frame, AnyFrame, Paths
<1>2. Len(frames) = 1 /\ frames[1].todo = todo /\ length + 1 - 1 = length
  BY <1>1
<1> HIDE DEF frames
<1> QED BY <1>2 DEF Nested, frames

\* What is handled is gone from the innermost globresult.
LEMMA RestNested ==
  ASSUME NEW frames \in Seq(AnyFrame), frames # <<>>, NEW length, Nested(frames, length),
         NEW p \in Last(frames).todo
  PROVE  /\ Nested(Rest(frames, p), length)
         /\ Len(p) = length + Len(frames) - 1
         /\ p \notin Rest(frames, p)[Len(frames)].todo
<1> DEFINE rest == Rest(frames, p)
           n == Len(frames)
<1>1. /\ Len(rest) = n /\ n \in Nat \ {0} /\ Last(frames) = frames[n]
      /\ \A f \in 1..n : rest[f].of = frames[f].of /\ rest[f].todo \subseteq frames[f].todo
      /\ rest[n].todo = frames[n].todo \ {p}
  BY RestByFrame
<1> HIDE DEF rest, n
<1>2. \A f \in 2..n : f \in 1..n /\ f - 1 \in 1..n
  BY <1>1
<1>3. n \in 1..n
  BY <1>1
<1>4. \A f \in 1..n : \A q \in frames[f].todo : Len(q) = length + f - 1
  BY DEF Nested, n
<1>5. \A f \in 2..n : Len(frames[f].of) = length + f - 2 /\ frames[f].of \notin frames[f - 1].todo
  BY DEF Nested, n
<1>6. Nested(rest, length)
  BY <1>1, <1>2, <1>4, <1>5 DEF Nested
<1> QED BY <1>1, <1>3, <1>4, <1>6 DEF rest, n

\* rmPriv calls itself with a pattern of one name more.
LEMMA PushNested ==
  ASSUME NEW frames \in Seq(AnyFrame), frames # <<>>, NEW length \in Nat, Nested(frames, length),
         NEW p \in Paths, Len(p) = length + Len(frames) - 1, p \notin frames[Len(frames)].todo,
         NEW todo \in SUBSET (Paths \ {<<>>}), \A q \in todo : Len(q) = Len(p) + 1
  PROVE  Nested(Append(frames, Frame(p, todo)), length)
<1> DEFINE new == Append(frames, Frame(p, todo))
           n == Len(frames)
<1>1. Frame(p, todo) \in AnyFrame /\ Frame(p, todo).of = p /\ Frame(p, todo).todo = todo
  BY DEF Frame, AnyFrame
<1>2. /\ Len(new) = n + 1 /\ n \in Nat \ {0}
      /\ \A f \in 1..n : new[f] = frames[f]
      /\ new[n + 1].of = p /\ new[n + 1].todo = todo
  BY <1>1, AppendProperties, EmptySeq
<1>3. Len(p) = length + (n + 1) - 2 /\ Len(p) + 1 = length + (n + 1) - 1 /\ n + 1 - 1 = n /\ n \in 1..n
  BY <1>2
<1>4. p \notin frames[n].todo
  OBVIOUS
<1> HIDE DEF new, n
<1>5. ASSUME NEW f \in 1..(n + 1), NEW q \in new[f].todo
      PROVE  Len(q) = length + f - 1
  <2>1. CASE f = n + 1
    BY <1>2, <1>3, <1>5, <2>1
  <2>2. CASE f # n + 1
    <3>1. f \in 1..n
      BY <1>2, <2>2
    <3> QED BY <1>2, <1>5, <3>1 DEF Nested, n
  <2> QED BY <2>1, <2>2
<1>6. ASSUME NEW f \in 2..(n + 1)
      PROVE  Len(new[f].of) = length + f - 2 /\ new[f].of \notin new[f - 1].todo
  <2>1. CASE f = n + 1
    <3>1. f - 1 = n
      BY <1>2, <2>1
    <3>2. new[f - 1] = frames[n]
      BY <1>2, <1>3, <3>1
    <3> QED BY <1>2, <1>3, <1>4, <2>1, <3>2
  <2>2. CASE f # n + 1
    <3>1. f \in 2..n /\ f \in 1..n /\ f - 1 \in 1..n
      BY <1>2, <2>2
    <3> QED BY <1>2, <3>1 DEF Nested, n
  <2> QED BY <2>1, <2>2
<1> QED BY <1>2, <1>5, <1>6 DEF Nested, new

\* rmPriv returns.
LEMMA PopNested ==
  ASSUME NEW frames \in Seq(AnyFrame), frames # <<>>, NEW length, Nested(frames, length)
  PROVE  Nested(Front(frames), length)
<1> DEFINE new == Front(frames)
           n == Len(frames) - 1
<1>1. Len(new) = n /\ n \in Nat /\ n + 1 = Len(frames) /\ \A f \in 1..n : new[f] = frames[f]
  BY FrontAndLast
<1>2. \A f \in 1..n : f \in 1..(n + 1)
  BY <1>1
<1>3. \A f \in 2..n : f \in 2..(n + 1) /\ f \in 1..n /\ f - 1 \in 1..n
  BY <1>1
<1> HIDE DEF new, n
<1> QED BY <1>1, <1>2, <1>3 DEF Nested, new

-----------------------------------------------------------------------------
(* A call of rm.                                                           *)

RmCall == [func : {"rm"}, args : Commands, r : BOOLEAN, next : Nat, endflags : BOOLEAN,
           frames : Seq(AnyFrame)]

\* The number of names of the word that rm is at
Length(c) == Len(c.args[c.next - 1].path)

\* What a call of rm knows of its command line is right, all that is in its
\* hands is asked for, and the directories it is in are nested.
RmCallInv(c) ==
  /\ c \in RmCall
  /\ c.r <=> Recursive(c.args)
  /\ c.next \in 1..(Len(c.args) + 1)
  /\ c.endflags <=> \E j \in 1..(c.next - 1) : c.args[j].type = "--"
  /\ FramesAsked(c.frames, c.args, c.r)
  /\ c.frames # <<>> => Length(c) \in Nat /\ Nested(c.frames, Length(c))

CallsInv ==
  /\ DOMAIN call = Shell
  /\ \A sh \in Shell : InRm(sh) => RmCallInv(call[sh])

DiscInv == IsTree(tree) /\ CallsInv

\* The words of a command line
LEMMA CommandWords ==
  ASSUME NEW args \in Commands
  PROVE  /\ args \in Seq(Word) /\ Len(args) \in Nat
         /\ \A k \in 1..Len(args) : /\ args[k] \in Word /\ args[k].path \in Paths
                                     /\ args[k].path # <<>>
<1>1. args \in Seq(Word) /\ Len(args) \in Nat /\ \A k \in 1..Len(args) : args[k] \in Word
  BY DiscAssumption
<1>2. \A w \in Word : w.path \in Paths /\ w.path # <<>>
  BY PathsAreSequences DEF Word
<1> QED BY <1>1, <1>2

\* A call of rm that has just begun
LEMMA RmFuncInv ==
  ASSUME CallsInv, NEW sh \in Shell, NEW args \in Commands, RmFunc(sh, args)
  PROVE  call'[sh].func = "rm" /\ RmCallInv(call'[sh]) /\ call'[sh].frames = <<>>
<1> DEFINE c == [func |-> "rm", args |-> args, r |-> Flags(args),
                 next |-> 1, endflags |-> FALSE, frames |-> <<>>]
<1>1. call'[sh] = c
  BY DEF CallsInv, RmFunc
<1>2. Flags(args) \in BOOLEAN
  BY DEF Flags
<1>3. c \in RmCall
  <2>1. <<>> \in Seq(AnyFrame)
    BY EmptySeq
  <2> QED BY <1>2, <2>1 DEF RmCall
<1>4. FramesAsked(<<>>, args, c.r)
  BY EmptySeq DEF FramesAsked
<1>5. 1 \in 1..(Len(args) + 1) /\ 1 - 1 = 0
  BY CommandWords
<1>6. c.frames = <<>>
  OBVIOUS
<1> QED BY <1>1, <1>3, <1>4, <1>5, <1>6, FlagsAreRecursive DEF RmCallInv

\* The paths of a word that is no option are asked for.
LEMMA OperandAsked ==
  ASSUME NEW args \in Commands, NEW k \in 1..Len(args), IsOperand(args, k), NEW p,
         Matches(p, args[k].path)
  PROVE  Meant(p, args)
BY DEF Meant, Matches

\* A word is looked at.
LEMMA RmNextInv ==
  ASSUME IsTree(tree), CallsInv, NEW sh \in Shell, RmNext(sh)
  PROVE  LET c == call[sh]
             word == c.args[c.next]
             skips == ~c.endflags /\ word.type # "file"
         IN  /\ call'[sh].func = "rm" /\ RmCallInv(call'[sh])
             /\ call'[sh].args = c.args /\ call'[sh].r = c.r /\ call'[sh].next = c.next + 1
             /\ call'[sh].frames = IF skips THEN <<>> ELSE <<Frame(<<>>, Glob(word.path))>>
             /\ c.next \in 1..Len(c.args)
<1> DEFINE c == call[sh]
           word == c.args[c.next]
           skips == ~c.endflags /\ word.type # "file"
           first == <<Frame(<<>>, Glob(word.path))>>
           frames == IF skips THEN <<>> ELSE first
<1>1. RmCallInv(c) /\ c.next <= Len(c.args) /\ c \in RmCall
  BY DEF CallsInv, RmNext, RmCallInv
<1>2. call'[sh] = [c EXCEPT !.next = @ + 1, !.endflags = @ \/ word.type = "--", !.frames = frames]
  BY DEF CallsInv, RmNext
<1> HIDE DEF frames
<1>3. /\ c.args \in Commands /\ c.next \in 1..Len(c.args) /\ c.next \in Nat /\ c.r \in BOOLEAN
      /\ Len(c.args) \in Nat /\ word.path \in Paths /\ word.path # <<>>
  <2>1. c.args \in Commands /\ c.next \in 1..(Len(c.args) + 1) /\ c.r \in BOOLEAN
    BY <1>1 DEF RmCall, RmCallInv
  <2>2. Len(c.args) \in Nat
    BY <2>1, CommandWords
  <2>3. c.next \in 1..Len(c.args)
    BY <1>1, <2>1, <2>2
  <2> HIDE DEF c
  <2> QED BY <2>1, <2>2, <2>3, CommandWords
<1>4. c.endflags <=> \E j \in 1..(c.next - 1) : c.args[j].type = "--"
  BY <1>1 DEF RmCallInv
<1>5. /\ frames \in Seq(AnyFrame) /\ FramesAsked(frames, c.args, c.r)
      /\ frames # <<>> => Nested(frames, Len(word.path))
  <2>1. CASE skips
    <3>1. frames = <<>>
      BY <2>1 DEF frames
    <3> QED BY <3>1, EmptySeq DEF FramesAsked
  <2>2. CASE ~skips
    <3>1. IsOperand(c.args, c.next)
      BY <1>4, <2>2 DEF IsOperand
    <3> DEFINE todo == Glob(word.path)
    <3>2. \A q \in todo : q \in Paths /\ q # <<>> /\ Matches(q, word.path)
      BY <1>3, GlobMatches
    <3>3. \A q \in todo : Meant(q, c.args)
      <4> HIDE DEF todo
      <4> QED BY <1>3, <3>1, <3>2, OperandAsked
    <3>4. todo \in SUBSET (Paths \ {<<>>}) /\ \A q \in todo : Asked(q, c.args)
      BY <3>2, <3>3 DEF Asked
    <3>5. frames = <<Frame(<<>>, todo)>>
      BY <2>2 DEF frames
    <3>6. Len(word.path) \in Nat /\ \A q \in todo : Len(q) = Len(word.path)
      BY <1>3, <3>2 DEF Matches, Paths
    <3> HIDE DEF todo, c, word
    <3> QED BY <3>4, <3>5, <3>6, FirstFrameAsked, FirstNested
  <2> QED BY <2>1, <2>2
<1>6. LET e == c.endflags \/ word.type = "--" IN
        e \in BOOLEAN /\ (e <=> \E j \in 1..c.next : c.args[j].type = "--")
  <2>1. \A j \in 1..c.next : j = c.next \/ j \in 1..(c.next - 1)
    BY <1>3
  <2>2. \A j \in 1..(c.next - 1) : j \in 1..c.next
    BY <1>3
  <2>3. c.next \in 1..c.next
    BY <1>3
  <2> HIDE DEF c
  <2> QED BY <1>4, <2>1, <2>2, <2>3
<1>7. c.next + 1 \in 1..(Len(c.args) + 1) /\ c.next + 1 - 1 = c.next /\ c.next + 1 \in Nat
  BY <1>3
<1>8. /\ call'[sh] \in RmCall /\ call'[sh].func = "rm" /\ call'[sh].args = c.args
      /\ call'[sh].r = c.r
      /\ call'[sh].next = c.next + 1 /\ call'[sh].endflags = (c.endflags \/ word.type = "--")
      /\ call'[sh].frames = frames
  <2> DEFINE e == c.endflags \/ word.type = "--"
             n == c.next + 1
  <2>1. call'[sh] = [c EXCEPT !.next = n, !.endflags = e, !.frames = frames]
    BY <1>2
  <2>2. e \in BOOLEAN /\ n \in Nat
    BY <1>6, <1>7
  <2> HIDE DEF e, n, c
  <2>3. /\ call'[sh] \in RmCall /\ call'[sh].func = "rm" /\ call'[sh].args = c.args
        /\ call'[sh].r = c.r
        /\ call'[sh].next = n /\ call'[sh].endflags = e /\ call'[sh].frames = frames
    BY <1>1, <1>5, <2>1, <2>2 DEF RmCall
  <2> QED BY <2>3 DEF e, n, c
<1>9. c.r <=> Recursive(c.args)
  BY <1>1 DEF RmCallInv
<1>10. call'[sh].endflags
         <=> \E j \in 1..(call'[sh].next - 1) : call'[sh].args[j].type = "--"
  <2> DEFINE e == c.endflags \/ word.type = "--"
  <2>1. e <=> \E j \in 1..c.next : c.args[j].type = "--"
    BY <1>6
  <2>2. call'[sh].endflags = e
    BY <1>8
  <2>3. call'[sh].next = c.next + 1 /\ call'[sh].args = c.args
    BY <1>8
  <2> HIDE DEF e, c
  <2>4. call'[sh].next - 1 = c.next
    BY <1>3, <2>3
  <2> QED BY <2>1, <2>2, <2>3, <2>4
<1>11. Length(call'[sh]) = Len(word.path) /\ Len(word.path) \in Nat
  <2>1. call'[sh].args = c.args /\ call'[sh].next = c.next + 1 /\ c.next + 1 - 1 = c.next
    BY <1>7, <1>8
  <2>2. word.path \in Seq(AnyName)
    BY <1>3 DEF Paths
  <2>3. Len(word.path) \in Nat
    <3> HIDE DEF word
    <3> QED BY <2>2
  <2>4. call'[sh].next - 1 = c.next
    <3> HIDE DEF c
    <3> QED BY <1>3, <2>1
  <2>5. call'[sh].args[call'[sh].next - 1] = word
    BY <2>1, <2>4
  <2> HIDE DEF word
  <2> QED BY <2>3, <2>5 DEF Length
<1> HIDE DEF c, word
<1>12. RmCallInv(call'[sh])
  BY <1>5, <1>7, <1>8, <1>9, <1>10, <1>11 DEF RmCallInv
<1> QED BY <1>3, <1>8, <1>12 DEF c, frames, word

\* Only the stack changes.
LEMMA SetFramesInv ==
  ASSUME CallsInv, NEW sh \in Shell, InRm(sh), NEW frames \in Seq(AnyFrame), SetFrames(sh, frames),
         FramesAsked(frames, call[sh].args, call[sh].r),
         call[sh].frames # <<>>, Nested(frames, Length(call[sh]))
  PROVE  /\ call'[sh].func = "rm" /\ RmCallInv(call'[sh])
         /\ call'[sh] = [call[sh] EXCEPT !.frames = frames]
<1> DEFINE c == call[sh]
<1>1. RmCallInv(c) /\ c \in RmCall /\ call'[sh] = [c EXCEPT !.frames = frames]
  BY DEF CallsInv, RmCallInv, SetFrames
<1>2. /\ call'[sh] \in RmCall /\ call'[sh].func = "rm" /\ call'[sh].args = c.args
      /\ call'[sh].r = c.r /\ call'[sh].next = c.next /\ call'[sh].endflags = c.endflags
      /\ call'[sh].frames = frames
  <2> HIDE DEF c
  <2> QED BY <1>1 DEF RmCall
<1>3. Length(c) \in Nat /\ Length(call'[sh]) = Length(c)
  BY <1>1, <1>2 DEF RmCallInv, Length
<1> QED BY <1>1, <1>2, <1>3 DEF RmCallInv

\* What may be in the globresult of a recursive call
LEMMA GlobAsked ==
  ASSUME IsTree(tree), NEW args, Recursive(args), NEW p \in Paths, p # <<>>
  PROVE  LET todo == Glob(Append(p, "*")) IN
           /\ todo \in SUBSET (Paths \ {<<>>})
           /\ \A q \in todo : ~IsPlain(p) \/ ~Asked(p, args) \/ Asked(q, args)
           /\ \A q \in todo : Len(q) = Len(p) + 1
<1> DEFINE pattern == Append(p, "*")
<1>1. pattern \in Paths /\ pattern # <<>> /\ Len(pattern) = Len(p) + 1
  BY PatternByName
<1>2. \A q \in Glob(pattern) : q \in Paths /\ q # <<>> /\ Matches(q, pattern) /\ Len(q) = Len(p) + 1
  <2> HIDE DEF pattern
  <2> QED BY <1>1, GlobMatches DEF Matches
<1>3. ASSUME NEW q \in Glob(pattern), IsPlain(p), Asked(p, args) PROVE Asked(q, args)
  <2>1. q \in Paths /\ q # <<>> /\ Matches(q, pattern)
    BY <1>2, <1>3
  <2>2. Front(q) = p /\ Last(q) \notin Hidden
    BY <1>3, <2>1, PatternMatches
  <2> HIDE DEF pattern
  <2> QED BY <1>3, <2>1, <2>2, AskedBelow
<1> QED BY <1>2, <1>3

\* A path is handled: unlinked, left because it is a directory, or a
\* directory that is gone into.
LEMMA RmUnlinkInv ==
  ASSUME IsTree(tree), CallsInv, NEW sh \in Shell, NEW p \in Todo(sh), RmUnlink(sh, p)
  PROVE  call'[sh].func = "rm" /\ RmCallInv(call'[sh])
<1> DEFINE c == call[sh]
           frames == c.frames
           rest == Rest(frames, p)
           n == Len(frames)
           deeper == Append(rest, Frame(p, Glob(Append(p, "*"))))
<1>1. /\ InRm(sh) /\ RmCallInv(c) /\ c \in RmCall /\ frames # <<>> /\ p \in Last(frames).todo
      /\ c.r <=> Recursive(c.args)
      /\ FramesAsked(frames, c.args, c.r)
      /\ Length(c) \in Nat /\ Nested(frames, Length(c))
  BY DEF CallsInv, RmCallInv, Todo, Frames
<1>2. frames \in Seq(AnyFrame)
  <2> HIDE DEF c
  <2> QED BY <1>1 DEF RmCall
<1>3. \/ SetFrames(sh, rest)
      \/ c.r /\ SetFrames(sh, deeper)
  BY DEF RmUnlink, Rest, Frames
<1> HIDE DEF c, frames
<1>4. /\ rest \in Seq(AnyFrame) /\ Len(rest) = n /\ n \in Nat \ {0} /\ rest # <<>>
      /\ Last(frames) = frames[n]
      /\ \A f \in 1..n : rest[f].of = frames[f].of
  <2>1. /\ rest \in Seq(AnyFrame) /\ Len(rest) = n /\ n \in Nat \ {0}
        /\ Last(frames) = frames[n]
        /\ \A f \in 1..n : rest[f].of = frames[f].of
    BY <1>1, <1>2, RestByFrame
  <2> HIDE DEF rest, n
  <2> QED BY <2>1, EmptySeq
<1>5. FramesAsked(rest, c.args, c.r)
  BY <1>1, <1>2, RestAsked
<1>6. p \in Paths /\ p # <<>> /\ (Wild(frames, n) \/ Asked(p, c.args))
  <2>1. n \in 1..n /\ frames[n] \in AnyFrame
    BY <1>2, <1>4
  <2>2. p \in frames[n].todo
    BY <1>1, <1>4
  <2>3. p \in Paths /\ p # <<>>
    BY <2>1, <2>2 DEF AnyFrame
  <2> QED BY <1>1, <2>1, <2>2, <2>3 DEF FramesAsked
<1>7. Wild(rest, n) <=> Wild(frames, n)
  BY <1>4 DEF Wild
<1>10. Nested(rest, Length(c)) /\ Len(p) = Length(c) + n - 1 /\ p \notin rest[n].todo
  BY <1>1, <1>2, RestNested
<1> HIDE DEF rest, n
<1>8. CASE SetFrames(sh, rest)
  BY <1>1, <1>4, <1>5, <1>8, <1>10, SetFramesInv DEF c, frames
<1>9. CASE c.r /\ SetFrames(sh, deeper)
  <2> DEFINE todo == Glob(Append(p, "*"))
  <2>1. /\ todo \in SUBSET (Paths \ {<<>>})
        /\ \A q \in todo : ~IsPlain(p) \/ ~Asked(p, c.args) \/ Asked(q, c.args)
        /\ \A q \in todo : Len(q) = Len(p) + 1
    BY <1>1, <1>6, <1>9, GlobAsked
  <2> HIDE DEF todo
  <2>2. \A q \in todo : Wild(rest, n) \/ ~IsPlain(p) \/ Asked(q, c.args)
    BY <1>6, <1>7, <2>1
  <2>3. /\ Append(rest, Frame(p, todo)) \in Seq(AnyFrame)
        /\ FramesAsked(Append(rest, Frame(p, todo)), c.args, c.r)
    BY <1>4, <1>5, <1>6, <1>7, <1>9, <2>1, <2>2, PushAsked
  <2>4. SetFrames(sh, Append(rest, Frame(p, todo)))
    BY <1>9 DEF todo
  <2>5. Nested(Append(rest, Frame(p, todo)), Length(c))
    BY <1>1, <1>4, <1>6, <1>10, <2>1, PushNested
  <2> QED BY <1>1, <2>3, <2>4, <2>5, SetFramesInv DEF c, frames
<1> QED BY <1>3, <1>8, <1>9 DEF rest

\* rmPriv returns.
LEMMA RmReturnInv ==
  ASSUME CallsInv, NEW sh \in Shell, RmReturn(sh)
  PROVE  call'[sh].func = "rm" /\ RmCallInv(call'[sh])
<1> DEFINE c == call[sh]
<1>1. /\ InRm(sh) /\ c \in RmCall /\ c.frames # <<>> /\ FramesAsked(c.frames, c.args, c.r)
      /\ SetFrames(sh, Front(c.frames)) /\ Nested(c.frames, Length(c))
  BY DEF CallsInv, RmCallInv, RmReturn, Frames
<1>2. c.frames \in Seq(AnyFrame)
  <2> HIDE DEF c
  <2> QED BY <1>1 DEF RmCall
<1>3. /\ Front(c.frames) \in Seq(AnyFrame) /\ FramesAsked(Front(c.frames), c.args, c.r)
      /\ Nested(Front(c.frames), Length(c))
  <2> HIDE DEF c
  <2> QED BY <1>1, <1>2, PopAsked, PopNested
<1> QED BY <1>1, <1>3, SetFramesInv

\* The shell that makes a step of a function goes on with a call that is
\* right, or is done; the calls of the others are as they were.
LEMMA ShellStepInv ==
  ASSUME IsTree(tree), CallsInv, NEW sh \in Shell,
         \/ Goes(sh)
         \/ \E p, q \in Path : MkdirFunc(sh, p) \/ RmdirFunc(sh, p) \/ MvFunc(sh, p, q)
         \/ \E args \in Commands : RmFunc(sh, args)
  PROVE  CallsInv'
<1> DEFINE Fine == /\ DOMAIN call' = Shell
                   /\ \A o \in Shell \ {sh} : call'[o] = call[o]
                   /\ call'[sh].func = "rm" => RmCallInv(call'[sh])
<1> SUFFICES Fine
  BY DEF CallsInv, InRm
<1>1. CASE MvRename(sh) \/ RmDone(sh)
  <2>1. call' = [call EXCEPT ![sh] = Idle]
    BY <1>1 DEF MvRename, RmDone
  <2> QED BY <2>1 DEF CallsInv, Idle
<1>2. CASE RmNext(sh)
  <2>1. DOMAIN call' = Shell /\ \A o \in Shell \ {sh} : call'[o] = call[o]
    BY <1>2 DEF RmNext, CallsInv
  <2> QED BY <1>2, <2>1, RmNextInv
<1>3. CASE \E p \in Todo(sh) : RmUnlink(sh, p)
  <2>1. DOMAIN call' = Shell /\ \A o \in Shell \ {sh} : call'[o] = call[o]
    BY <1>3 DEF RmUnlink, SetFrames, CallsInv
  <2> QED BY <1>3, <2>1, RmUnlinkInv
<1>4. CASE RmReturn(sh)
  <2>1. DOMAIN call' = Shell /\ \A o \in Shell \ {sh} : call'[o] = call[o]
    BY <1>4 DEF RmReturn, SetFrames, CallsInv
  <2> QED BY <1>4, <2>1, RmReturnInv
<1>5. CASE \E args \in Commands : RmFunc(sh, args)
  <2>1. DOMAIN call' = Shell /\ \A o \in Shell \ {sh} : call'[o] = call[o]
    BY <1>5 DEF RmFunc, CallsInv
  <2> QED BY <1>5, <2>1, RmFuncInv
<1>6. CASE \E p, q \in Path : MkdirFunc(sh, p) \/ RmdirFunc(sh, p)
  <2>1. call' = call
    BY <1>6 DEF MkdirFunc, RmdirFunc
  <2> QED BY <2>1 DEF CallsInv, InRm
<1>7. CASE \E p, q \in Path : MvFunc(sh, p, q)
  <2>1. PICK p \in Path, q \in Path : MvFunc(sh, p, q)
    BY <1>7
  <2>2. /\ DOMAIN call' = Shell /\ \A o \in Shell \ {sh} : call'[o] = call[o]
        /\ call'[sh].func = "mv"
    BY <2>1 DEF MvFunc, CallsInv
  <2> QED BY <2>2
<1> QED BY <1>1, <1>2, <1>3, <1>4, <1>5, <1>6, <1>7 DEF Goes

\* What calls of rm know and have in hand stays right.
LEMMA StepKeepsCalls ==
  ASSUME IsTree(tree), CallsInv, Next
  PROVE  CallsInv'
<1>1. CASE \E p \in Path : OtherProcess(p)
  <2>1. call' = call
    BY <1>1 DEF OtherProcess
  <2> QED BY <2>1 DEF CallsInv, InRm
<1>2. CASE \E sh \in Shell : Goes(sh) \/ \E args \in Commands : RmFunc(sh, args)
  BY <1>2, ShellStepInv
<1>3. CASE \E sh \in Shell, p \in Path :
             MkdirFunc(sh, p) \/ RmdirFunc(sh, p) \/ \E q \in Path : MvFunc(sh, p, q)
  BY <1>3, ShellStepInv
<1> QED BY <1>1, <1>2, <1>3 DEF Next

\* The tree is one, and the calls of rm are right.
LEMMA DiscInvariant == Spec => []DiscInv
<1>1. Init => DiscInv
  <2> SUFFICES ASSUME Init PROVE DiscInv
    OBVIOUS
  <2>1. IsTree(tree)
    BY DiscAssumption DEF Init
  <2>2. DOMAIN call = Shell /\ \A sh \in Shell : ~InRm(sh)
    BY DEF Init, InRm, Idle
  <2> QED BY <2>1, <2>2 DEF DiscInv, CallsInv
<1>2. DiscInv /\ [Next]_vars => DiscInv'
  <2> SUFFICES ASSUME DiscInv, [Next]_vars PROVE DiscInv'
    OBVIOUS
  <2>1. CASE Next
    BY <2>1, StepKeepsTree, StepKeepsCalls DEF DiscInv, IsTree
  <2>2. CASE UNCHANGED vars
    BY <2>2 DEF DiscInv, CallsInv, InRm, vars
  <2> QED BY <2>1, <2>2
<1> QED BY <1>1, <1>2, PTL DEF Spec

\* A call of rm knows from the words before the one it is at whether options
\* have ended, and from all of them whether it goes into directories; the
\* directories it is in are nested one in the other, each taken out of the
\* globresult it is from and entered with a pattern of one name more.  That
\* holds for any command line, and whatever glob finds.
THEOREM TypeCorrect == Spec => []TypeOK
<1>1. ASSUME DiscInv PROVE TypeOK
  <2>1. tree \in [DOMAIN tree -> Kind] /\ DOMAIN tree \subseteq Path
    BY <1>1 DEF DiscInv, IsTree
  <2>2. DOMAIN call = Shell
    BY <1>1 DEF DiscInv, CallsInv
  <2>3. ASSUME NEW c, RmCallInv(c)
        PROVE  /\ c.args \in Commands /\ c.next \in 1..(Len(c.args) + 1)
               /\ c.r <=> Recursive(c.args)
               /\ c.endflags <=> \E j \in 1..(c.next - 1) : c.args[j].type = "--"
               /\ \A f \in 1..Len(c.frames) : c.frames[f].of # <<>> <=> f > 1
               /\ Len(c.frames) > 1 => c.r
               /\ Nested(c.frames, Len(c.args[c.next - 1].path))
    <3>1. /\ c.args \in Commands /\ c.frames \in Seq(AnyFrame) /\ FramesAsked(c.frames, c.args, c.r)
          /\ Len(c.frames) \in Nat
      BY <2>3 DEF RmCallInv, RmCall
    <3>2. \A f \in 1..Len(c.frames) : f = 1 \/ f \in 2..Len(c.frames)
      BY <3>1
    <3>3. \A f \in 1..Len(c.frames) : c.frames[f].of # <<>> <=> f > 1
      BY <3>1, <3>2 DEF FramesAsked
    <3>4. Len(c.frames) > 1 => c.r
      <4>1. Len(c.frames) > 1 => 2 \in 2..Len(c.frames)
        BY <3>1
      <4> QED BY <3>1, <4>1 DEF FramesAsked
    <3>5. Nested(c.frames, Len(c.args[c.next - 1].path))
      <4>1. CASE c.frames = <<>>
        BY <4>1, EmptySeq DEF Nested
      <4>2. CASE c.frames # <<>>
        BY <2>3, <4>2 DEF RmCallInv, Length
      <4> QED BY <4>1, <4>2
    <3> QED BY <2>3, <3>1, <3>3, <3>4, <3>5 DEF RmCallInv
  <2>4. \A sh \in Shell : InRm(sh) => RmCallInv(call[sh])
    BY <1>1 DEF DiscInv, CallsInv
  <2> QED BY <2>1, <2>2, <2>3, <2>4 DEF TypeOK
<1> QED BY <1>1, DiscInvariant, PTL

-----------------------------------------------------------------------------
(* What rm removes.                                                        *)

\* Without a path everything else is there.
LEMMA OnlyOneIsGone ==
  ASSUME IsTree(tree), NEW p, tree' = tree \/ tree' = Without(p),
         NEW q \in DOMAIN tree \ DOMAIN tree'
  PROVE  q = p
BY DEF Without

\* Only the shell itself makes its call go on.
LEMMA OnlyOwnSteps ==
  ASSUME CallsInv, Next, NEW sh \in Shell, InRm(sh), call'[sh] # call[sh]
  PROVE  RmNext(sh) \/ (\E p \in Todo(sh) : RmUnlink(sh, p)) \/ RmReturn(sh) \/ RmDone(sh)
<1>1. call[sh] # Idle /\ ~MvRename(sh)
  BY DEF InRm, Idle, MvRename
<1>2. ASSUME NEW o \in Shell, o # sh,
             \/ Goes(o)
             \/ \E p, q \in Path : MkdirFunc(o, p) \/ RmdirFunc(o, p) \/ MvFunc(o, p, q)
             \/ \E args \in Commands : RmFunc(o, args)
      PROVE  FALSE
  BY <1>2 DEF CallsInv, Goes, MvRename, RmNext, RmUnlink, RmReturn, RmDone, SetFrames,
              MkdirFunc, RmdirFunc, MvFunc, RmFunc
<1>3. ASSUME NEW p \in Path, OtherProcess(p)
      PROVE  FALSE
  BY <1>3 DEF OtherProcess
<1> QED BY <1>1, <1>2, <1>3 DEF Next, Goes

\* What a step of rm takes away it is asked for.
LEMMA RmRemovesAsked ==
  ASSUME DiscInv, Next, NEW sh \in Shell, InRm(sh), tree' # tree, call'[sh] # call[sh],
         NEW p \in DOMAIN tree \ DOMAIN tree'
  PROVE  \/ Meant(p, call[sh].args) /\ (tree[p] = "file" \/ Recursive(call[sh].args))
         \/ /\ Recursive(call[sh].args) /\ Last(p) \notin Hidden
            /\ \E n \in 1..(Len(p) - 1) : Meant(SubSeq(p, 1, n), call[sh].args)
         \/ \E f \in 1..Len(Frames(sh)) : ~IsPlain(Frames(sh)[f].of)
<1> DEFINE c == call[sh]
           frames == c.frames
           n == Len(frames)
<1>1. /\ IsTree(tree) /\ CallsInv /\ RmCallInv(c) /\ c \in RmCall /\ (c.r <=> Recursive(c.args))
      /\ FramesAsked(frames, c.args, c.r) /\ Frames(sh) = frames
  BY DEF DiscInv, CallsInv, RmCallInv, Frames
<1>2. frames \in Seq(AnyFrame) /\ n \in Nat
  <2> HIDE DEF c
  <2> QED BY <1>1 DEF RmCall
<1>7. frames # <<>> => /\ n \in 1..n /\ n - 1 \in Nat /\ Last(frames) = frames[n]
                        /\ (n # 1 => n \in 2..n)
  <2> SUFFICES ASSUME frames # <<>>
               PROVE  /\ n \in 1..n /\ n - 1 \in Nat /\ Last(frames) = frames[n]
                      /\ (n # 1 => n \in 2..n)
    OBVIOUS
  <2> HIDE DEF c, frames
  <2>1. Len(frames) \in Nat \ {0} /\ Last(frames) = frames[Len(frames)]
    BY <1>2, FrontAndLast
  <2> QED BY <2>1
<1>3. CASE RmNext(sh) \/ RmDone(sh)
  BY <1>3 DEF RmNext, RmDone
<1>4. ASSUME NEW q \in Todo(sh), RmUnlink(sh, q)
      PROVE  (Wild(frames, n) \/ Asked(p, c.args)) /\ tree[p] = "file"
  <2>1. ~IsDir(q) /\ tree' = Without(q)
    BY <1>4 DEF RmUnlink, Changes
  <2>2. p = q
    BY <1>1, <2>1, OnlyOneIsGone
  <2>3. tree[p] = "file"
    BY <1>1, <2>1, <2>2, InTree DEF IsDir, Exists, Kind
  <2>4. frames # <<>> /\ q \in Last(frames).todo
    BY DEF Todo, Frames
  <2> HIDE DEF c, frames
  <2>5. n \in 1..n /\ Last(frames) = frames[n]
    BY <1>7, <2>4
  <2> HIDE DEF n
  <2>6. \A f \in 1..n, t \in Paths : t \in frames[f].todo => Wild(frames, f) \/ Asked(t, c.args)
    BY <1>1 DEF FramesAsked, n
  <2>7. p \in Paths
    BY <1>1, InTree
  <2> QED BY <2>2, <2>3, <2>4, <2>5, <2>6, <2>7
<1>5. ASSUME RmReturn(sh)
      PROVE  (Wild(frames, n) \/ Asked(p, c.args)) /\ c.r
  <2> DEFINE of == Last(frames).of
  <2>1. frames # <<>> /\ of # <<>> /\ (tree' = tree \/ tree' = Without(of))
    BY <1>5 DEF RmReturn, Changes, Rmdir, Frames
  <2>2. p = of
    BY <1>1, <2>1, OnlyOneIsGone
  <2> HIDE DEF c, frames
  <2>3. n \in 1..n /\ Last(frames) = frames[n] /\ n - 1 \in Nat
    BY <1>7, <2>1
  <2>4. n # 1
    BY <1>1, <2>1, <2>3 DEF FramesAsked
  <2>5. n \in 2..Len(frames)
    BY <1>7, <2>1, <2>4
  <2>6. c.r /\ (Wild(frames, n - 1) \/ Asked(p, c.args))
    BY <1>1, <2>2, <2>3, <2>5 DEF FramesAsked
  <2>7. Wild(frames, n - 1) => Wild(frames, n)
    BY <2>3 DEF Wild
  <2> QED BY <2>6, <2>7
<1>6. CASE (Wild(frames, n) \/ Asked(p, c.args)) /\ (tree[p] = "file" \/ c.r)
  <2>1. CASE Wild(frames, n)
    BY <1>1, <2>1 DEF Wild
  <2>2. CASE Asked(p, c.args)
    BY <1>1, <1>6, <2>2 DEF Asked
  <2> QED BY <1>6, <2>1, <2>2
<1> QED BY <1>1, <1>3, <1>4, <1>5, <1>6, OnlyOwnSteps

\* rm removes what its arguments stand for and, with -r alone, directories
\* and what is below them and is not hidden, whatever other shells and
\* processes do between its system calls; but where the name of a directory
\* on the way has wildcards of its own, any file may be hit.
THEOREM RemovedCorrect == Spec => OnlyAskedRemoved
<1>1. DiscInv /\ [Next]_vars => [\A sh \in Shell : RemovesAsked(sh)]_vars
  BY RmRemovesAsked DEF RemovesAsked
<1> QED BY <1>1, DiscInvariant, PTL DEF Spec, OnlyAskedRemoved

-----------------------------------------------------------------------------
(* What rm leaves.                                                         *)

\* rm is done with the path: it is gone, or is a directory that rm does not
\* remove.
Dealt(t, before, r, p) ==
  p \in DOMAIN t => t[p] = "dir" /\ (r => Excused(p, before))

\* The frame has still to do with the path, or is just at it.
InHand(frames, f, p) ==
  \/ p \in frames[f].todo
  \/ f < Len(frames) /\ p = frames[f + 1].of

\* Some of what was there is left, and nothing else.
PartOf(t, before) == DOMAIN t \subseteq DOMAIN before /\ \A p \in DOMAIN t : t[p] = before[p]

\* What the words looked at stand for rm is done with, or has in hand.
WordsDealt(t, before, args, r, next, frames) ==
  \A k \in 1..(next - 1), p \in DOMAIN t :
    IsOperand(args, k) /\ Matches(p, args[k].path) =>
      Dealt(t, before, r, p) \/ (frames # <<>> /\ InHand(frames, 1, p))

\* So it is with what a directory without wildcards contains.
FramesDealt(t, before, r, frames) ==
  \A f \in 2..Len(frames) :
    /\ frames[f].of \in DOMAIN before /\ before[frames[f].of] = "dir"
    /\ IsPlain(frames[f].of) =>
         \A p \in DOMAIN t :
           Front(p) = frames[f].of /\ Last(p) \notin Hidden =>
             Dealt(t, before, r, p) \/ InHand(frames, f, p)

Left(t, before, args, r, next, frames) ==
  /\ PartOf(t, before)
  /\ WordsDealt(t, before, args, r, next, frames)
  /\ FramesDealt(t, before, r, frames)

\* What rm is done with it is done with for good.
LEMMA DealtForGood ==
  ASSUME NEW t, NEW t2, PartOf(t2, t), NEW before, NEW r, NEW p, Dealt(t, before, r, p)
  PROVE  Dealt(t2, before, r, p)
BY DEF PartOf, Dealt

\* If each frame keeps in hand what it is not done with, nothing is forgotten.
LEMMA LeftByFrame ==
  ASSUME NEW t, NEW t2, PartOf(t2, t), NEW before, NEW args, NEW r, NEW next, NEW frames, NEW new,
         Left(t, before, args, r, next, frames),
         \A p \in DOMAIN t : frames # <<>> /\ InHand(frames, 1, p) =>
           Dealt(t2, before, r, p) \/ (new # <<>> /\ InHand(new, 1, p)),
         \A f \in 2..Len(new) :
           \/ /\ f \in 2..Len(frames) /\ new[f].of = frames[f].of
              /\ \A p \in DOMAIN t : InHand(frames, f, p) =>
                   Dealt(t2, before, r, p) \/ InHand(new, f, p)
           \/ /\ new[f].of \in DOMAIN t /\ t[new[f].of] = "dir"
              /\ IsPlain(new[f].of) =>
                   \A p \in DOMAIN t :
                     Front(p) = new[f].of /\ Last(p) \notin Hidden => p \in new[f].todo
  PROVE  Left(t2, before, args, r, next, new)
<1>1. PartOf(t2, before) /\ DOMAIN t2 \subseteq DOMAIN t /\ DOMAIN t \subseteq DOMAIN before
      /\ \A p \in DOMAIN t : t[p] = before[p]
  BY DEF PartOf, Left
<1>2. \A p : Dealt(t, before, r, p) => Dealt(t2, before, r, p)
  BY DealtForGood
<1>3. WordsDealt(t2, before, args, r, next, new)
  BY <1>1, <1>2 DEF Left, WordsDealt
<1>4. ASSUME NEW f \in 2..Len(new)
      PROVE  /\ new[f].of \in DOMAIN before /\ before[new[f].of] = "dir"
             /\ IsPlain(new[f].of) =>
                  \A p \in DOMAIN t2 :
                    Front(p) = new[f].of /\ Last(p) \notin Hidden =>
                      Dealt(t2, before, r, p) \/ InHand(new, f, p)
  <2>1. CASE /\ f \in 2..Len(frames) /\ new[f].of = frames[f].of
             /\ \A p \in DOMAIN t : InHand(frames, f, p) =>
                  Dealt(t2, before, r, p) \/ InHand(new, f, p)
    BY <1>1, <1>2, <2>1 DEF Left, FramesDealt
  <2>2. CASE /\ new[f].of \in DOMAIN t /\ t[new[f].of] = "dir"
             /\ IsPlain(new[f].of) =>
                  \A p \in DOMAIN t :
                    Front(p) = new[f].of /\ Last(p) \notin Hidden => p \in new[f].todo
    BY <1>1, <2>2 DEF InHand
  <2> QED BY <2>1, <2>2
<1> QED BY <1>1, <1>3, <1>4 DEF Left, FramesDealt

\* A path has been handled.
LEMMA LeftRest ==
  ASSUME NEW t, NEW t2, PartOf(t2, t), NEW before, NEW args, NEW r, NEW next,
         NEW frames \in Seq(AnyFrame), frames # <<>>,
         Left(t, before, args, r, next, frames), NEW p, Dealt(t2, before, r, p)
  PROVE  Left(t2, before, args, r, next, Rest(frames, p))
<1> DEFINE new == Rest(frames, p)
           n == Len(frames)
<1>1. /\ new \in Seq(AnyFrame) /\ Len(new) = n /\ n \in Nat \ {0}
      /\ \A f \in 1..(n - 1) : new[f] = frames[f]
      /\ new[n].todo = frames[n].todo \ {p}
      /\ \A f \in 1..n : new[f].of = frames[f].of
  BY RestByFrame
<1> HIDE DEF new, n
<1>2. new # <<>> /\ 1 \in 1..n /\ Len(frames) = n
  BY <1>1, EmptySeq DEF n
<1>3. ASSUME NEW f \in 1..n, NEW q, InHand(frames, f, q), q # p
      PROVE  InHand(new, f, q)
  <2>1. CASE f = n
    BY <1>1, <1>2, <1>3, <2>1 DEF InHand
  <2>2. CASE f # n
    <3>1. f \in 1..(n - 1) /\ f + 1 \in 1..n
      BY <1>1, <2>2
    <3> QED BY <1>1, <1>2, <1>3, <3>1 DEF InHand
  <2> QED BY <2>1, <2>2
<1>4. \A f \in 2..n : f \in 1..n
  OBVIOUS
<1>5. \A f \in 1..n, q \in DOMAIN t :
        InHand(frames, f, q) => Dealt(t2, before, r, q) \/ InHand(new, f, q)
  BY <1>3
<1>6. \A f \in 2..Len(new) :
        /\ f \in 2..Len(frames) /\ new[f].of = frames[f].of
        /\ \A q \in DOMAIN t : InHand(frames, f, q) =>
             Dealt(t2, before, r, q) \/ InHand(new, f, q)
  BY <1>1, <1>2, <1>4, <1>5
<1> QED BY <1>2, <1>5, <1>6, LeftByFrame DEF new

\* A directory is gone into.
LEMMA LeftPush ==
  ASSUME NEW t, NEW before, NEW args, NEW r, NEW next,
         NEW frames \in Seq(AnyFrame), frames # <<>>,
         Left(t, before, args, r, next, frames),
         NEW p \in Paths, p \in DOMAIN t, t[p] = "dir", NEW todo \in SUBSET (Paths \ {<<>>}),
         IsPlain(p) => \A q \in DOMAIN t : Front(q) = p /\ Last(q) \notin Hidden => q \in todo
  PROVE  Left(t, before, args, r, next, Append(Rest(frames, p), Frame(p, todo)))
<1> DEFINE rest == Rest(frames, p)
           new == Append(rest, Frame(p, todo))
           n == Len(frames)
<1>1. /\ rest \in Seq(AnyFrame) /\ Len(rest) = n /\ n \in Nat \ {0}
      /\ \A f \in 1..(n - 1) : rest[f] = frames[f]
      /\ rest[n].todo = frames[n].todo \ {p}
      /\ \A f \in 1..n : rest[f].of = frames[f].of
  BY RestByFrame
<1>2. Frame(p, todo) \in AnyFrame /\ Frame(p, todo).of = p /\ Frame(p, todo).todo = todo
  BY DEF Frame, AnyFrame
<1> HIDE DEF rest
<1>3. /\ new # <<>> /\ Len(new) = n + 1
      /\ \A f \in 1..n : new[f] = rest[f]
      /\ new[n + 1].of = p /\ new[n + 1].todo = todo
  <2>1. /\ new # <<>> /\ Len(new) = Len(rest) + 1
        /\ \A f \in 1..Len(rest) : new[f] = rest[f]
        /\ new[Len(rest) + 1] = Frame(p, todo)
    BY <1>1, <1>2, AppendProperties
  <2> HIDE DEF new, n
  <2> QED BY <1>1, <1>2, <2>1
<1> HIDE DEF new, n
<1>4. 1 \in 1..n /\ Len(frames) = n
  BY <1>1 DEF n
<1>5. ASSUME NEW f \in 1..n, NEW q, InHand(frames, f, q)
      PROVE  InHand(new, f, q)
  <2>1. CASE f = n
    <3>1. q \in frames[n].todo /\ n < n + 1 /\ f \in 1..n
      BY <1>1, <1>4, <1>5, <2>1 DEF InHand
    <3>2. q = p \/ q \in new[n].todo
      BY <1>1, <1>3, <2>1, <3>1
    <3> QED BY <1>3, <2>1, <3>1, <3>2 DEF InHand
  <2>2. CASE f # n
    <3>1. f \in 1..(n - 1) /\ f + 1 \in 1..n /\ f < n + 1
      BY <1>1, <2>2
    <3> QED BY <1>1, <1>3, <1>4, <1>5, <3>1 DEF InHand
  <2> QED BY <2>1, <2>2
<1>6. ASSUME NEW f \in 2..Len(new)
      PROVE  \/ /\ f \in 2..Len(frames) /\ new[f].of = frames[f].of
                /\ \A q \in DOMAIN t : InHand(frames, f, q) =>
                     Dealt(t, before, r, q) \/ InHand(new, f, q)
             \/ /\ new[f].of \in DOMAIN t /\ t[new[f].of] = "dir"
                /\ IsPlain(new[f].of) =>
                     \A q \in DOMAIN t :
                       Front(q) = new[f].of /\ Last(q) \notin Hidden => q \in new[f].todo
  <2>1. CASE f = n + 1
    BY <1>3, <2>1
  <2>2. CASE f # n + 1
    <3>1. f \in 2..n /\ f \in 1..n
      BY <1>1, <1>3, <2>2
    <3> QED BY <1>1, <1>3, <1>4, <1>5, <3>1
  <2> QED BY <2>1, <2>2
<1>7. PartOf(t, t)
  BY DEF PartOf
<1>8. \A q \in DOMAIN t : frames # <<>> /\ InHand(frames, 1, q) =>
        Dealt(t, before, r, q) \/ (new # <<>> /\ InHand(new, 1, q))
  BY <1>3, <1>4, <1>5
<1>9. Left(t, before, args, r, next, new)
  BY <1>6, <1>7, <1>8, LeftByFrame
<1> QED BY <1>9 DEF new, rest

\* rmPriv has returned, and the directory is dealt with.
LEMMA LeftPop ==
  ASSUME NEW t, NEW t2, PartOf(t2, t), NEW before, NEW args, NEW r, NEW next,
         NEW frames \in Seq(AnyFrame), frames # <<>>,
         Left(t, before, args, r, next, frames), Last(frames).todo = {},
         Len(frames) > 1 => Dealt(t2, before, r, Last(frames).of)
  PROVE  Left(t2, before, args, r, next, Front(frames))
<1> DEFINE new == Front(frames)
           n == Len(frames)
<1>1. /\ new \in Seq(AnyFrame) /\ Len(new) = n - 1 /\ n \in Nat \ {0}
      /\ \A f \in 1..(n - 1) : new[f] = frames[f]
      /\ frames[n].todo = {} /\ (n > 1 => Dealt(t2, before, r, frames[n].of))
  BY FrontAndLast
<1> HIDE DEF new, n
<1>2. Len(frames) = n /\ (new = <<>> <=> n = 1)
  BY <1>1, EmptySeq DEF n
<1>3. ASSUME NEW f \in 1..(n - 1), NEW q, InHand(frames, f, q)
      PROVE  Dealt(t2, before, r, q) \/ InHand(new, f, q)
  <2>1. CASE f = n - 1
    <3>1. n > 1 /\ f + 1 = n
      BY <1>1, <2>1
    <3> QED BY <1>1, <1>2, <1>3, <3>1 DEF InHand
  <2>2. CASE f # n - 1
    <3>1. f + 1 \in 1..(n - 1) /\ f < n - 1
      BY <1>1, <2>2
    <3> QED BY <1>1, <1>2, <1>3, <3>1 DEF InHand
  <2> QED BY <2>1, <2>2
<1>4. ASSUME NEW q, InHand(frames, 1, q)
      PROVE  Dealt(t2, before, r, q) \/ (new # <<>> /\ InHand(new, 1, q))
  <2>1. CASE n = 1
    BY <1>1, <1>2, <1>4, <2>1 DEF InHand
  <2>2. CASE n # 1
    <3>1. 1 \in 1..(n - 1)
      BY <1>1, <2>2
    <3> QED BY <1>2, <1>3, <1>4, <2>2, <3>1
  <2> QED BY <2>1, <2>2
<1>5. \A f \in 2..Len(new) : f \in 2..n /\ f \in 1..(n - 1)
  BY <1>1
<1>6. \A f \in 2..Len(new) :
        /\ f \in 2..Len(frames) /\ new[f].of = frames[f].of
        /\ \A q \in DOMAIN t : InHand(frames, f, q) =>
             Dealt(t2, before, r, q) \/ InHand(new, f, q)
  BY <1>1, <1>2, <1>3, <1>5
<1> QED BY <1>4, <1>6, LeftByFrame DEF new

\* Where there is something below a directory there is something in it.
LEMMA SomethingInIt ==
  ASSUME IsTree(tree), NEW p \in Paths, Below(p) # {}
  PROVE  \E q \in DOMAIN tree : q \in Paths /\ q # <<>> /\ Front(q) = p
<1>1. PICK b \in DOMAIN tree : IsStrictPrefix(p, b)
  BY DEF Below
<1> DEFINE n == Len(p) + 1
           q == SubSeq(b, 1, n)
<1>2. /\ b \in Paths /\ Len(p) \in Nat /\ Len(b) \in Nat /\ Len(p) <= Len(b)
      /\ \A k \in 1..Len(p) : p[k] = b[k]
  <2>1. b \in Paths /\ IsPrefix(p, b) /\ Len(p) \in Nat /\ Len(b) \in Nat
    BY <1>1, InTree DEF IsStrictPrefix, Paths
  <2> QED BY <2>1, PrefixByName
<1>3. n \in 0..Len(b)
  <2>1. Len(p) # Len(b)
    BY <1>1, <1>2, SamePath DEF IsStrictPrefix
  <2> QED BY <1>2, <2>1
<1>4. q \in Paths /\ Len(q) = n /\ \A k \in 1..n : q[k] = b[k]
  <2> HIDE DEF n
  <2> QED BY <1>2, <1>3, FirstElements DEF Paths
<1> HIDE DEF q
<1>5. q # <<>> /\ Len(q) <= Len(b) /\ n - 1 = Len(p) /\ \A k \in 1..Len(p) : k \in 1..n
  <2>1. Len(q) # 0
    BY <1>2, <1>4
  <2> QED BY <1>2, <1>3, <1>4, <2>1, EmptySeq
<1>6. IsPrefix(q, b)
  BY <1>2, <1>4, <1>5, PrefixByName
<1>7. q \in DOMAIN tree
  BY <1>4, <1>5, <1>6, AllAbove
<1>8. Front(q) \in Paths /\ Len(Front(q)) = Len(p) /\ \A k \in 1..Len(p) : Front(q)[k] = q[k]
  <2>1. Front(q) \in Paths /\ Len(Front(q)) = Len(q) - 1 /\ \A k \in 1..(Len(q) - 1) : Front(q)[k] = q[k]
    BY <1>4, <1>5, DirectoryAndName
  <2>2. Len(q) - 1 = Len(p)
    BY <1>4, <1>5
  <2> QED BY <2>1, <2>2
<1>9. Front(q) = p
  BY <1>2, <1>4, <1>5, <1>8, SamePath
<1> QED BY <1>4, <1>5, <1>7, <1>9

\* What excuses something in a directory excuses the directory.
LEMMA ExcusedAbove ==
  ASSUME NEW before, IsTree(before), NEW p \in Paths, NEW q \in DOMAIN before, Front(q) = p,
         Last(q) \in Hidden \/ Excused(q, before)
  PROVE  Excused(p, before)
<1>1. \A e \in DOMAIN before : e \in Paths /\ e # <<>>
  BY PathsAreSequences DEF IsTree
<1>2. IsStrictPrefix(p, q) /\ Len(q) = Len(p) + 1 /\ Len(p) \in Nat
      /\ \A k \in 1..Len(p) : p[k] = q[k]
  <2>1. IsStrictPrefix(p, q) /\ Len(q) = Len(p) + 1 /\ Len(p) \in Nat
    BY <1>1, InDirectory DEF Paths
  <2> QED BY <1>1, <2>1, PrefixByName DEF IsStrictPrefix
<1>3. CASE Last(q) \in Hidden
  BY <1>2, <1>3 DEF Excused, IsStrictPrefix
<1>4. ASSUME Excused(q, before)
      PROVE  Excused(p, before)
  <2>1. PICK e \in DOMAIN before : IsPrefix(q, e) /\ (~IsPlain(e) \/ (e # q /\ Last(e) \in Hidden))
    BY <1>4 DEF Excused
  <2>2. Len(q) <= Len(e) /\ (\A k \in 1..Len(q) : q[k] = e[k]) /\ Len(e) \in Nat
    <3>1. e \in Paths /\ q \in Paths
      BY <1>1
    <3>2. Len(e) \in Nat
      BY <3>1 DEF Paths
    <3> QED BY <2>1, <3>1, <3>2, PrefixByName
  <2>3. Len(p) <= Len(e) /\ (\A k \in 1..Len(p) : p[k] = e[k]) /\ Len(p) # Len(e)
    BY <1>2, <2>2
  <2>4. IsPrefix(p, e) /\ e # p
    BY <1>1, <2>3, PrefixByName
  <2> QED BY <2>1, <2>4 DEF Excused
<1> QED BY <1>3, <1>4

\* When rmPriv has been through a directory, rmdir removes it or it has to
\* stay.
LEMMA ReturnDealt ==
  ASSUME IsTree(tree), NEW before, IsTree(before), NEW args, NEW r, NEW next,
         NEW frames \in Seq(AnyFrame), Len(frames) > 1, Last(frames).todo = {},
         Left(tree, before, args, r, next, frames)
  PROVE  Dealt(Rmdir(Last(frames).of), before, r, Last(frames).of)
<1> DEFINE n == Len(frames)
           of == Last(frames).of
<1>1. n \in 2..Len(frames) /\ frames # <<>>
  <2>1. Len(frames) \in Nat
    OBVIOUS
  <2> QED BY <2>1, EmptySeq
<1>2. Last(frames) = frames[n] /\ Last(frames) \in AnyFrame
  BY <1>1, FrontAndLast
<1>3. of = frames[n].of /\ of \in Paths /\ frames[n].todo = {}
  BY <1>2 DEF AnyFrame
<1> HIDE DEF of
<1>4. /\ of \in DOMAIN before /\ before[of] = "dir"
      /\ \A p \in DOMAIN tree : p \in DOMAIN before /\ tree[p] = before[p]
      /\ IsPlain(of) => \A p \in DOMAIN tree :
                          Front(p) = of /\ Last(p) \notin Hidden => Dealt(tree, before, r, p)
  BY <1>1, <1>3 DEF Left, FramesDealt, PartOf, InHand
<1>5. ASSUME of \in DOMAIN Rmdir(of)
      PROVE  Rmdir(of)[of] = "dir" /\ (r => Excused(of, before))
  <2>1. Rmdir(of) = tree
    BY <1>5 DEF Rmdir, Without
  <2>2. of \in DOMAIN tree /\ tree[of] = "dir"
    BY <1>4, <1>5, <2>1
  <2>3. Below(of) # {}
    <3> SUFFICES ASSUME Below(of) = {} PROVE FALSE
      OBVIOUS
    <3>1. Rmdir(of) = Without(of)
      BY <2>2 DEF Rmdir, IsDir, Exists
    <3> QED BY <1>5, <3>1 DEF Without
  <2>4. CASE ~IsPlain(of)
    <3>1. IsPrefix(of, of)
      BY <1>3, MovedSelf
    <3> QED BY <1>4, <2>1, <2>2, <2>4, <3>1 DEF Excused
  <2>5. CASE IsPlain(of)
    <3>1. PICK p \in DOMAIN tree : p \in Paths /\ p # <<>> /\ Front(p) = of
      BY <1>3, <2>3, SomethingInIt
    <3>2. r => Last(p) \in Hidden \/ Excused(p, before)
      BY <1>4, <2>5, <3>1 DEF Dealt
    <3>3. p \in DOMAIN before
      BY <1>4
    <3>4. r => Excused(of, before)
      BY <1>3, <3>1, <3>2, <3>3, ExcusedAbove
    <3> QED BY <2>1, <2>2, <3>4
  <2> QED BY <2>4, <2>5
<1> QED BY <1>5 DEF Dealt, of

\* Of a call of rm that nothing has disturbed, only what is still in hand and
\* what has to stay is left of all that it has been through.
ShellLeft(t, c, before) ==
  \A b \in before : c.func = "rm" /\ IsTree(b) /\ Left(t, b, c.args, c.r, c.next, c.frames)

LeftInv ==
  /\ DOMAIN began = Shell
  /\ \A sh \in Shell : ShellLeft(tree, call[sh], began[sh])

\* What is taken away leaves a part.
LEMMA LessIsPart ==
  ASSUME NEW p
  PROVE  PartOf(tree, tree) /\ PartOf(Without(p), tree) /\ PartOf(Rmdir(p), tree)
BY DEF PartOf, Without, Rmdir

\* A new stack, and nothing else
LEMMA SetFramesFields ==
  ASSUME CallsInv, NEW sh \in Shell, InRm(sh), NEW frames, SetFrames(sh, frames)
  PROVE  /\ call'[sh].func = "rm" /\ call'[sh].args = call[sh].args /\ call'[sh].r = call[sh].r
         /\ call'[sh].next = call[sh].next /\ call'[sh].frames = frames
<1> DEFINE c == call[sh]
<1>1. c \in RmCall /\ call'[sh] = [c EXCEPT !.frames = frames]
  BY DEF CallsInv, RmCallInv, SetFrames
<1> HIDE DEF c
<1>2. /\ call'[sh].func = "rm" /\ call'[sh].args = c.args /\ call'[sh].r = c.r
      /\ call'[sh].next = c.next /\ call'[sh].frames = frames
  BY <1>1 DEF RmCall
<1> QED BY <1>2 DEF c

\* The files that a word stands for are in hand.
LEMMA RmNextLeft ==
  ASSUME DiscInv, LeftInv, NEW sh \in Shell, RmNext(sh)
  PROVE  ShellLeft(tree', call'[sh], began'[sh])
<1> DEFINE c == call[sh]
           word == c.args[c.next]
           skips == ~c.endflags /\ word.type # "file"
           first == <<Frame(<<>>, Glob(word.path))>>
           new == IF skips THEN <<>> ELSE first
<1>1. IsTree(tree) /\ CallsInv
  BY DEF DiscInv
<1>2. tree' = tree /\ began' = began /\ c.frames = <<>>
  BY DEF RmNext, Frames
<1>3. /\ call'[sh].func = "rm" /\ call'[sh].args = c.args /\ call'[sh].r = c.r
      /\ call'[sh].next = c.next + 1 /\ call'[sh].frames = new /\ c.next \in 1..Len(c.args)
  BY <1>1, RmNextInv
<1>4. c.endflags <=> \E j \in 1..(c.next - 1) : c.args[j].type = "--"
  BY <1>1 DEF CallsInv, RmCallInv, RmNext
<1>5. IsOperand(c.args, c.next) => ~skips
  BY <1>4 DEF IsOperand
<1>6. first # <<>> /\ Len(first) = 1 /\ first[1].todo = Glob(word.path)
  BY DEF Frame
<1>7. word.path \in Paths /\ c.next \in Nat
  <2>1. c.args \in Commands /\ Len(c.args) \in Nat
    BY <1>1, CommandWords DEF CallsInv, RmCallInv, RmCall, RmNext
  <2> HIDE DEF c
  <2> QED BY <1>3, <2>1, CommandWords
<1> HIDE DEF first
<1>8. Len(new) = 0 \/ Len(new) = 1
  <2>1. new = <<>> \/ new = first
    OBVIOUS
  <2> HIDE DEF new
  <2> QED BY <1>6, <2>1, EmptySeq
<1>9. ASSUME NEW b \in began[sh]
      PROVE  Left(tree, b, c.args, c.r, c.next + 1, new)
  <2>1. Left(tree, b, c.args, c.r, c.next, <<>>)
    BY <1>2 DEF LeftInv, ShellLeft
  <2>2. ASSUME NEW k \in 1..c.next, NEW p \in DOMAIN tree,
               IsOperand(c.args, k), Matches(p, c.args[k].path)
        PROVE  Dealt(tree, b, c.r, p) \/ (new # <<>> /\ InHand(new, 1, p))
    <3>1. CASE k = c.next
      <4>1. new = first
        BY <1>5, <2>2, <3>1
      <4>2. p \in Glob(word.path)
        <5> HIDE DEF c
        <5> QED BY <1>1, <1>7, <2>2, <3>1, GlobFinds
      <4> QED BY <1>6, <4>1, <4>2 DEF InHand
    <3>2. CASE k # c.next
      <4>1. k \in 1..(c.next - 1)
        <5> HIDE DEF c
        <5> QED BY <1>7, <3>2
      <4> QED BY <2>1, <2>2, <4>1 DEF Left, WordsDealt
    <3> QED BY <3>1, <3>2
  <2>3. FramesDealt(tree, b, c.r, new)
    <3> HIDE DEF new
    <3> DEFINE n == Len(new)
    <3>1. n = 0 \/ n = 1
      BY <1>8
    <3> HIDE DEF n
    <3>2. \A f \in 2..n : FALSE
      BY <3>1
    <3>3. \A f \in 2..Len(new) : FALSE
      BY <3>2 DEF n
    <3> QED BY <3>3 DEF FramesDealt
  <2>4. WordsDealt(tree, b, c.args, c.r, c.next + 1, new)
    <3> DEFINE next == c.next
    <3>1. \A k \in 1..next, p \in DOMAIN tree :
            IsOperand(c.args, k) /\ Matches(p, c.args[k].path) =>
              Dealt(tree, b, c.r, p) \/ (new # <<>> /\ InHand(new, 1, p))
      BY <2>2
    <3>2. next \in Nat
      BY <1>7
    <3> DEFINE after == next + 1
    <3> HIDE DEF new, c, next
    <3>3. after - 1 = next
      BY <3>2
    <3> HIDE DEF after
    <3>4. WordsDealt(tree, b, c.args, c.r, after, new)
      BY <3>1, <3>3 DEF WordsDealt
    <3> QED BY <3>4 DEF after, next
  <2> HIDE DEF new, c
  <2> QED BY <2>1, <2>3, <2>4 DEF Left
<1>10. \A b \in began[sh] : IsTree(b)
  BY DEF LeftInv, ShellLeft
<1> QED BY <1>2, <1>3, <1>9, <1>10 DEF ShellLeft

\* A file is unlinked, a directory left or gone into.
LEMMA RmUnlinkLeft ==
  ASSUME DiscInv, LeftInv, NEW sh \in Shell, NEW p \in Todo(sh), RmUnlink(sh, p)
  PROVE  ShellLeft(tree', call'[sh], began'[sh])
<1> DEFINE c == call[sh]
           frames == c.frames
           todo == Glob(Append(p, "*"))
<1>1. IsTree(tree) /\ CallsInv
  BY DEF DiscInv
<1>2. /\ InRm(sh) /\ c \in RmCall /\ frames # <<>> /\ p \in Last(frames).todo
      /\ c.r <=> Recursive(c.args)
  BY <1>1 DEF CallsInv, RmCallInv, Todo, Frames
<1>3. frames \in Seq(AnyFrame)
  <2> HIDE DEF c
  <2> QED BY <1>2 DEF RmCall
<1>4. p \in Paths /\ p # <<>>
  <2> HIDE DEF c, frames
  <2>1. Last(frames) \in AnyFrame
    BY <1>2, <1>3, FrontAndLast
  <2> QED BY <1>2, <2>1 DEF AnyFrame
<1>5. began[sh] # {} => \A b \in began[sh] : IsTree(b) /\ Left(tree, b, c.args, c.r, c.next, frames)
  BY DEF LeftInv, ShellLeft
<1>6. \/ ~IsDir(p) /\ SetFrames(sh, Rest(frames, p)) /\ tree' = Without(p) /\ began'[sh] \subseteq began[sh]
      \/ IsDir(p) /\ ~c.r /\ SetFrames(sh, Rest(frames, p)) /\ tree' = tree /\ began'[sh] \subseteq began[sh]
      \/ /\ IsDir(p) /\ c.r /\ SetFrames(sh, Append(Rest(frames, p), Frame(p, todo)))
         /\ tree' = tree /\ began'[sh] \subseteq began[sh]
      \/ began'[sh] = {}
  <2>1. \A new : Changes(sh, new) => tree' = new /\ began'[sh] = began[sh]
    BY DEF Changes
  <2>2. began' = [began EXCEPT ![sh] = {}] /\ sh \in DOMAIN began => began'[sh] = {}
    OBVIOUS
  <2> QED BY <2>1, <2>2 DEF RmUnlink, Rest, Frames, LeftInv
<1>7. IsDir(p) => p \in DOMAIN tree /\ tree[p] = "dir"
  BY <1>4 DEF IsDir, Exists
<1>8. PartOf(tree, tree) /\ PartOf(Without(p), tree)
  BY LessIsPart
<1>9. ASSUME SetFrames(sh, Rest(frames, p)), began'[sh] \subseteq began[sh], PartOf(tree', tree),
             \A b \in began[sh] : Dealt(tree', b, c.r, p)
      PROVE  ShellLeft(tree', call'[sh], began'[sh])
  <2>1. /\ call'[sh].func = "rm" /\ call'[sh].args = c.args /\ call'[sh].r = c.r
        /\ call'[sh].next = c.next /\ call'[sh].frames = Rest(frames, p)
    BY <1>1, <1>2, <1>9, SetFramesFields
  <2> HIDE DEF c, frames
  <2>2. \A b \in began[sh] : Left(tree', b, c.args, c.r, c.next, Rest(frames, p))
    BY <1>2, <1>3, <1>5, <1>9, LeftRest
  <2> QED BY <1>5, <1>9, <2>1, <2>2 DEF ShellLeft
<1>10. CASE ~IsDir(p) /\ SetFrames(sh, Rest(frames, p)) /\ tree' = Without(p)
            /\ began'[sh] \subseteq began[sh]
  <2>1. \A b \in began[sh] : Dealt(tree', b, c.r, p)
    BY <1>10 DEF Dealt, Without
  <2> QED BY <1>8, <1>9, <1>10, <2>1
<1>11. CASE IsDir(p) /\ ~c.r /\ SetFrames(sh, Rest(frames, p)) /\ tree' = tree
            /\ began'[sh] \subseteq began[sh]
  <2>1. \A b \in began[sh] : Dealt(tree', b, c.r, p)
    BY <1>7, <1>11 DEF Dealt
  <2> QED BY <1>8, <1>9, <1>11, <2>1
<1>12. CASE /\ IsDir(p) /\ c.r /\ SetFrames(sh, Append(Rest(frames, p), Frame(p, todo)))
            /\ tree' = tree /\ began'[sh] \subseteq began[sh]
  <2> DEFINE new == Append(Rest(frames, p), Frame(p, todo))
  <2>1. /\ call'[sh].func = "rm" /\ call'[sh].args = c.args /\ call'[sh].r = c.r
        /\ call'[sh].next = c.next /\ call'[sh].frames = new
    BY <1>1, <1>2, <1>12, SetFramesFields
  <2>2. todo \in SUBSET (Paths \ {<<>>})
    BY <1>1, <1>2, <1>4, <1>12, GlobAsked
  <2>3. ASSUME IsPlain(p), NEW q \in DOMAIN tree, Front(q) = p, Last(q) \notin Hidden
        PROVE  q \in todo
    <3>1. q \in Paths /\ q # <<>> /\ q \in Path
      BY <1>1, InTree
    <3>2. Last(q) \in Names
      BY <3>1 DEF Names
    <3>3. Matches(q, Append(p, "*"))
      BY <1>4, <2>3, <3>1, <3>2, PatternMatches
    <3>4. Append(p, "*") \in Paths
      BY <1>4, PatternByName
    <3> QED BY <1>1, <3>3, <3>4, GlobFinds
  <2>4. IsPlain(p) => \A q \in DOMAIN tree : Front(q) = p /\ Last(q) \notin Hidden => q \in todo
    BY <2>3
  <2> HIDE DEF c, frames, todo
  <2>5. \A b \in began[sh] : Left(tree, b, c.args, c.r, c.next, new)
    BY <1>2, <1>3, <1>4, <1>5, <1>7, <1>12, <2>2, <2>4, LeftPush
  <2> HIDE DEF new
  <2> QED BY <1>5, <1>12, <2>1, <2>5 DEF ShellLeft
<1>13. CASE began'[sh] = {}
  BY <1>13 DEF ShellLeft
<1> QED BY <1>6, <1>10, <1>11, <1>12, <1>13

\* A directory that has been gone through is removed, or has to stay.
LEMMA RmReturnLeft ==
  ASSUME DiscInv, LeftInv, NEW sh \in Shell, RmReturn(sh)
  PROVE  ShellLeft(tree', call'[sh], began'[sh])
<1> DEFINE c == call[sh]
           frames == c.frames
           of == Last(frames).of
<1>1. IsTree(tree) /\ CallsInv
  BY DEF DiscInv
<1>2. /\ InRm(sh) /\ c \in RmCall /\ frames # <<>> /\ Last(frames).todo = {}
      /\ FramesAsked(frames, c.args, c.r)
      /\ SetFrames(sh, Front(frames))
  BY <1>1 DEF CallsInv, RmCallInv, RmReturn, Frames, Changes
<1>3. frames \in Seq(AnyFrame)
  <2> HIDE DEF c
  <2> QED BY <1>2 DEF RmCall
<1>4. \A b \in began[sh] : IsTree(b) /\ Left(tree, b, c.args, c.r, c.next, frames)
  BY DEF LeftInv, ShellLeft
<1>5. /\ call'[sh].func = "rm" /\ call'[sh].args = c.args /\ call'[sh].r = c.r
      /\ call'[sh].next = c.next /\ call'[sh].frames = Front(frames)
  BY <1>1, <1>2, SetFramesFields
<1> HIDE DEF c, frames
<1>10. CASE began'[sh] = {}
  BY <1>10 DEF ShellLeft
<1>11. CASE began'[sh] # {}
  <2>1. began'[sh] = began[sh] /\ tree' = IF of = <<>> THEN tree ELSE Rmdir(of)
    BY <1>11 DEF RmReturn, Changes, Frames, LeftInv, c, frames
  <2>2. PartOf(tree', tree)
    BY <2>1, LessIsPart
  <2>3. Len(frames) > 1 => of # <<>>
    <3> SUFFICES ASSUME Len(frames) > 1 PROVE of # <<>>
      OBVIOUS
    <3>1. Last(frames) = frames[Len(frames)] /\ Len(frames) \in 2..Len(frames)
      BY <1>2, <1>3, FrontAndLast
    <3> QED BY <1>2, <3>1 DEF FramesAsked
  <2>4. \A b \in began[sh] : Len(frames) > 1 => Dealt(tree', b, c.r, of)
    BY <1>1, <1>2, <1>3, <1>4, <2>1, <2>3, ReturnDealt
  <2>5. \A b \in began[sh] : Left(tree', b, c.args, c.r, c.next, Front(frames))
    BY <1>2, <1>3, <1>4, <2>2, <2>4, LeftPop
  <2> QED BY <1>4, <1>5, <2>1, <2>5 DEF ShellLeft
<1> QED BY <1>10, <1>11

\* A call that begins has been through nothing.
LEMMA RmFuncLeft ==
  ASSUME DiscInv, LeftInv, NEW sh \in Shell, NEW args \in Commands, RmFunc(sh, args)
  PROVE  ShellLeft(tree', call'[sh], began'[sh])
<1>1. /\ call'[sh].func = "rm" /\ call'[sh].next = 1 /\ call'[sh].frames = <<>>
      /\ tree' = tree /\ began'[sh] = {tree} /\ IsTree(tree)
  BY DEF RmFunc, DiscInv, CallsInv, LeftInv
<1>2. Left(tree, tree, call'[sh].args, call'[sh].r, 1, <<>>)
  <2>1. PartOf(tree, tree)
    BY LessIsPart
  <2>2. Len(<<>>) = 0 /\ \A k \in 1..(1 - 1) : FALSE
    BY EmptySeq
  <2>3. FramesDealt(tree, tree, call'[sh].r, <<>>)
    <3>1. \A f \in 2..Len(<<>>) : FALSE
      BY <2>2
    <3> QED BY <3>1 DEF FramesDealt
  <2>4. WordsDealt(tree, tree, call'[sh].args, call'[sh].r, 1, <<>>)
    BY <2>2 DEF WordsDealt
  <2> QED BY <2>1, <2>3, <2>4 DEF Left
<1> QED BY <1>1, <1>2 DEF ShellLeft

\* A step of a shell leaves the calls of the others alone, and if it changes
\* the tree they are no longer undisturbed.
Alone(sh) ==
  /\ DOMAIN began' = Shell
  /\ \A o \in Shell \ {sh} :
       call'[o] = call[o] /\ (began'[o] = {} \/ (began'[o] = began[o] /\ tree' = tree))

\* The same without a call of rm
LEMMA NoRmLeft ==
  ASSUME DiscInv, LeftInv, NEW sh \in Shell, ~InRm(sh), began'[sh] = began[sh]
  PROVE  ShellLeft(tree', call'[sh], began'[sh])
<1>1. began[sh] = {}
  BY DEF LeftInv, ShellLeft, InRm
<1> QED BY <1>1 DEF ShellLeft

\* What changes the tree changes began.
LEMMA ChangesAlone ==
  ASSUME NEW sh \in Shell, NEW new, Changes(sh, new)
  PROVE  /\ DOMAIN began' = Shell /\ began'[sh] = began[sh]
         /\ \A o \in Shell \ {sh} : began'[o] = {} \/ (began'[o] = began[o] /\ tree' = tree)
BY DEF Changes

\* One step of a shell
LEMMA ShellStepLeft ==
  ASSUME DiscInv, LeftInv, NEW sh \in Shell,
         \/ Goes(sh)
         \/ /\ call[sh] = Idle
            /\ \/ \E p, q \in Path : MkdirFunc(sh, p) \/ RmdirFunc(sh, p) \/ MvFunc(sh, p, q)
               \/ \E args \in Commands : RmFunc(sh, args)
  PROVE  Alone(sh) /\ ShellLeft(tree', call'[sh], began'[sh])
<1>1. DOMAIN call = Shell /\ DOMAIN began = Shell
  BY DEF DiscInv, CallsInv, LeftInv
<1>2. CASE MvRename(sh)
  <2>1. ~InRm(sh) /\ (\E new : Changes(sh, new)) /\ \A o \in Shell \ {sh} : call'[o] = call[o]
    BY <1>1, <1>2 DEF MvRename, InRm
  <2> QED BY <2>1, ChangesAlone, NoRmLeft DEF Alone
<1>3. CASE RmNext(sh)
  <2>1. Alone(sh)
    BY <1>1, <1>3 DEF RmNext, Alone
  <2> QED BY <1>3, <2>1, RmNextLeft
<1>4. ASSUME NEW p \in Todo(sh), RmUnlink(sh, p)
      PROVE  Alone(sh) /\ ShellLeft(tree', call'[sh], began'[sh])
  <2>1. \A o \in Shell \ {sh} : call'[o] = call[o]
    BY <1>1, <1>4 DEF RmUnlink, SetFrames
  <2>2. \/ \E new : Changes(sh, new)
        \/ began' = [began EXCEPT ![sh] = {}] /\ tree' = tree
    BY <1>4 DEF RmUnlink
  <2>3. Alone(sh)
    BY <1>1, <2>1, <2>2, ChangesAlone DEF Alone
  <2> QED BY <1>4, <2>3, RmUnlinkLeft
<1>5. CASE RmReturn(sh)
  <2>1. \A o \in Shell \ {sh} : call'[o] = call[o]
    BY <1>1, <1>5 DEF RmReturn, SetFrames
  <2>2. \/ \E new : Changes(sh, new)
        \/ began' = [began EXCEPT ![sh] = {}] /\ tree' = tree
    BY <1>5 DEF RmReturn
  <2>3. Alone(sh)
    BY <1>1, <2>1, <2>2, ChangesAlone DEF Alone
  <2> QED BY <1>5, <2>3, RmReturnLeft
<1>6. CASE RmDone(sh)
  <2>1. Alone(sh) /\ began'[sh] = {}
    BY <1>1, <1>6 DEF RmDone, Alone
  <2> QED BY <2>1 DEF ShellLeft
<1>7. ASSUME NEW args \in Commands, RmFunc(sh, args)
      PROVE  Alone(sh) /\ ShellLeft(tree', call'[sh], began'[sh])
  <2>1. Alone(sh)
    BY <1>1, <1>7 DEF RmFunc, Alone
  <2> QED BY <1>7, <2>1, RmFuncLeft
<1>8. ASSUME call[sh] = Idle, NEW p \in Path, NEW q \in Path,
             MkdirFunc(sh, p) \/ RmdirFunc(sh, p) \/ MvFunc(sh, p, q)
      PROVE  Alone(sh) /\ ShellLeft(tree', call'[sh], began'[sh])
  <2>1. ~InRm(sh)
    BY <1>8 DEF InRm, Idle
  <2>2. CASE MvFunc(sh, p, q)
    <3>1. Alone(sh) /\ began'[sh] = began[sh]
      BY <1>1, <2>2 DEF MvFunc, Alone
    <3> QED BY <2>1, <3>1, NoRmLeft
  <2>3. CASE MkdirFunc(sh, p) \/ RmdirFunc(sh, p)
    <3>1. (\E new : Changes(sh, new)) /\ call' = call
      BY <2>3 DEF MkdirFunc, RmdirFunc
    <3> QED BY <2>1, <3>1, ChangesAlone, NoRmLeft DEF Alone
  <2> QED BY <1>8, <2>2, <2>3
<1> QED BY <1>2, <1>3, <1>4, <1>5, <1>6, <1>7, <1>8 DEF Goes

\* What undisturbed calls of rm leave, at every step of anyone
LEMMA StepKeepsLeft ==
  ASSUME DiscInv, LeftInv, Next
  PROVE  LeftInv'
<1>1. CASE \E p \in Path : OtherProcess(p)
  <2>1. began' = [sh \in Shell |-> {}]
    BY <1>1 DEF OtherProcess
  <2> QED BY <2>1 DEF LeftInv, ShellLeft
<1>2. ASSUME NEW sh \in Shell, Alone(sh), ShellLeft(tree', call'[sh], began'[sh])
      PROVE  LeftInv'
  <2>1. ASSUME NEW o \in Shell \ {sh} PROVE ShellLeft(tree', call'[o], began'[o])
    <3>1. ShellLeft(tree, call[o], began[o])
      BY DEF LeftInv
    <3>2. call'[o] = call[o] /\ (began'[o] = {} \/ (began'[o] = began[o] /\ tree' = tree))
      BY <1>2 DEF Alone
    <3>3. CASE began'[o] = {}
      BY <3>3 DEF ShellLeft
    <3> QED BY <3>1, <3>2, <3>3
  <2> QED BY <1>2, <2>1 DEF LeftInv, Alone
<1>3. CASE \E sh \in Shell :
             \/ Goes(sh)
             \/ /\ call[sh] = Idle
                /\ \/ \E p, q \in Path : MkdirFunc(sh, p) \/ RmdirFunc(sh, p) \/ MvFunc(sh, p, q)
                   \/ \E args \in Commands : RmFunc(sh, args)
  BY <1>2, <1>3, ShellStepLeft
<1> QED BY <1>1, <1>3 DEF Next

\* When rm ends, it has nothing in hand any more.
LEMMA LeftAtEnd ==
  ASSUME DiscInv, LeftInv
  PROVE  AllAskedRemoved
<1> SUFFICES ASSUME NEW sh \in Shell, RmEnds(sh), NEW before \in began[sh], NEW p \in DOMAIN tree,
                    Meant(p, call[sh].args)
             PROVE  tree[p] = "dir" /\ (Recursive(call[sh].args) => Excused(p, before))
  BY DEF AllAskedRemoved
<1> DEFINE c == call[sh]
<1>1. /\ c.next \in 1..(Len(c.args) + 1) /\ c.next > Len(c.args) /\ c.frames = <<>>
      /\ (c.r <=> Recursive(c.args)) /\ c.args \in Commands
  BY DEF DiscInv, CallsInv, RmCallInv, RmCall, RmEnds, Frames
<1>2. WordsDealt(tree, before, c.args, c.r, c.next, <<>>)
  BY <1>1 DEF LeftInv, ShellLeft, Left
<1> HIDE DEF c
<1>3. PICK k \in 1..Len(c.args) : IsOperand(c.args, k) /\ Matches(p, c.args[k].path)
  BY DEF Meant, Matches, c
<1>4. k \in 1..(c.next - 1)
  <2>1. Len(c.args) \in Nat
    BY <1>1, CommandWords
  <2> QED BY <1>1, <2>1
<1>5. Dealt(tree, before, c.r, p)
  BY <1>2, <1>3, <1>4 DEF WordsDealt
<1> QED BY <1>1, <1>5 DEF Dealt, c

\* A call of rm that nothing disturbs leaves of what its arguments stand for
\* only directories: all of them without -r, and with -r those that held
\* something hidden or a name with wildcards when it began.  It does so in
\* whatever order the paths are unlinked, and however deep it goes.
THEOREM LeavesCorrect == Spec => []AllAskedRemoved
<1>1. Init => LeftInv
  BY DEF Init, LeftInv, ShellLeft
<1>2. DiscInv /\ LeftInv /\ [Next]_vars => LeftInv'
  <2> SUFFICES ASSUME DiscInv, LeftInv, [Next]_vars PROVE LeftInv'
    OBVIOUS
  <2>1. CASE Next
    BY <2>1, StepKeepsLeft
  <2>2. CASE UNCHANGED vars
    BY <2>2 DEF LeftInv, vars
  <2> QED BY <2>1, <2>2
<1>3. DiscInv /\ LeftInv => AllAskedRemoved
  BY LeftAtEnd
<1> QED BY <1>1, <1>2, <1>3, DiscInvariant, PTL DEF Spec
=============================================================================
