------------------------ MODULE FilesystemSyncProofs ------------------------
(***************************************************************************)
(* Theorems about FilesystemSync for any paths, contents, rows, threads    *)
(* and numbers of operations, outside changes and faults.                  *)
(***************************************************************************)
EXTENDS FilesystemSync, FiniteSetTheorems, SequenceTheorems,
        WellFoundedInduction, TLAPS

Paths == FolderPaths \cup FilePaths

-----------------------------------------------------------------------------
(* Paths: prefixes, parents and what a move makes of a path. *)

LEMMA PrefixElements ==
  ASSUME NEW S, NEW p \in Seq(S), NEW q \in Seq(S)
  PROVE  IsPrefix(p, q) <=> Len(p) <= Len(q) /\ \A k \in 1..Len(p) : q[k] = p[k]
<1>1. CASE Len(p) <= Len(q)
  <2>1. Len(p) \in Nat /\ Len(q) \in Nat
    BY LenProperties
  <2>2. \A k \in 1..Len(p) : q[k] \in S
    BY <2>1, <1>1, ElementOfSeq
  <2> DEFINE r == SubSeq(q, 1, Len(p))
  <2>3. r \in Seq(S) /\ Len(r) = Len(p) /\ \A k \in 1..Len(p) : r[k] = q[k]
    <3>1. /\ r \in Seq(S)
          /\ Len(r) = IF 1 <= Len(p) THEN Len(p) - 1 + 1 ELSE 0
          /\ \A k \in 1..(Len(p) - 1 + 1) : r[k] = q[1 + k - 1]
      BY <2>1, <2>2, SubSeqProperties
    <3>2. QED
      BY <2>1, <3>1
  <2>4. ASSUME \A k \in 1..Len(p) : q[k] = p[k] PROVE r = p
    BY <2>3, <2>4, SeqEqual
  <2>5. QED
    BY <1>1, <2>3, <2>4 DEF IsPrefix
<1>2. QED
  BY <1>1 DEF IsPrefix

LEMMA PrefixTrans ==
  ASSUME NEW S, NEW p \in Seq(S), NEW q \in Seq(S), NEW r \in Seq(S),
         IsPrefix(p, q), IsPrefix(q, r)
  PROVE  IsPrefix(p, r)
<1>1. Len(p) \in Nat /\ Len(q) \in Nat /\ Len(r) \in Nat
  BY LenProperties
<1>2. /\ Len(p) <= Len(q) /\ \A k \in 1..Len(p) : q[k] = p[k]
      /\ Len(q) <= Len(r) /\ \A k \in 1..Len(q) : r[k] = q[k]
  BY PrefixElements
<1>3. Len(p) <= Len(r) /\ \A k \in 1..Len(p) : r[k] = p[k]
  BY <1>1, <1>2
<1>4. QED
  BY <1>3, PrefixElements

LEMMA PrefixSelf ==
  ASSUME NEW S, NEW p \in Seq(S)
  PROVE  IsPrefix(p, p)
BY PrefixElements, LenProperties

LEMMA PrefixSameLength ==
  ASSUME NEW S, NEW p \in Seq(S), NEW q \in Seq(S), NEW r \in Seq(S),
         IsPrefix(p, r), IsPrefix(q, r), Len(p) <= Len(q)
  PROVE  IsPrefix(p, q) /\ (Len(p) = Len(q) => p = q)
<1>1. Len(p) \in Nat /\ Len(q) \in Nat /\ Len(r) \in Nat
  BY LenProperties
<1>2. /\ Len(p) <= Len(r) /\ \A k \in 1..Len(p) : r[k] = p[k]
      /\ Len(q) <= Len(r) /\ \A k \in 1..Len(q) : r[k] = q[k]
  BY PrefixElements
<1>3. \A k \in 1..Len(p) : q[k] = p[k]
  BY <1>1, <1>2
<1>4. IsPrefix(p, q)
  BY <1>3, PrefixElements
<1>5. QED
  BY <1>3, <1>4, SeqEqual

LEMMA ParentFacts ==
  ASSUME NEW S, NEW p \in Seq(S)
  PROVE  /\ ParentOf(p) \in Seq(S)
         /\ IsPrefix(ParentOf(p), p)
         /\ p = <<>> => ParentOf(p) = <<>>
         /\ p # <<>> => Len(p) >= 1 /\ Len(ParentOf(p)) = Len(p) - 1
<1>1. Len(p) \in Nat
  BY LenProperties
<1>2. \A k \in 1..(Len(p) - 1) : p[k] \in S
  BY <1>1, ElementOfSeq
<1> DEFINE r == SubSeq(p, 1, Len(p) - 1)
<1>3. /\ r \in Seq(S)
      /\ Len(r) = IF 1 <= Len(p) - 1 THEN Len(p) - 1 - 1 + 1 ELSE 0
      /\ \A k \in 1..(Len(p) - 1 - 1 + 1) : r[k] = p[1 + k - 1]
  BY <1>1, <1>2, SubSeqProperties
<1> HIDE DEF r
<1>4. ASSUME p # <<>> PROVE Len(p) >= 1 /\ Len(r) = Len(p) - 1
  <2>1. Len(p) \in Nat \ {0}
    BY <1>4, EmptySeq
  <2>2. Len(r) = IF 1 <= Len(p) - 1 THEN Len(p) - 1 - 1 + 1 ELSE 0
    BY <1>3
  <2>3. \A n \in Nat : n # 0 => n >= 1 /\ (IF 1 <= n - 1 THEN n - 1 - 1 + 1 ELSE 0) = n - 1
    OBVIOUS
  <2>4. QED
    BY <1>1, <2>1, <2>2, <2>3
<1>5. Len(r) <= Len(p) /\ \A k \in 1..Len(r) : p[k] = r[k]
  BY <1>1, <1>3
<1>6. IsPrefix(r, p)
  BY <1>3, <1>5, PrefixElements
<1>7. p = <<>> => r = <<>>
  BY <1>1, SubSeqEmpty, EmptySeq DEF r
<1>8. QED
  BY <1>3, <1>4, <1>6, <1>7 DEF ParentOf, r

\* What is above a path and is not the path is above its parent.
LEMMA PrefixOfParent ==
  ASSUME NEW S, NEW p \in Seq(S), NEW q \in Seq(S), IsPrefix(q, p), q # p
  PROVE  IsPrefix(q, ParentOf(p)) /\ Len(q) < Len(p) /\ p # <<>>
<1>1. Len(p) \in Nat /\ Len(q) \in Nat
  BY LenProperties
<1>2. IsPrefix(p, p)
  BY PrefixSelf
<1>3. Len(q) <= Len(p)
  BY DEF IsPrefix
<1>4. Len(q) < Len(p)
  BY <1>1, <1>2, <1>3, PrefixSameLength
<1>5. p # <<>>
  BY <1>1, <1>4, EmptySeq
<1>6. ParentOf(p) \in Seq(S) /\ IsPrefix(ParentOf(p), p) /\ Len(ParentOf(p)) = Len(p) - 1
  BY <1>5, ParentFacts
<1>7. Len(q) <= Len(ParentOf(p))
  BY <1>1, <1>4, <1>6
<1>8. QED
  BY <1>4, <1>5, <1>6, <1>7, PrefixSameLength

\* What a moved path consists of.
IsRebased(r, p, from, to) ==
    /\ Len(r) = Len(to) + Len(p) - Len(from)
    /\ \A k \in 1..Len(to) : r[k] = to[k]
    /\ \A k \in (Len(to) + 1)..Len(r) : r[k] = p[k - Len(to) + Len(from)]

LEMMA RebaseFacts ==
  ASSUME NEW S, NEW p \in Seq(S), NEW from \in Seq(S), NEW to \in Seq(S), IsPrefix(from, p)
  PROVE  Rebase(p, from, to) \in Seq(S) /\ IsRebased(Rebase(p, from, to), p, from, to)
<1>1. Len(p) \in Nat /\ Len(from) \in Nat /\ Len(to) \in Nat /\ Len(from) <= Len(p)
  BY LenProperties DEF IsPrefix
<1>2. \A k \in (Len(from) + 1)..Len(p) : p[k] \in S
  BY <1>1, ElementOfSeq
<1> DEFINE s == SubSeq(p, Len(from) + 1, Len(p))
<1>3. /\ s \in Seq(S)
      /\ Len(s) = IF Len(from) + 1 <= Len(p) THEN Len(p) - (Len(from) + 1) + 1 ELSE 0
      /\ \A k \in 1..(Len(p) - (Len(from) + 1) + 1) : s[k] = p[Len(from) + 1 + k - 1]
  BY <1>1, <1>2, SubSeqProperties
<1>4. Len(s) = Len(p) - Len(from) /\ \A k \in 1..(Len(p) - Len(from)) : s[k] = p[Len(from) + k]
  BY <1>1, <1>3
<1> HIDE DEF s
<1> DEFINE r == to \o s
<1>5. /\ r \in Seq(S) /\ Len(r) = Len(to) + Len(s)
      /\ \A k \in 1..(Len(to) + Len(s)) : r[k] = IF k <= Len(to) THEN to[k] ELSE s[k - Len(to)]
  BY <1>3, ConcatProperties
<1>6. Rebase(p, from, to) = r
  BY DEF Rebase, s
<1> HIDE DEF r
<1>7. r \in Seq(S) /\ Len(r) = Len(to) + Len(p) - Len(from)
  BY <1>1, <1>4, <1>5
<1>8. ASSUME NEW k \in 1..Len(to) PROVE r[k] = to[k]
  <2>1. k \in 1..(Len(to) + Len(s)) /\ k <= Len(to)
    BY <1>1, <1>4
  <2>2. QED
    BY <2>1, <1>5
<1>9. ASSUME NEW k \in (Len(to) + 1)..Len(r)
      PROVE  r[k] = p[k - Len(to) + Len(from)]
  <2> DEFINE j == k - Len(to)
  <2>0. j \in 1..(Len(p) - Len(from)) /\ k \in 1..(Len(to) + Len(s)) /\ ~(k <= Len(to))
    BY <1>1, <1>4, <1>7
  <2>1. r[k] = s[j]
    BY <2>0, <1>5
  <2>2. s[j] = p[Len(from) + j]
    BY <2>0, <1>4
  <2>3. Len(from) + j = k - Len(to) + Len(from)
    BY <1>1
  <2>4. QED
    BY <2>1, <2>2, <2>3
<1>10. QED
  BY <1>6, <1>7, <1>8, <1>9 DEF IsRebased

\* A path that was moved is below the target, and moving it back undoes it.
LEMMA RebaseBack ==
  ASSUME NEW S, NEW p \in Seq(S), NEW from \in Seq(S), NEW to \in Seq(S), IsPrefix(from, p)
  PROVE  /\ Rebase(p, from, to) \in Seq(S)
         /\ IsPrefix(to, Rebase(p, from, to))
         /\ Rebase(Rebase(p, from, to), to, from) = p
<1> DEFINE r == Rebase(p, from, to)
           b == Rebase(r, to, from)
<1>1. Len(p) \in Nat /\ Len(from) \in Nat /\ Len(to) \in Nat
  BY LenProperties
<1>2. Len(from) <= Len(p) /\ \A k \in 1..Len(from) : p[k] = from[k]
  BY PrefixElements
<1>3. r \in Seq(S) /\ IsRebased(r, p, from, to)
  BY RebaseFacts
<1> HIDE DEF r
<1>4. Len(to) <= Len(r)
  BY <1>1, <1>2, <1>3 DEF IsRebased
<1>5. IsPrefix(to, r)
  BY <1>3, <1>4, PrefixElements DEF IsRebased
<1>6. b \in Seq(S) /\ IsRebased(b, r, to, from)
  BY <1>3, <1>5, RebaseFacts
<1> HIDE DEF b
<1>7. Len(b) = Len(p)
  BY <1>1, <1>3, <1>6 DEF IsRebased
<1>8. ASSUME NEW k \in 1..Len(b) PROVE b[k] = p[k]
  <2>1. CASE k <= Len(from)
    BY <2>1, <1>1, <1>2, <1>6, <1>7 DEF IsRebased
  <2>2. CASE k > Len(from)
    <3> DEFINE j == k - Len(from) + Len(to)
    <3>1. /\ k \in (Len(from) + 1)..Len(b)
          /\ j \in (Len(to) + 1)..Len(r)
          /\ j - Len(to) + Len(from) = k
      BY <2>2, <1>1, <1>3, <1>7 DEF IsRebased
    <3>2. b[k] = r[j]
      BY <3>1, <1>6 DEF IsRebased
    <3> HIDE DEF j
    <3>3. r[j] = p[j - Len(to) + Len(from)]
      BY <3>1, <1>3 DEF IsRebased
    <3>4. QED
      BY <3>1, <3>2, <3>3
  <2>3. QED
    BY <2>1, <2>2, <1>1, <1>7
<1>9. b = p
  BY <1>6, <1>7, <1>8, SeqEqual
<1>10. QED
  BY <1>3, <1>5, <1>9 DEF r, b

\* A move keeps what is above what, below the folder that is moved.
LEMMA RebasePrefix ==
  ASSUME NEW S, NEW p \in Seq(S), NEW q \in Seq(S), NEW from \in Seq(S), NEW to \in Seq(S),
         IsPrefix(from, q), IsPrefix(q, p)
  PROVE  IsPrefix(Rebase(q, from, to), Rebase(p, from, to))
<1> DEFINE r == Rebase(p, from, to)
           s == Rebase(q, from, to)
<1>1. Len(p) \in Nat /\ Len(q) \in Nat /\ Len(from) \in Nat /\ Len(to) \in Nat
  BY LenProperties
<1>2. IsPrefix(from, p)
  BY PrefixTrans
<1>3. /\ Len(from) <= Len(q)
      /\ Len(q) <= Len(p) /\ \A k \in 1..Len(q) : p[k] = q[k]
  BY PrefixElements
<1>4. r \in Seq(S) /\ IsRebased(r, p, from, to)
  BY <1>2, RebaseFacts
<1>5. s \in Seq(S) /\ IsRebased(s, q, from, to)
  BY RebaseFacts
<1> HIDE DEF r, s
<1>6. Len(s) <= Len(r)
  BY <1>1, <1>3, <1>4, <1>5 DEF IsRebased
<1>7. ASSUME NEW k \in 1..Len(s) PROVE r[k] = s[k]
  <2>1. CASE k <= Len(to)
    BY <2>1, <1>1, <1>4, <1>5 DEF IsRebased
  <2>2. CASE k > Len(to)
    <3> DEFINE j == k - Len(to) + Len(from)
    <3>1. /\ k \in (Len(to) + 1)..Len(s)
          /\ k \in (Len(to) + 1)..Len(r)
          /\ j \in 1..Len(q)
      BY <2>2, <1>1, <1>3, <1>4, <1>5 DEF IsRebased
    <3>2. r[k] = p[j] /\ s[k] = q[j]
      BY <3>1, <1>4, <1>5 DEF IsRebased
    <3> HIDE DEF j
    <3>3. QED
      BY <3>1, <3>2, <1>3
  <2>3. QED
    BY <2>1, <2>2, <1>1, <1>4, <1>5 DEF IsRebased
<1>8. QED
  BY <1>4, <1>5, <1>6, <1>7, PrefixElements DEF r, s

LEMMA RebaseSelf ==
  ASSUME NEW S, NEW from \in Seq(S), NEW to \in Seq(S)
  PROVE  Rebase(from, from, to) = to
<1> DEFINE r == Rebase(from, from, to)
<1>1. IsPrefix(from, from)
  BY PrefixSelf
<1>2. r \in Seq(S) /\ IsPrefix(to, r)
  BY <1>1, RebaseBack
<1>3. Len(r) = Len(to) + Len(from) - Len(from)
  BY <1>1, RebaseFacts DEF IsRebased
<1>4. Len(from) \in Nat /\ Len(to) \in Nat /\ IsPrefix(r, r)
  BY <1>2, LenProperties, PrefixSelf
<1> HIDE DEF r
<1>5. Len(r) = Len(to)
  BY <1>3, <1>4
<1>6. QED
  BY <1>2, <1>4, <1>5, PrefixSameLength DEF r

-----------------------------------------------------------------------------
(* The disk: what can be reached stays so. *)

LEMMA PathFacts ==
  /\ FolderPaths \subseteq Paths /\ FilePaths \subseteq Paths
  /\ \A p \in Paths : p \in Seq(Names) /\ ParentOf(p) \in FolderPaths
  /\ Root \in FolderPaths /\ Root = <<>>
<1>1. \A p \in Paths : p \in Seq(Names)
  BY PathsAssumption DEF Paths
<1>2. Root \in FolderPaths /\ Root = <<>>
  BY PathsAssumption DEF Root
<1>3. ASSUME NEW p \in Paths PROVE ParentOf(p) \in FolderPaths
  <2>1. CASE p = <<>>
    BY <1>1, <1>2, <2>1, ParentFacts
  <2>2. CASE p # <<>>
    <3>1. Len(p) \in Nat /\ Len(p) >= 1
      BY <1>1, <2>2, ParentFacts, LenProperties
    <3>2. Len(p) - 1 \in 0..(Len(p) - 1)
      BY <3>1
    <3>3. QED
      BY <3>2, PathsAssumption DEF ParentOf, Paths
  <2>3. QED
    BY <2>1, <2>2
<1>4. QED
  BY <1>1, <1>2, <1>3 DEF Paths

LEMMA PrefixIsFolder ==
  ASSUME NEW p \in Paths, NEW q \in Seq(Names), IsPrefix(q, p), q # p
  PROVE  q \in FolderPaths
<1>1. p \in Seq(Names)
  BY PathFacts
<1>2. Len(q) < Len(p) /\ Len(q) \in Nat /\ Len(p) \in Nat
  BY <1>1, PrefixOfParent, LenProperties
<1>3. Len(q) \in 0..(Len(p) - 1) /\ q = SubSeq(p, 1, Len(q))
  BY <1>2 DEF IsPrefix
<1>4. QED
  BY <1>3, PathsAssumption DEF Paths

\* make_dirs: the folder and all above it.
LEMMA MakingFolders ==
  ASSUME NEW D \in SUBSET FolderPaths, NEW P \in SUBSET FilePaths, Reachable(D, P),
         NEW p \in FolderPaths
  PROVE  D \cup Above(p) \in SUBSET FolderPaths /\ Reachable(D \cup Above(p), P)
<1>1. ASSUME NEW x \in Above(p), NEW q \in FolderPaths, IsPrefix(q, x) PROVE q \in Above(p)
  <2>1. x \in Seq(Names) /\ q \in Seq(Names) /\ p \in Seq(Names) /\ IsPrefix(x, p)
    BY PathFacts DEF Above
  <2>2. QED
    BY <1>1, <2>1, PrefixTrans DEF Above
<1>2. QED
  BY <1>1 DEF Reachable, Above

LEMMA AddingAFolder ==
  ASSUME NEW D \in SUBSET FolderPaths, NEW P \in SUBSET FilePaths, Reachable(D, P),
         NEW p \in FolderPaths, ParentOf(p) \in D
  PROVE  Reachable(D \cup {p}, P)
<1>1. ASSUME NEW q \in FolderPaths, IsPrefix(q, p), q # p PROVE q \in D
  <2>1. IsPrefix(q, ParentOf(p))
    BY <1>1, PathFacts, PrefixOfParent
  <2>2. QED
    BY <2>1 DEF Reachable
<1>2. QED
  BY <1>1 DEF Reachable

LEMMA AddingAFile ==
  ASSUME NEW D \in SUBSET FolderPaths, NEW P \in SUBSET FilePaths, Reachable(D, P),
         NEW p \in FilePaths, ParentOf(p) \in D
  PROVE  Reachable(D, P \cup {p})
<1>1. ASSUME NEW q \in FolderPaths, IsPrefix(q, p) PROVE q \in D
  <2>1. q # p
    BY PathsAssumption
  <2>2. IsPrefix(q, ParentOf(p))
    BY <1>1, <2>1, PathFacts, PrefixOfParent
  <2>3. QED
    BY <2>2 DEF Reachable
<1>2. QED
  BY <1>1 DEF Reachable

LEMMA RemovingAFolder ==
  ASSUME NEW D \in SUBSET FolderPaths, NEW P \in SUBSET FilePaths, Reachable(D, P),
         NEW p \in FolderPaths
  PROVE  Reachable({d \in D : ~IsPrefix(p, d)}, P \ {q \in FilePaths : IsPrefix(p, q)})
<1>1. ASSUME NEW x \in D \cup P, ~IsPrefix(p, x), NEW q \in FolderPaths, IsPrefix(q, x)
      PROVE  q \in D /\ ~IsPrefix(p, q)
  <2>1. x \in Seq(Names) /\ q \in Seq(Names) /\ p \in Seq(Names)
    BY PathFacts
  <2>2. ~IsPrefix(p, q)
    BY <1>1, <2>1, PrefixTrans
  <2>3. QED
    BY <1>1, <2>2 DEF Reachable
<1>2. QED
  BY <1>1 DEF Reachable

Below(p, S)         == {q \in S : IsPrefix(p, q)}
Rebased(S, from, to) == {Rebase(p, from, to) : p \in Below(from, S)}

\* A move of a folder, which fits, to a place that is free.
CanMove(D, P, from, to) ==
    /\ from \in D /\ to \notin D
    /\ Rebased(D, from, to) \subseteq FolderPaths
    /\ Rebased(P, from, to) \subseteq FilePaths

LEMMA MovingAFolder ==
  ASSUME NEW D \in SUBSET FolderPaths, NEW P \in SUBSET FilePaths, Reachable(D, P),
         NEW from \in FolderPaths, NEW to \in FolderPaths, CanMove(D, P, from, to)
  PROVE  Reachable((D \ Below(from, D)) \cup Rebased(D, from, to) \cup Above(ParentOf(to)),
                   (P \ Below(from, P)) \cup Rebased(P, from, to))
<1> DEFINE D2 == (D \ Below(from, D)) \cup Rebased(D, from, to) \cup Above(ParentOf(to))
           P2 == (P \ Below(from, P)) \cup Rebased(P, from, to)
<1>0. from \in Seq(Names) /\ to \in Seq(Names) /\ ParentOf(to) \in FolderPaths
      /\ ParentOf(to) \in Seq(Names)
  BY PathFacts
<1>1. ASSUME NEW x \in D \cup P, ~IsPrefix(from, x), NEW q \in FolderPaths, IsPrefix(q, x)
      PROVE  q \in D2
  <2>1. x \in Seq(Names) /\ q \in Seq(Names)
    BY PathFacts
  <2>2. ~IsPrefix(from, q)
    BY <1>0, <1>1, <2>1, PrefixTrans
  <2>3. QED
    BY <1>1, <2>2 DEF Reachable, Below
<1>2. ASSUME NEW x \in Above(ParentOf(to)), NEW q \in FolderPaths, IsPrefix(q, x)
      PROVE  q \in D2
  <2>1. x \in Seq(Names) /\ q \in Seq(Names) /\ IsPrefix(x, ParentOf(to))
    BY PathFacts DEF Above
  <2>2. QED
    BY <1>0, <1>2, <2>1, PrefixTrans DEF Above
<1>3. ASSUME NEW y \in D \cup P, IsPrefix(from, y), NEW q \in FolderPaths,
             IsPrefix(q, Rebase(y, from, to))
      PROVE  q \in D2
  <2> DEFINE x == Rebase(y, from, to)
             z == Rebase(q, to, from)
  <2>1. y \in Seq(Names) /\ q \in Seq(Names) /\ y \in Paths
    BY PathFacts
  <2>2. x \in Seq(Names) /\ IsPrefix(to, x) /\ Rebase(x, to, from) = y
    BY <1>0, <1>3, <2>1, RebaseBack
  <2>3. Len(q) \in Nat /\ Len(to) \in Nat
    BY <1>0, <2>1, LenProperties
  <2>4. CASE Len(q) < Len(to)
    <3>1. IsPrefix(q, to) /\ q # to
      BY <1>0, <1>3, <2>1, <2>2, <2>3, <2>4, PrefixSameLength
    <3>2. IsPrefix(q, ParentOf(to))
      BY <1>0, <2>1, <3>1, PrefixOfParent
    <3>3. QED
      BY <3>2 DEF Above
  <2>5. CASE Len(to) <= Len(q)
    <3>1. IsPrefix(to, q)
      BY <1>0, <1>3, <2>1, <2>2, <2>5, PrefixSameLength
    <3>2. z \in Seq(Names) /\ IsPrefix(from, z) /\ Rebase(z, from, to) = q
      BY <1>0, <2>1, <3>1, RebaseBack
    <3>3. IsPrefix(z, Rebase(x, to, from))
      BY <1>0, <1>3, <2>1, <2>2, <3>1, RebasePrefix
    <3>4. IsPrefix(z, y)
      BY <2>2, <3>3
    <3> HIDE DEF z
    <3>5. CASE z # y
      <4>1. z \in FolderPaths
        BY <2>1, <3>2, <3>4, <3>5, PrefixIsFolder
      <4>2. z \in D
        BY <3>4, <4>1 DEF Reachable
      <4>3. QED
        BY <3>2, <4>2 DEF Rebased, Below
    <3>6. CASE z = y /\ y \in D
      BY <3>2, <3>6 DEF Rebased, Below
    <3>7. CASE z = y /\ y \in P
      <4>1. q \in FilePaths
        BY <3>2, <3>7 DEF CanMove, Rebased, Below
      <4>2. QED
        BY <4>1, PathsAssumption
    <3>8. QED
      BY <3>5, <3>6, <3>7
  <2>6. QED
    BY <2>3, <2>4, <2>5
<1>4. ASSUME NEW x \in D2 \cup P2, NEW q \in FolderPaths, IsPrefix(q, x) PROVE q \in D2
  <2>1. CASE x \in D \cup P /\ ~IsPrefix(from, x)
    BY <1>1, <1>4, <2>1
  <2>2. CASE x \in Above(ParentOf(to))
    BY <1>2, <1>4, <2>2
  <2>3. CASE x \in Rebased(D, from, to) \cup Rebased(P, from, to)
    <3>1. PICK y \in D \cup P : IsPrefix(from, y) /\ x = Rebase(y, from, to)
      BY <2>3 DEF Rebased, Below
    <3>2. QED
      BY <1>3, <1>4, <3>1
  <2>4. QED
    BY <2>1, <2>2, <2>3, <1>4 DEF Below
<1>5. QED
  BY <1>4 DEF Reachable

\* Where a path came from, and that no file is lost on the way.
OldPath(p, from, to) == IF IsPrefix(to, p) THEN Rebase(p, to, from) ELSE p

LEMMA MovingFiles ==
  ASSUME NEW D \in SUBSET FolderPaths, NEW P \in SUBSET FilePaths, Reachable(D, P),
         NEW from \in FolderPaths, NEW to \in FolderPaths, CanMove(D, P, from, to)
  PROVE  {OldPath(p, from, to) : p \in (P \ Below(from, P)) \cup Rebased(P, from, to)} = P
<1> DEFINE P2 == (P \ Below(from, P)) \cup Rebased(P, from, to)
<1>0. from \in Seq(Names) /\ to \in Seq(Names)
  BY PathFacts
<1>1. ASSUME NEW q \in P, ~IsPrefix(from, q) PROVE q \in P2 /\ OldPath(q, from, to) = q
  <2>1. ~IsPrefix(to, q)
    BY DEF Reachable, CanMove
  <2>2. QED
    BY <1>1, <2>1 DEF Below, OldPath
<1>2. ASSUME NEW q \in P, IsPrefix(from, q)
      PROVE  Rebase(q, from, to) \in P2 /\ OldPath(Rebase(q, from, to), from, to) = q
  <2>1. IsPrefix(to, Rebase(q, from, to)) /\ Rebase(Rebase(q, from, to), to, from) = q
    BY <1>0, <1>2, PathFacts, RebaseBack
  <2>2. Rebase(q, from, to) \in P2
    BY <1>2 DEF Rebased, Below
  <2>3. QED
    BY <2>1, <2>2 DEF OldPath
<1>3. ASSUME NEW p \in P2
      PROVE  \E q \in P : p = (IF IsPrefix(from, q) THEN Rebase(q, from, to) ELSE q)
  BY DEF Below, Rebased
<1>4. QED
  BY <1>1, <1>2, <1>3

-----------------------------------------------------------------------------
(* Rows and sessions *)

ImageIds  == 1..MaxImages
FolderIds == 1..MaxFolders
Statuses  == {"active", "deleted"}

RowsOK(d) ==
    /\ DOMAIN d = {"images", "folders"}
    /\ DOMAIN d.images \subseteq ImageIds
    /\ \A i \in DOMAIN d.images : d.images[i] \in Image
    /\ DOMAIN d.folders \subseteq FolderIds
    /\ \A i \in DOMAIN d.folders : d.folders[i] \in Folder

\* A change gives a column a value that it can have.
GoodChange(u) ==
    /\ u[1] = "i" /\ u[3] = "src"    => u[4] \in FilePaths
    /\ u[1] = "i" /\ u[3] = "folder" => u[4] \in FolderIds
    /\ u[1] = "f" /\ u[3] = "path"   => u[4] \in FolderPaths
    /\ u[1] = "f" /\ u[3] = "parent" => u[4] \in FolderIds
    /\ u[3] = "status" => u[4] \in Statuses

LEMMA FieldType ==
  ASSUME NEW w, NEW t, NEW i, NEW f, NEW old, NEW S, old \in S,
         \A u \in w : u[1] = t /\ u[3] = f => u[4] \in S
  PROVE  Field(w, t, i, f, old) \in S
BY DEF Field

\* What a session reads, and commits, is well-typed.
LEMMA ApplyType ==
  ASSUME NEW d, RowsOK(d), NEW w, \A u \in w : GoodChange(u)
  PROVE  RowsOK(Apply(d, w))
<1> DEFINE e == Apply(d, w)
<1>1. /\ DOMAIN e = {"images", "folders"}
      /\ e.images = [i \in {i \in DOMAIN d.images : SetImage(i, "row", 0) \notin w} |->
             [src    |-> Field(w, "i", i, "src", d.images[i].src),
              folder |-> Field(w, "i", i, "folder", d.images[i].folder),
              status |-> Field(w, "i", i, "status", d.images[i].status)]]
      /\ e.folders = [i \in {i \in DOMAIN d.folders : SetFolder(i, "row", 0) \notin w} |->
             [path   |-> Field(w, "f", i, "path", d.folders[i].path),
              parent |-> Field(w, "f", i, "parent", d.folders[i].parent),
              status |-> Field(w, "f", i, "status", d.folders[i].status)]]
  BY DEF Apply
<1>2. ASSUME NEW i \in DOMAIN d.images
      PROVE  /\ Field(w, "i", i, "src", d.images[i].src) \in FilePaths
             /\ Field(w, "i", i, "folder", d.images[i].folder) \in FolderIds
             /\ Field(w, "i", i, "status", d.images[i].status) \in Statuses
  <2>1. d.images[i].src \in FilePaths /\ d.images[i].folder \in FolderIds
        /\ d.images[i].status \in Statuses
    BY <1>2 DEF RowsOK, Image, FolderIds, Statuses
  <2>2. Field(w, "i", i, "src", d.images[i].src) \in FilePaths
    BY <2>1, FieldType DEF GoodChange
  <2>3. Field(w, "i", i, "folder", d.images[i].folder) \in FolderIds
    BY <2>1, FieldType DEF GoodChange
  <2>4. Field(w, "i", i, "status", d.images[i].status) \in Statuses
    BY <2>1, FieldType DEF GoodChange
  <2>5. QED
    BY <2>2, <2>3, <2>4
<1>3. ASSUME NEW i \in DOMAIN d.folders
      PROVE  /\ Field(w, "f", i, "path", d.folders[i].path) \in FolderPaths
             /\ Field(w, "f", i, "parent", d.folders[i].parent) \in 0..MaxFolders
             /\ Field(w, "f", i, "status", d.folders[i].status) \in Statuses
  <2>1. d.folders[i].path \in FolderPaths /\ d.folders[i].parent \in 0..MaxFolders
        /\ d.folders[i].status \in Statuses
    BY <1>3 DEF RowsOK, Folder, Statuses
  <2>2. Field(w, "f", i, "path", d.folders[i].path) \in FolderPaths
    BY <2>1, FieldType DEF GoodChange
  <2>3. Field(w, "f", i, "parent", d.folders[i].parent) \in 0..MaxFolders
    <3>1. \A u \in w : u[1] = "f" /\ u[3] = "parent" => u[4] \in 0..MaxFolders
      BY BoundsAssumption DEF GoodChange, FolderIds
    <3>2. QED
      BY <2>1, <3>1, FieldType
  <2>4. Field(w, "f", i, "status", d.folders[i].status) \in Statuses
    BY <2>1, FieldType DEF GoodChange
  <2>5. QED
    BY <2>2, <2>3, <2>4
<1> HIDE DEF e
<1>4. DOMAIN e.images \subseteq DOMAIN d.images /\ DOMAIN e.folders \subseteq DOMAIN d.folders
  BY <1>1
<1>5. \A i \in DOMAIN e.images : e.images[i] \in Image
  BY <1>1, <1>2, <1>4 DEF Image, FolderIds, Statuses
<1>6. \A i \in DOMAIN e.folders : e.folders[i] \in Folder
  BY <1>1, <1>3, <1>4 DEF Folder, Statuses
<1>7. RowsOK(e)
  BY <1>1, <1>4, <1>5, <1>6 DEF RowsOK
<1>8. QED
  BY <1>7 DEF e

\* What a session does not touch stays as it is when it commits.
LEMMA Untouched ==
  ASSUME NEW d, NEW w, NEW i \in DOMAIN d.images, ~Touches(w, i)
  PROVE  /\ i \in DOMAIN Apply(d, w).images
         /\ Apply(d, w).images[i].src = d.images[i].src
         /\ Apply(d, w).images[i].status = d.images[i].status
<1>1. \A f, old : Field(w, "i", i, f, old) = old
  BY DEF Field, Touches
<1>2. SetImage(i, "row", 0) \notin w
  BY DEF Touches, SetImage
<1>3. i \in DOMAIN Apply(d, w).images
      /\ Apply(d, w).images[i] = [src    |-> Field(w, "i", i, "src", d.images[i].src),
              folder |-> Field(w, "i", i, "folder", d.images[i].folder),
              status |-> Field(w, "i", i, "status", d.images[i].status)]
  BY <1>2 DEF Apply
<1>4. QED
  BY <1>1, <1>3

LEMMA FolderFound ==
  ASSUME NEW d, NEW p, FoldersAt(d, p) # {}
  PROVE  TheFolder(d, p) \in DOMAIN d.folders /\ d.folders[TheFolder(d, p)].path = p
BY DEF TheFolder, FoldersAt

LEMMA ImageFound ==
  ASSUME NEW d, NEW p, ImagesAt(d, p) # {}
  PROVE  TheImage(d, p) \in ImagesAt(d, p)
BY DEF TheImage

LEMMA NothingMissing ==
  ASSUME NEW d, NEW p \in FolderPaths, MissingFolders(d, p) = {}
  PROVE  TheFolder(d, p) \in DOMAIN d.folders
<1>1. IsPrefix(p, p)
  BY PathFacts, PrefixSelf
<1>2. FoldersAt(d, p) # {}
  BY <1>1 DEF MissingFolders
<1>3. QED
  BY <1>2, FolderFound

\* The rows of the missing folders have IDs of their own.
LEMMA NewFolderIds ==
  ASSUME NEW d, NEW p \in FolderPaths, next.folder \in Nat \ {0}, HaveFolderIds(d, p),
         NEW M, M = MissingFolders(d, p),
         NEW q \in M, NEW n, n = Cardinality({r \in M : Len(r) < Len(q)})
  PROVE  /\ next.folder + n \in FolderIds /\ next.folder + n >= next.folder
         /\ next.folder + n < next.folder + Cardinality(M)
         /\ \A s \in M : next.folder + Cardinality({r \in M : Len(r) < Len(s)})
                              = next.folder + n => s = q
<1> DEFINE Shorter(s) == {r \in M : Len(r) < Len(s)}
<1>1. IsFiniteSet(M)
  BY PathsAssumption, FS_Subset DEF MissingFolders
<1>2. \A s \in M : s \in Seq(Names) /\ IsPrefix(s, p) /\ Len(s) \in Nat
  BY PathFacts, LenProperties DEF MissingFolders
<1>3. ASSUME NEW s \in M
      PROVE  /\ IsFiniteSet(Shorter(s)) /\ Cardinality(Shorter(s)) \in Nat
             /\ Cardinality(Shorter(s)) < Cardinality(M) /\ Cardinality(M) \in Nat
  <2>1. IsFiniteSet(Shorter(s)) /\ Cardinality(Shorter(s)) <= Cardinality(M)
        /\ (Cardinality(M) = Cardinality(Shorter(s)) => M = Shorter(s))
    BY <1>1, FS_Subset
  <2>2. Cardinality(Shorter(s)) \in Nat /\ Cardinality(M) \in Nat
    BY <1>1, <2>1, FS_CardinalityType
  <2>3. M # Shorter(s)
    BY <1>2
  <2>4. QED
    BY <2>1, <2>2, <2>3
<1>4. ASSUME NEW s \in M, NEW t \in M, Len(s) < Len(t)
      PROVE  Cardinality(Shorter(s)) < Cardinality(Shorter(t))
  <2>1. Shorter(s) \subseteq Shorter(t) /\ s \in Shorter(t) /\ s \notin Shorter(s)
    BY <1>2, <1>4
  <2>2. Cardinality(Shorter(s)) <= Cardinality(Shorter(t))
        /\ (Cardinality(Shorter(t)) = Cardinality(Shorter(s)) => Shorter(t) = Shorter(s))
    BY <1>3, <2>1, FS_Subset
  <2>3. Shorter(s) # Shorter(t)
    BY <2>1
  <2>4. Cardinality(Shorter(s)) \in Nat /\ Cardinality(Shorter(t)) \in Nat
    BY <1>3
  <2> HIDE DEF Shorter
  <2>5. QED
    BY <2>2, <2>3, <2>4
<1>5. ASSUME NEW s \in M, NEW t \in M, Len(s) = Len(t) PROVE s = t
  BY <1>2, <1>5, PathFacts, PrefixSameLength
<1>6. n = Cardinality(Shorter(q))
  OBVIOUS
<1> HIDE DEF Shorter
<1>7. /\ next.folder + n \in FolderIds /\ next.folder + n >= next.folder
      /\ next.folder + n < next.folder + Cardinality(M)
  <2>1. next.folder + Cardinality(M) <= MaxFolders + 1
    BY DEF HaveFolderIds
  <2>2. QED
    BY <1>3, <1>6, <2>1, BoundsAssumption DEF FolderIds
<1>8. ASSUME NEW s \in M, next.folder + Cardinality(Shorter(s)) = next.folder + n PROVE s = q
  <2>1. Cardinality(Shorter(s)) = Cardinality(Shorter(q))
    BY <1>3, <1>6, <1>8
  <2>2. ~(Len(s) < Len(q)) /\ ~(Len(q) < Len(s))
    BY <1>3, <1>4, <2>1
  <2>3. QED
    BY <1>2, <1>5, <2>2
<1>9. QED
  BY <1>7, <1>8 DEF Shorter

\* get_or_create_folder leaves well-typed rows, one of them for the path.
LEMMA WithFoldersType ==
  ASSUME NEW d, RowsOK(d), NEW p \in FolderPaths, next.folder \in Nat \ {0},
         DOMAIN next = {"image", "folder"}, HaveFolderIds(d, p),
         \A i \in DOMAIN d.folders : i < next.folder
  PROVE  /\ RowsOK(WithFolders(d, p)) /\ WithFolders(d, p).images = d.images
         /\ TheFolder(WithFolders(d, p), p) \in FolderIds
         /\ DOMAIN NextFolder(d, p) = {"image", "folder"}
         /\ NextFolder(d, p).image = next.image /\ NextFolder(d, p).folder \in Nat \ {0}
         /\ \A i \in DOMAIN WithFolders(d, p).folders : i < NextFolder(d, p).folder
<1> DEFINE M     == MissingFolders(d, p)
           Nr(q) == next.folder + Cardinality({r \in M : Len(r) < Len(q)})
           Id(q) == IF q \in M THEN Nr(q) ELSE TheFolder(d, q)
           New   == {Id(q) : q \in M}
           At(i) == CHOOSE q \in M : Id(q) = i
           e     == WithFolders(d, p)
<1>1. /\ DOMAIN e = {"images", "folders"} /\ e.images = d.images
      /\ e.folders = [i \in DOMAIN d.folders \cup New |->
             IF i \in New
             THEN [path |-> At(i), parent |-> Id(ParentOf(At(i))), status |-> "active"]
             ELSE d.folders[i]]
  BY DEF RowsOK, WithFolders
<1>2. \A q \in M : /\ Nr(q) \in FolderIds /\ Nr(q) >= next.folder
                    /\ Nr(q) < next.folder + Cardinality(M)
                    /\ \A s \in M : Nr(s) = Nr(q) => s = q
  BY NewFolderIds
<1>3. ASSUME NEW i \in New PROVE /\ At(i) \in M /\ Id(At(i)) = i
                                  /\ i \in FolderIds /\ i >= next.folder
                                  /\ i < next.folder + Cardinality(M)
  BY <1>2
<1>4. \A q \in M : At(Id(q)) = q
  <2> SUFFICES ASSUME NEW q \in M PROVE At(Id(q)) = q
    OBVIOUS
  <2>1. Id(q) \in New
    OBVIOUS
  <2>2. At(Id(q)) \in M /\ Id(At(Id(q))) = Id(q)
    BY <1>3, <2>1
  <2> HIDE DEF At
  <2>3. QED
    BY <1>2, <2>2
<1>5. \A q \in M : q \in FolderPaths /\ IsPrefix(q, p)
  BY DEF MissingFolders
<1>6. ASSUME NEW q \in M PROVE Id(ParentOf(q)) \in FolderIds
  <2>1. CASE ParentOf(q) \in M
    BY <1>2, <2>1
  <2>2. CASE ParentOf(q) \notin M
    <3>1. q \in Seq(Names) /\ p \in Seq(Names) /\ ParentOf(q) \in FolderPaths
          /\ ParentOf(q) \in Seq(Names)
      BY <1>5, PathFacts
    <3>2. IsPrefix(ParentOf(q), p)
      BY <1>5, <3>1, ParentFacts, PrefixTrans
    <3>3. FoldersAt(d, ParentOf(q)) # {}
      BY <2>2, <3>1, <3>2 DEF MissingFolders
    <3>4. TheFolder(d, ParentOf(q)) \in FolderIds
      BY <3>3, FolderFound DEF RowsOK
    <3>5. QED
      BY <2>2, <3>4
  <2>3. QED
    BY <2>1, <2>2
<1> HIDE DEF e, At, Id, New
<1>7. DOMAIN e.folders \subseteq FolderIds
  BY <1>1, <1>3 DEF RowsOK
<1>8. ASSUME NEW i \in DOMAIN e.folders PROVE e.folders[i] \in Folder
  <2>1. CASE i \in New
    <3>1. At(i) \in FolderPaths /\ Id(ParentOf(At(i))) \in 0..MaxFolders
      BY <1>3, <1>5, <1>6, <2>1, BoundsAssumption DEF FolderIds
    <3>2. QED
      BY <1>1, <2>1, <3>1 DEF Folder
  <2>2. CASE i \notin New
    BY <1>1, <1>8, <2>2 DEF RowsOK
  <2>3. QED
    BY <2>1, <2>2
<1>9. RowsOK(e)
  BY <1>1, <1>7, <1>8 DEF RowsOK
<1>10. FoldersAt(e, p) # {}
  <2>1. CASE p \in M
    <3>1. Id(p) \in New /\ At(Id(p)) = p
      BY <1>4, <2>1 DEF New
    <3>2. Id(p) \in DOMAIN e.folders /\ e.folders[Id(p)].path = p
      BY <1>1, <3>1
    <3>3. QED
      BY <3>2 DEF FoldersAt
  <2>2. CASE p \notin M
    <3>1. IsPrefix(p, p)
      BY PathFacts, PrefixSelf
    <3>2. PICK i \in DOMAIN d.folders : d.folders[i].path = p
      BY <2>2, <3>1 DEF MissingFolders, FoldersAt
    <3>3. i \notin New
      BY <1>3, <3>2 DEF FolderIds, RowsOK
    <3>4. QED
      BY <1>1, <3>2, <3>3 DEF FoldersAt
  <2>3. QED
    BY <2>1, <2>2
<1>11. TheFolder(e, p) \in FolderIds
  BY <1>7, <1>10, FolderFound
<1>12. /\ DOMAIN NextFolder(d, p) = {"image", "folder"}
       /\ NextFolder(d, p).image = next.image /\ NextFolder(d, p).folder \in Nat \ {0}
       /\ \A i \in DOMAIN e.folders : i < NextFolder(d, p).folder
  <2>1. IsFiniteSet(M)
    BY PathsAssumption, FS_Subset DEF MissingFolders
  <2>2. Cardinality(M) \in Nat
    BY <2>1, FS_CardinalityType
  <2>3. NextFolder(d, p).folder = next.folder + Cardinality(M)
    BY DEF NextFolder
  <2>4. \A i \in DOMAIN d.folders : i < next.folder + Cardinality(M)
    BY <2>2 DEF RowsOK, FolderIds
  <2>5. \A i \in DOMAIN e.folders : i < NextFolder(d, p).folder
    BY <1>1, <1>3, <2>3, <2>4
  <2>6. QED
    BY <2>2, <2>5 DEF NextFolder
<1>13. QED
  BY <1>1, <1>9, <1>11, <1>12 DEF e

\* An image is in a folder that has a row, and IDs are not used again.
Linked(d) == \A i \in DOMAIN d.images : d.images[i].folder \in DOMAIN d.folders

LEMMA CommitIsLinked ==
  ASSUME NEW w, CanCommit(w)
  PROVE  Linked(Apply(db, w))
BY DEF CanCommit, Sound, Linked

RowsInv ==
    /\ RowsOK(db) /\ Linked(db)
    /\ DOMAIN next = {"image", "folder"}
    /\ next.image \in Nat \ {0} /\ \A i \in DOMAIN db.images : i < next.image
    /\ next.folder \in Nat \ {0} /\ \A i \in DOMAIN db.folders : i < next.folder
    /\ cachedId \in [FilePaths -> 0..MaxImages]
    /\ tasks \subseteq FolderIds

\* What an operation knows at each of its steps.
Fields   == {"op", "pc", "path", "to", "id", "fid", "rec", "saw", "again", "pend"}
AtFile   == {"look", "gone", "have", "chain", "insert", "put", "write"}
AtFolder == {"folderlook", "foldergone", "folderhave"}
Moving   == {"mv_check", "mv_disk", "mv_record", "mv_commit", "mv_back"}

Shape(r) ==
    /\ DOMAIN r = Fields
    /\ r.id \in 0..MaxImages
    /\ \A u \in r.pend : GoodChange(u)
    /\ r.pc \in AtFile => r.path \in FilePaths
    /\ r.pc \in AtFolder => r.path \in FolderPaths
    /\ r.pc \in {"mvf_disk", "mvf_record"} =>
           r.path \in FolderPaths \ {Root} /\ r.to \in FolderPaths \ {Root}
    /\ r.pc \in {"rmf", "rmf_record"} => r.path \in FolderPaths \ {Root}
    /\ r.pc \in Moving => r.op = "movefile"
    /\ r.pc \in Moving \cup {"insert"} => r.fid \in FolderIds
    /\ r.op = "movefile" => r.to \in FilePaths /\ r.rec \in Image
    /\ r.pc = "mv_disk" => ~r.saw
    /\ r.pc = "write" => r.saw \in BOOLEAN

SessionsInv ==
    /\ DOMAIN act = Threads
    /\ \A a \in Threads : Shape(act[a])

DiskInv ==
    /\ dirs \subseteq FolderPaths /\ Root \in dirs
    /\ DOMAIN files \subseteq FilePaths
    /\ \A p \in DOMAIN files : files[p] \in Contents
    /\ Reachable(dirs, DOMAIN files)

HistoryInv == DOMAIN seen = {"stored", "removed", "raced", "late"}

LEMMA ChangeFacts ==
  /\ \A i, f, v : /\ SetImage(i, f, v)[1] = "i" /\ SetImage(i, f, v)[2] = i
                  /\ SetImage(i, f, v)[3] = f /\ SetImage(i, f, v)[4] = v
  /\ \A i, f, v : /\ SetFolder(i, f, v)[1] = "f" /\ SetFolder(i, f, v)[2] = i
                  /\ SetFolder(i, f, v)[3] = f /\ SetFolder(i, f, v)[4] = v
BY DEF SetImage, SetFolder

LEMMA GoodChanges ==
  /\ \A i : \A v \in Statuses :
         GoodChange(SetImage(i, "status", v)) /\ GoodChange(SetFolder(i, "status", v))
  /\ \A i : GoodChange(SetImage(i, "row", 0)) /\ GoodChange(SetFolder(i, "row", 0))
  /\ \A i : \A p \in FilePaths : GoodChange(SetImage(i, "src", p))
  /\ \A i : \A p \in FolderPaths : GoodChange(SetFolder(i, "path", p))
  /\ \A i : \A f \in FolderIds :
         GoodChange(SetImage(i, "folder", f)) /\ GoodChange(SetFolder(i, "parent", f))
BY ChangeFacts DEF GoodChange

LEMMA GoodSets ==
  /\ \A I : \A u \in PurgeImages(I) : GoodChange(u)
  /\ \A F : \A u \in PurgeFolders(F) : GoodChange(u)
  /\ \A F : \A u \in Undelete(F) : GoodChange(u)
  /\ \A d, i : \A u \in DeleteTree(d, i) : GoodChange(u)
  /\ \A d, i : \A u \in PurgeTree(d, i) : GoodChange(u)
<1>1. \A I : \A u \in PurgeImages(I) : GoodChange(u)
  BY GoodChanges DEF PurgeImages
<1>2. \A F : \A u \in PurgeFolders(F) : GoodChange(u)
  BY GoodChanges DEF PurgeFolders
<1>3. \A F : \A u \in Undelete(F) : GoodChange(u)
  BY GoodChanges DEF Undelete, Statuses
<1>4. \A d, i : \A u \in DeleteTree(d, i) : GoodChange(u)
  BY GoodChanges DEF DeleteTree, Statuses
<1>5. \A d, i : \A u \in PurgeTree(d, i) : GoodChange(u)
  BY <1>1, <1>2 DEF PurgeTree
<1>6. QED
  BY <1>1, <1>2, <1>3, <1>4, <1>5

LEMMA IdleShape == Shape(Idle)
BY BoundsAssumption DEF Shape, Idle, Fields, AtFile, AtFolder, Moving, NoId, FolderIds

LEMMA GoShape ==
  ASSUME SessionsInv, NEW a \in Threads, NEW r, Shape(r), Go(a, r)
  PROVE  SessionsInv'
BY DEF SessionsInv, Go

LEMMA EndShape ==
  ASSUME SessionsInv, NEW a \in Threads, End(a)
  PROVE  SessionsInv' /\ tasks' \subseteq tasks
BY IdleShape DEF SessionsInv, End

LEMMA ToCommitShape ==
  ASSUME SessionsInv, NEW a \in Threads, NEW r, DOMAIN r = Fields, r.id \in 0..MaxImages,
         r.op = "movefile" => r.to \in FilePaths /\ r.rec \in Image, \A u \in r.pend : GoodChange(u), ToCommit(a, r)
  PROVE  SessionsInv' /\ tasks' \subseteq tasks
<1>1. CASE r.pend = {}
  BY <1>1, EndShape DEF ToCommit
<1>2. CASE r.pend # {}
  <2> DEFINE s == [r EXCEPT !.pc = "commit"]
  <2>1. Go(a, s) /\ UNCHANGED tasks
    BY <1>2 DEF ToCommit
  <2>2. Shape(s)
    BY DEF Shape, Fields, AtFile, AtFolder, Moving
  <2> HIDE DEF s
  <2>3. QED
    BY <2>1, <2>2, GoShape
<1>3. QED
  BY <1>1, <1>2

LEMMA ViewType ==
  ASSUME RowsInv, SessionsInv, NEW a \in Threads
  PROVE  /\ RowsOK(View(a))
         /\ \A i \in DOMAIN View(a).images : i \in DOMAIN db.images
         /\ \A i \in DOMAIN View(a).folders : i \in DOMAIN db.folders /\ i < next.folder
<1>1. RowsOK(db) /\ \A u \in act[a].pend : GoodChange(u)
  BY DEF RowsInv, SessionsInv, Shape
<1>2. RowsOK(View(a))
  BY <1>1, ApplyType DEF View
<1>3. DOMAIN View(a).images \subseteq DOMAIN db.images
      /\ DOMAIN View(a).folders \subseteq DOMAIN db.folders
  BY DEF View, Apply
<1>4. QED
  BY <1>2, <1>3 DEF RowsInv

-----------------------------------------------------------------------------
(* What each step leaves of an operation. *)

LEMMA FileSteps ==
  ASSUME RowsInv, SessionsInv, NEW a \in Threads,
         \/ SyncFileLook(a) \/ SyncFileGone(a) \/ SyncFileHave(a)
         \/ CreateFolders(a) \/ InsertImage(a) \/ PutId(a)
  PROVE  SessionsInv'
<1> USE DEF Shape, Fields, AtFile, AtFolder, Moving
<1>0. Shape(act[a])
  BY DEF SessionsInv
<1>1. CASE SyncFileLook(a)
  <2> DEFINE r == [act[a] EXCEPT !.pc = IF act[a].path \in DOMAIN files THEN "have" ELSE "gone"]
  <2>1. Go(a, r)
    BY <1>1 DEF SyncFileLook, Goto
  <2>2. Shape(r)
    BY <1>0, <1>1 DEF SyncFileLook
  <2> HIDE DEF r
  <2>3. QED
    BY <2>1, <2>2, GoShape
<1>2. CASE SyncFileGone(a)
  <2> DEFINE p == act[a].path
             I == {i \in ImagesAt(db, p) : db.images[i].status = "active"}
             F == {db.images[i].folder : i \in I}
             w == {SetImage(i, "status", "deleted") : i \in I}
             r == [act[a] EXCEPT !.pc = "folderlook", !.pend = w,
                       !.path = db.folders[CHOOSE f \in F : TRUE].path]
             s == [act[a] EXCEPT !.pend = w]
  <2>1. \A u \in w : GoodChange(u)
    BY GoodChanges DEF Statuses
  <2>2. CASE (\E f \in F : db.folders[f].status = "active") /\ Go(a, r)
    <3>1. (CHOOSE f \in F : TRUE) \in F
      BY <2>2
    <3>2. F \subseteq DOMAIN db.folders
      BY DEF ImagesAt, RowsInv, Linked
    <3>3. db.folders[CHOOSE f \in F : TRUE].path \in FolderPaths
      BY <3>1, <3>2 DEF RowsInv, RowsOK, Folder
    <3> HIDE DEF w, F
    <3>4. Shape(r)
      BY <1>0, <1>2, <2>1, <3>3 DEF SyncFileGone
    <3> HIDE DEF r
    <3>5. QED
      BY <2>2, <3>4, GoShape
  <2>3. CASE ToCommit(a, s)
    <3> HIDE DEF w
    <3>1. /\ DOMAIN s = Fields /\ s.id \in 0..MaxImages /\ s.pend = w
          /\ s.op = "movefile" => s.to \in FilePaths /\ s.rec \in Image
      BY <1>0
    <3> HIDE DEF s
    <3>2. QED
      BY <2>1, <2>3, <3>1, ToCommitShape
  <2>4. QED
    BY <1>2, <2>2, <2>3 DEF SyncFileGone
<1>3. CASE SyncFileHave(a)
  <2> DEFINE p == act[a].path
             I == ImagesAt(db, p)
             i == TheImage(db, p)
             F == DeletedRun(db, db.images[i].folder)
             r == [act[a] EXCEPT !.pc = "chain"]
             s == [act[a] EXCEPT !.pc = "put", !.id = i]
             w == {SetImage(i, "status", "active")} \cup Undelete(F)
             t == [act[a] EXCEPT !.pc = "commit", !.pend = w]
  <2>1. p \in FilePaths
    BY <1>0, <1>3 DEF SyncFileHave
  <2>2. ASSUME I # {} PROVE i \in 0..MaxImages
    BY <2>2, ImageFound DEF ImagesAt, RowsInv, RowsOK, ImageIds
  <2>3. \A u \in w : GoodChange(u)
    BY GoodChanges, GoodSets DEF Statuses
  <2>4. \/ Go(a, r)
        \/ I # {} /\ Go(a, s)
        \/ Go(a, t)
        \/ End(a)
    BY <1>3 DEF SyncFileHave, Goto
  <2> HIDE DEF p, I, i, w
  <2>5. Shape(r)
    BY <1>0, <2>1 DEF p
  <2>6. ASSUME I # {} PROVE Shape(s)
    BY <1>0, <2>1, <2>2, <2>6 DEF p
  <2>7. Shape(t)
    BY <1>0, <2>3
  <2> HIDE DEF r, s, t
  <2>8. QED
    BY <2>4, <2>5, <2>6, <2>7, GoShape, EndShape
<1>4. CASE CreateFolders(a)
  <2> DEFINE p == ParentOf(act[a].path)
             f == TheFolder(WithFolders(db, p), p)
             r == [act[a] EXCEPT !.pc = "insert", !.fid = f]
  <2>1. act[a].path \in FilePaths
    BY <1>0, <1>4 DEF CreateFolders
  <2>2. p \in FolderPaths
    BY <2>1, PathFacts
  <2>3. HaveFolderIds(db, p) /\ Go(a, r)
    BY <1>4 DEF CreateFolders
  <2>4. f \in FolderIds
    BY <2>2, <2>3, WithFoldersType DEF RowsInv
  <2> HIDE DEF p, f
  <2>5. Shape(r)
    BY <1>0, <2>1, <2>4
  <2> HIDE DEF r
  <2>6. QED
    BY <2>3, <2>5, GoShape
<1>5. CASE InsertImage(a)
  <2> DEFINE r == [act[a] EXCEPT !.pc = "put", !.id = next.image]
             s == [act[a] EXCEPT !.pc = "have", !.again = TRUE]
  <2>1. act[a].path \in FilePaths
    BY <1>0, <1>5 DEF InsertImage
  <2>2. (next.image <= MaxImages /\ Go(a, r)) \/ Go(a, s) \/ End(a)
    BY <1>5 DEF InsertImage
  <2>3. ASSUME next.image <= MaxImages PROVE Shape(r)
    <3>1. next.image \in 0..MaxImages
      BY <2>3, BoundsAssumption DEF RowsInv
    <3>2. QED
      BY <1>0, <2>1, <3>1
  <2>4. Shape(s)
    BY <1>0, <2>1
  <2> HIDE DEF r, s
  <2>5. QED
    BY <2>2, <2>3, <2>4, GoShape, EndShape
<1>6. CASE PutId(a)
  BY <1>6, EndShape DEF PutId
<1>7. QED
  BY <1>1, <1>2, <1>3, <1>4, <1>5, <1>6

LEMMA FolderSteps ==
  ASSUME RowsInv, SessionsInv, NEW a \in Threads,
         FolderLook(a) \/ FolderGone(a) \/ FolderHave(a) \/ Commit(a) \/ DataDelete(a)
  PROVE  SessionsInv'
<1> USE DEF Shape, Fields, AtFile, AtFolder, Moving
<1>0. Shape(act[a])
  BY DEF SessionsInv
<1>1. CASE FolderLook(a)
  <2> DEFINE r == [act[a] EXCEPT !.pc =
                       IF act[a].path \in dirs THEN "folderhave" ELSE "foldergone"]
  <2>1. Go(a, r)
    BY <1>1 DEF FolderLook, Goto
  <2>2. Shape(r)
    BY <1>0, <1>1 DEF FolderLook
  <2> HIDE DEF r
  <2>3. QED
    BY <2>1, <2>2, GoShape
<1>2. CASE FolderGone(a)
  <2> DEFINE v == View(a)
             F == {f \in FoldersAt(v, act[a].path) : v.folders[f].status = "active"}
             w == act[a].pend \cup {SetFolder(f, "status", "deleted") : f \in F}
             r == [act[a] EXCEPT !.pc = "commit", !.pend = w]
  <2>1. Go(a, r) \/ End(a)
    BY <1>2 DEF FolderGone
  <2>2. \A u \in w : GoodChange(u)
    BY <1>0, GoodChanges DEF Statuses
  <2> HIDE DEF w
  <2>3. Shape(r)
    BY <1>0, <2>2
  <2> HIDE DEF r
  <2>4. QED
    BY <2>1, <2>3, GoShape, EndShape
<1>3. CASE FolderHave(a)
  <2> DEFINE p == act[a].path
             v == View(a)
             f == TheFolder(v, p)
             g == TheFolder(WithFolders(v, p), p)
             w == act[a].pend \cup Undelete(DeletedRun(v, f))
             r == [act[a] EXCEPT !.pend = {}, !.fid = g]
             s == [act[a] EXCEPT !.fid = f, !.pend = w]
             Then(q) == IF q.op = "movefile" THEN Go(a, [q EXCEPT !.pc = "mv_check"])
                                             ELSE ToCommit(a, q)
  <2>1. p \in FolderPaths
    BY <1>0, <1>3 DEF FolderHave
  <2>2. ASSUME NEW q, DOMAIN q = Fields, q.id \in 0..MaxImages, q.fid \in FolderIds,
               q.op = "movefile" => q.to \in FilePaths /\ q.rec \in Image,
               \A u \in q.pend : GoodChange(u), Then(q)
        PROVE  SessionsInv'
    <3> DEFINE t == [q EXCEPT !.pc = "mv_check"]
    <3>1. CASE q.op = "movefile"
      <4>1. Go(a, t)
        BY <2>2, <3>1
      <4>2. Shape(t)
        BY <2>2, <3>1
      <4> HIDE DEF t
      <4>3. QED
        BY <4>1, <4>2, GoShape
    <3>2. CASE q.op # "movefile"
      <4>1. ToCommit(a, q)
        BY <2>2, <3>2
      <4>2. QED
        BY <2>2, <4>1, ToCommitShape
    <3>3. QED
      BY <3>1, <3>2
  <2>3. \/ HaveFolderIds(v, p) /\ Then(r)
        \/ MissingFolders(v, p) = {} /\ Then(s)
        \/ End(a)
    BY <1>3 DEF FolderHave
  <2>4. RowsOK(v) /\ \A i \in DOMAIN v.folders : i < next.folder
    BY ViewType
  <2> HIDE DEF p, v, w, f, g, Then
  <2>5. CASE HaveFolderIds(v, p) /\ Then(r)
    <3>1. g \in FolderIds
      BY <2>1, <2>4, <2>5, WithFoldersType DEF RowsInv, g
    <3>2. /\ DOMAIN r = Fields /\ r.id \in 0..MaxImages /\ r.fid \in FolderIds
          /\ r.op = "movefile" => r.to \in FilePaths /\ r.rec \in Image
          /\ \A u \in r.pend : GoodChange(u)
      BY <1>0, <3>1
    <3> HIDE DEF r
    <3>3. QED
      BY <2>2, <2>5, <3>2
  <2>6. CASE MissingFolders(v, p) = {} /\ Then(s)
    <3>1. f \in FolderIds
      BY <2>1, <2>4, <2>6, NothingMissing DEF RowsOK, f
    <3>2. \A u \in w : GoodChange(u)
      BY <1>0, GoodSets DEF w
    <3>3. /\ DOMAIN s = Fields /\ s.id \in 0..MaxImages /\ s.fid \in FolderIds
          /\ s.op = "movefile" => s.to \in FilePaths /\ s.rec \in Image
          /\ \A u \in s.pend : GoodChange(u)
      BY <1>0, <3>1, <3>2
    <3> HIDE DEF s
    <3>4. QED
      BY <2>2, <2>6, <3>3
  <2>7. QED
    BY <2>3, <2>5, <2>6, EndShape
<1>4. CASE Commit(a)
  BY <1>4, EndShape DEF Commit
<1>5. CASE DataDelete(a)
  <2> DEFINE w == DeleteTree(db, act[a].fid)
             r == [act[a] EXCEPT !.pc = "commit", !.pend = w]
  <2>1. Go(a, r) \/ End(a)
    BY <1>5 DEF DataDelete
  <2>2. \A u \in w : GoodChange(u)
    BY GoodSets
  <2> HIDE DEF w
  <2>3. Shape(r)
    BY <1>0, <2>2
  <2> HIDE DEF r
  <2>4. QED
    BY <2>1, <2>3, GoShape, EndShape
<1>6. QED
  BY <1>1, <1>2, <1>3, <1>4, <1>5

LEMMA MoveFileSteps ==
  ASSUME RowsInv, SessionsInv, NEW a \in Threads,
         \/ MoveFileCheck(a) \/ MoveFileDisk(a) \/ MoveFileRecord(a)
         \/ MoveFileCommit(a) \/ MoveFileBack(a)
  PROVE  SessionsInv'
<1> USE DEF Shape, Fields, AtFile, AtFolder, Moving
<1>0. Shape(act[a])
  BY DEF SessionsInv
<1>1. CASE MoveFileCheck(a)
  <2> DEFINE w == act[a].pend \cup PurgeImages(ImagesAt(View(a), act[a].to))
             b == act[a].to \in DOMAIN files
             r == [act[a] EXCEPT !.pc = "mv_disk", !.saw = b, !.pend = w]
  <2>1. (~b /\ Go(a, r)) \/ End(a)
    BY <1>1 DEF MoveFileCheck
  <2>2. \A u \in w : GoodChange(u)
    BY <1>0, GoodSets
  <2> HIDE DEF w
  <2>3. act[a].pc = "mv_check"
    BY <1>1 DEF MoveFileCheck
  <2>4. ASSUME ~b PROVE Shape(r)
    BY <1>0, <2>2, <2>3, <2>4
  <2> HIDE DEF r, b
  <2>5. QED
    BY <2>1, <2>4, GoShape, EndShape
<1>2. CASE MoveFileDisk(a)
  <2> DEFINE r == [act[a] EXCEPT !.pc = "mv_record"]
  <2>1. Go(a, r) \/ End(a)
    BY <1>2 DEF MoveFileDisk, Goto
  <2>2. Shape(r)
    BY <1>0, <1>2 DEF MoveFileDisk
  <2> HIDE DEF r
  <2>3. QED
    BY <2>1, <2>2, GoShape, EndShape
<1>3. CASE MoveFileRecord(a)
  <2> DEFINE i == act[a].id
             w == act[a].pend \cup
                      {SetImage(i, "src", act[a].to), SetImage(i, "folder", act[a].fid)} \cup
                      (IF act[a].rec.status = "active" THEN {}
                       ELSE {SetImage(i, "status", "active")})
             r == [act[a] EXCEPT !.pc = "mv_commit", !.pend = w]
  <2>1. Go(a, r)
    BY <1>3 DEF MoveFileRecord
  <2>2. act[a].pc = "mv_record"
    BY <1>3 DEF MoveFileRecord
  <2>3. act[a].to \in FilePaths /\ act[a].fid \in FolderIds
    BY <1>0, <2>2
  <2>4. \A u \in w : GoodChange(u)
    BY <1>0, <2>3, GoodChanges DEF Statuses
  <2> HIDE DEF w
  <2>5. Shape(r)
    BY <1>0, <2>2, <2>4
  <2> HIDE DEF r
  <2>6. QED
    BY <2>1, <2>5, GoShape
<1>4. CASE MoveFileCommit(a)
  <2> DEFINE r == [act[a] EXCEPT !.pc = "mv_back"]
  <2>1. Go(a, r) \/ End(a)
    BY <1>4 DEF MoveFileCommit, Goto
  <2>2. Shape(r)
    BY <1>0, <1>4 DEF MoveFileCommit
  <2> HIDE DEF r
  <2>3. QED
    BY <2>1, <2>2, GoShape, EndShape
<1>5. CASE MoveFileBack(a)
  BY <1>5, EndShape DEF MoveFileBack
<1>6. QED
  BY <1>1, <1>2, <1>3, <1>4, <1>5

LEMMA OtherSteps ==
  ASSUME RowsInv, SessionsInv, NEW a \in Threads,
         \/ DeleteFileDisk(a) \/ DeleteFileRecord(a) \/ UploadWrite(a)
         \/ MoveFolderDisk(a) \/ MoveFolderRecord(a)
         \/ DeleteFolderDisk(a) \/ DeleteFolderRecord(a)
  PROVE  SessionsInv'
<1> USE DEF Shape, Fields, AtFile, AtFolder, Moving
<1>0. Shape(act[a])
  BY DEF SessionsInv
<1>1. CASE DeleteFileDisk(a)
  <2> DEFINE r == [act[a] EXCEPT !.pc = "rm_record"]
  <2>1. Go(a, r)
    BY <1>1 DEF DeleteFileDisk, Goto
  <2>2. Shape(r)
    BY <1>0
  <2> HIDE DEF r
  <2>3. QED
    BY <2>1, <2>2, GoShape
<1>2. CASE DeleteFileRecord(a)
  <2> DEFINE w == IF act[a].rec.status = "active"
                  THEN {SetImage(act[a].id, "status", "deleted")} ELSE {}
             r == [act[a] EXCEPT !.pend = w]
  <2>1. ToCommit(a, r)
    BY <1>2 DEF DeleteFileRecord
  <2>2. \A u \in w : GoodChange(u)
    BY GoodChanges DEF Statuses
  <2> HIDE DEF w
  <2>3. /\ DOMAIN r = Fields /\ r.id \in 0..MaxImages /\ r.pend = w
        /\ r.op = "movefile" => r.to \in FilePaths /\ r.rec \in Image
    BY <1>0
  <2> HIDE DEF r
  <2>4. QED
    BY <2>1, <2>2, <2>3, ToCommitShape
<1>3. CASE UploadWrite(a)
  <2> DEFINE r == [act[a] EXCEPT !.pc = "look"]
  <2>1. Go(a, r) \/ End(a)
    BY <1>3 DEF UploadWrite, Goto
  <2>2. Shape(r)
    BY <1>0, <1>3 DEF UploadWrite
  <2> HIDE DEF r
  <2>3. QED
    BY <2>1, <2>2, GoShape, EndShape
<1>4. CASE MoveFolderDisk(a)
  <2> DEFINE r == [act[a] EXCEPT !.pc = "mvf_record"]
  <2>1. Go(a, r) \/ End(a)
    BY <1>4 DEF MoveFolderDisk, Goto
  <2>2. Shape(r)
    BY <1>0, <1>4 DEF MoveFolderDisk
  <2> HIDE DEF r
  <2>3. QED
    BY <2>1, <2>2, GoShape, EndShape
<1>5. CASE MoveFolderRecord(a)
  <2> DEFINE from == act[a].path
             to   == act[a].to
             i    == act[a].fid
             v    == View(a)
             F    == WholeTree(v, i)
             I    == ImagesIn(v, F)
             Fits(p, S) == IsPrefix(from, p) /\ Rebase(p, from, to) \in S
             ok   == /\ i \in DOMAIN v.folders
                     /\ \A j \in F \ {i} : Fits(v.folders[j].path, FolderPaths)
                     /\ \A k \in I : Fits(v.images[k].src, FilePaths)
             w    == act[a].pend \cup
                     {SetFolder(i, "path", to),
                      SetFolder(i, "parent", TheFolder(v, ParentOf(to)))} \cup
                     {SetFolder(j, "path", Rebase(v.folders[j].path, from, to)) : j \in F \ {i}} \cup
                     {SetImage(k, "src", Rebase(v.images[k].src, from, to)) : k \in I}
             r == [act[a] EXCEPT !.pend = {}]
             s == [act[a] EXCEPT !.pc = "commit", !.pend = w]
  <2>1. \/ Go(a, r)
        \/ MissingFolders(v, ParentOf(to)) = {} /\ ok /\ Go(a, s)
        \/ End(a)
    BY <1>5 DEF MoveFolderRecord
  <2>2. act[a].pc = "mvf_record"
    BY <1>5 DEF MoveFolderRecord
  <2>3. Shape(r)
    BY <1>0, <2>2
  <2>4. ASSUME MissingFolders(v, ParentOf(to)) = {}, ok PROVE Shape(s)
    <3>1. to \in FolderPaths
      BY <1>0, <2>2
    <3>2. TheFolder(v, ParentOf(to)) \in FolderIds
      <4>1. ParentOf(to) \in FolderPaths /\ RowsOK(v)
        BY <3>1, PathFacts, ViewType
      <4> HIDE DEF v
      <4>2. QED
        BY <2>4, <4>1, NothingMissing DEF RowsOK
    <3>3. /\ \A j \in F \ {i} : Rebase(v.folders[j].path, from, to) \in FolderPaths
          /\ \A k \in I : Rebase(v.images[k].src, from, to) \in FilePaths
      BY <2>4
    <3>4. \A u \in act[a].pend : GoodChange(u)
      BY <1>0
    <3> HIDE DEF F, I, v
    <3>5. \A u \in w : GoodChange(u)
      BY <3>1, <3>2, <3>3, <3>4, GoodChanges
    <3> HIDE DEF w
    <3>6. QED
      BY <1>0, <3>5
  <2> HIDE DEF r, s, ok
  <2>5. QED
    BY <2>1, <2>3, <2>4, GoShape, EndShape
<1>6. CASE DeleteFolderDisk(a)
  <2> DEFINE r == [act[a] EXCEPT !.pc = "rmf_record"]
  <2>1. Go(a, r)
    BY <1>6 DEF DeleteFolderDisk, Goto
  <2>2. Shape(r)
    BY <1>0, <1>6 DEF DeleteFolderDisk
  <2> HIDE DEF r
  <2>3. QED
    BY <2>1, <2>2, GoShape
<1>7. CASE DeleteFolderRecord(a)
  <2> DEFINE i == act[a].fid
             w == IF act[a].saw /\ i \in DOMAIN db.folders THEN DeleteTree(db, i) ELSE {}
             r == [act[a] EXCEPT !.pend = w]
  <2>1. ToCommit(a, r)
    BY <1>7 DEF DeleteFolderRecord
  <2>2. \A u \in w : GoodChange(u)
    BY GoodSets
  <2> HIDE DEF w
  <2>3. /\ DOMAIN r = Fields /\ r.id \in 0..MaxImages /\ r.pend = w
        /\ r.op = "movefile" => r.to \in FilePaths /\ r.rec \in Image
    BY <1>0
  <2> HIDE DEF r
  <2>4. QED
    BY <2>1, <2>2, <2>3, ToCommitShape
<1>8. QED
  BY <1>1, <1>2, <1>3, <1>4, <1>5, <1>6, <1>7

LEMMA Beginnings ==
  ASSUME RowsInv, SessionsInv, DiskInv, NEW a \in Threads,
         \/ \E p \in FilePaths : Lookup(a, p)
         \/ \E i \in 1..MaxImages, p \in FilePaths : MoveFile(a, i, p)
         \/ \E i \in 1..MaxImages : DeleteFile(a, i)
         \/ \E p \in FilePaths, o \in BOOLEAN : Upload(a, p, o)
         \/ \E p \in FolderPaths : CreateFolder(a, p)
         \/ \E i \in 1..MaxFolders, p \in FolderPaths : MoveFolder(a, i, p)
         \/ \E i \in 1..MaxFolders : DeleteFolder(a, i)
         \/ \E i \in 1..MaxFolders : Purge(a, i)
  PROVE  SessionsInv'
<1> USE DEF Shape, Fields, AtFile, AtFolder, Moving
<1>0. Shape(act[a])
  BY DEF SessionsInv
<1>1. ASSUME NEW p \in FilePaths, Lookup(a, p) PROVE SessionsInv'
  <2> DEFINE r == [act[a] EXCEPT !.op = "lookup", !.path = p, !.pc = "have"]
  <2>1. Go(a, r)
    BY <1>1 DEF Lookup, LookupStart
  <2>2. Shape(r)
    BY <1>0
  <2> HIDE DEF r
  <2>3. QED
    BY <2>1, <2>2, GoShape
<1>2. ASSUME NEW i \in 1..MaxImages, NEW p \in FilePaths, MoveFile(a, i, p) PROVE SessionsInv'
  <2> DEFINE r == [act[a] EXCEPT !.op = "movefile", !.pc = "folderhave", !.id = i,
                       !.rec = db.images[i], !.to = p, !.path = ParentOf(p)]
  <2>1. Go(a, r) /\ i \in DOMAIN db.images
    BY <1>2 DEF MoveFile, MoveFileStart
  <2>2. db.images[i] \in Image /\ ParentOf(p) \in FolderPaths /\ i \in 0..MaxImages
    BY <2>1, PathFacts, BoundsAssumption DEF RowsInv, RowsOK
  <2>3. Shape(r)
    BY <1>0, <2>2
  <2> HIDE DEF r
  <2>4. QED
    BY <2>1, <2>3, GoShape
<1>3. ASSUME NEW i \in 1..MaxImages, DeleteFile(a, i) PROVE SessionsInv'
  <2> DEFINE r == [act[a] EXCEPT !.op = "delete", !.pc = "rm", !.id = i, !.rec = db.images[i]]
  <2>1. Go(a, r)
    BY <1>3 DEF DeleteFile, DeleteFileStart
  <2>2. i \in 0..MaxImages
    BY BoundsAssumption
  <2>3. Shape(r)
    BY <1>0, <2>2
  <2> HIDE DEF r
  <2>4. QED
    BY <2>1, <2>3, GoShape
<1>4. ASSUME NEW p \in FilePaths, NEW o \in BOOLEAN, Upload(a, p, o) PROVE SessionsInv'
  <2> DEFINE r == [act[a] EXCEPT !.op = "upload", !.pc = "write", !.path = p, !.saw = o]
  <2>1. Go(a, r)
    BY <1>4 DEF Upload, UploadStart
  <2>2. Shape(r)
    BY <1>0
  <2> HIDE DEF r
  <2>3. QED
    BY <2>1, <2>2, GoShape
<1>5. ASSUME NEW p \in FolderPaths, CreateFolder(a, p) PROVE SessionsInv'
  <2> DEFINE r == [act[a] EXCEPT !.op = "create", !.pc = "folderhave", !.path = p]
  <2>1. Go(a, r)
    BY <1>5 DEF CreateFolder, CreateFolderStart
  <2>2. Shape(r)
    BY <1>0
  <2> HIDE DEF r
  <2>3. QED
    BY <2>1, <2>2, GoShape
<1>6. ASSUME NEW i \in 1..MaxFolders, NEW to \in FolderPaths, MoveFolder(a, i, to)
      PROVE  SessionsInv'
  <2> DEFINE from == db.folders[i].path
             w == IF FoldersAt(db, to) = {} THEN {} ELSE PurgeTree(db, TheFolder(db, to))
             r == [act[a] EXCEPT !.op = "movefolder", !.pc = "mvf_disk", !.fid = i,
                            !.path = from, !.to = to, !.pend = w]
  <2>1. Go(a, r) /\ i \in DOMAIN db.folders /\ from # Root /\ to \notin dirs
    BY <1>6 DEF MoveFolder, MoveFolderStart
  <2>2. from \in FolderPaths \ {Root} /\ to \in FolderPaths \ {Root}
    BY <2>1 DEF RowsInv, RowsOK, Folder, DiskInv
  <2>3. \A u \in w : GoodChange(u)
    BY GoodSets
  <2> HIDE DEF w, from
  <2>4. Shape(r)
    BY <1>0, <2>2, <2>3
  <2> HIDE DEF r
  <2>5. QED
    BY <2>1, <2>4, GoShape
<1>7. ASSUME NEW i \in 1..MaxFolders, DeleteFolder(a, i) PROVE SessionsInv'
  <2> DEFINE b == db.folders[i].status = "active"
             r == [act[a] EXCEPT !.op = "deletefolder", !.pc = "rmf", !.fid = i,
                       !.path = db.folders[i].path, !.saw = b]
  <2>1. Go(a, r) /\ i \in DOMAIN db.folders /\ db.folders[i].path # Root
    BY <1>7 DEF DeleteFolder, DeleteFolderStart
  <2>2. db.folders[i].path \in FolderPaths \ {Root}
    BY <2>1 DEF RowsInv, RowsOK, Folder
  <2> HIDE DEF b
  <2>3. Shape(r)
    BY <1>0, <2>2
  <2> HIDE DEF r
  <2>4. QED
    BY <2>1, <2>3, GoShape
<1>8. ASSUME NEW i \in 1..MaxFolders, Purge(a, i) PROVE SessionsInv'
  <2> DEFINE w == PurgeImages(DeletedImages(db, i)) \cup PurgeFolders(EmptiedFolders(db, i))
             r == [act[a] EXCEPT !.op = "purge", !.pc = "commit", !.pend = w]
  <2>1. Go(a, r)
    BY <1>8 DEF Purge, PurgeStart
  <2>2. \A u \in w : GoodChange(u)
    BY GoodSets
  <2> HIDE DEF w
  <2>3. Shape(r)
    BY <1>0, <2>2
  <2> HIDE DEF r
  <2>4. QED
    BY <2>1, <2>3, GoShape
<1>9. QED
  BY <1>1, <1>2, <1>3, <1>4, <1>5, <1>6, <1>7, <1>8

LEMMA SessionsStep ==
  ASSUME RowsInv, SessionsInv, DiskInv, [Next]_vars
  PROVE  SessionsInv'
<1>1. ASSUME NEW a \in Threads, NEW p \in (FolderPaths \cup FilePaths) \ {Root}, Visit(a, p)
      PROVE  SessionsInv'
  <2>1. Shape(act[a])
    BY DEF SessionsInv
  <2> DEFINE r == [act[a] EXCEPT !.op = "sync", !.path = p, !.pc = "look"]
             s == [act[a] EXCEPT !.op = "sync", !.path = p, !.pc = "folderlook"]
  <2>2. Go(a, Sync(a, p)) /\ Sync(a, p) = IF p \in FilePaths THEN r ELSE s
    BY <1>1 DEF Visit, Sync
  <2>3. ASSUME p \in FilePaths PROVE Shape(r)
    BY <2>1, <2>3 DEF Shape, Fields, AtFile, AtFolder, Moving
  <2>4. ASSUME p \in FolderPaths PROVE Shape(s)
    BY <2>1, <2>4 DEF Shape, Fields, AtFile, AtFolder, Moving
  <2> HIDE DEF r, s
  <2>5. QED
    BY <2>2, <2>3, <2>4, GoShape
<1>2. ASSUME NEW a \in Threads, Step(a) PROVE SessionsInv'
  BY <1>2, FileSteps, FolderSteps, MoveFileSteps, OtherSteps DEF Step
<1>3. ASSUME NEW a \in Threads, Start(a) PROVE SessionsInv'
  BY <1>3, Beginnings DEF Start
<1>4. ASSUME NEW a \in Threads, NEW f \in tasks, DeleteData(a, f) PROVE SessionsInv'
  <2> DEFINE r == [act[a] EXCEPT !.op = "data", !.fid = f, !.pc = "data"]
  <2>1. Go(a, r)
    BY <1>4 DEF DeleteData, DataStart
  <2>2. Shape(r)
    BY DEF SessionsInv, Shape, Fields, AtFile, AtFolder, Moving
  <2> HIDE DEF r
  <2>3. QED
    BY <2>1, <2>2, GoShape
<1>5. CASE Refuse
  BY <1>5 DEF Refuse, DataRefused, SessionsInv
<1>6. CASE Outside
  BY <1>6 DEF Outside, SessionsInv
<1>7. CASE UNCHANGED vars
  BY <1>7 DEF vars, SessionsInv
<1>8. QED
  BY <1>1, <1>2, <1>3, <1>4, <1>5, <1>6, <1>7 DEF Next

-----------------------------------------------------------------------------
(* What each step leaves of the disk and of the files' history. *)

FatesStay ==
    /\ DOMAIN seen' = {"stored", "removed", "raced", "late"}
    /\ seen'.stored = seen.stored /\ seen'.removed = seen.removed /\ seen'.raced = seen.raced
DiskStays == UNCHANGED disk /\ FatesStay

LEMMA UncacheFates ==
  ASSUME HistoryInv, (\E P : Uncache(P)) \/ (\E a : UncacheLoaded(a)) \/ UNCHANGED seen
  PROVE  FatesStay
BY DEF HistoryInv, FatesStay, Uncache, UncacheLoaded

LEMMA StepsWithoutTheDisk ==
  ASSUME HistoryInv, NEW a \in Threads,
         \/ SyncFileLook(a) \/ SyncFileGone(a) \/ SyncFileHave(a)
         \/ CreateFolders(a) \/ InsertImage(a) \/ PutId(a)
         \/ FolderLook(a) \/ FolderGone(a) \/ FolderHave(a)
         \/ Commit(a) \/ DataDelete(a)
         \/ MoveFileCheck(a) \/ MoveFileRecord(a) \/ MoveFileCommit(a)
         \/ DeleteFileRecord(a) \/ MoveFolderRecord(a) \/ DeleteFolderRecord(a)
  PROVE  DiskStays
<1>1. CASE SyncFileLook(a)
  BY <1>1, UncacheFates DEF SyncFileLook, DiskStays
<1>2. CASE SyncFileGone(a)
  <2>1. UNCHANGED disk /\ \E P : Uncache(P)
    BY <1>2 DEF SyncFileGone
  <2>2. QED
    BY <2>1, UncacheFates DEF DiskStays
<1>3. CASE SyncFileHave(a)
  BY <1>3, UncacheFates DEF SyncFileHave, DiskStays
<1>4. CASE CreateFolders(a)
  BY <1>4, UncacheFates DEF CreateFolders, DiskStays
<1>5. CASE InsertImage(a)
  BY <1>5, UncacheFates DEF InsertImage, DiskStays
<1>6. CASE PutId(a)
  <2>1. UNCHANGED disk /\ \E L : seen' = [seen EXCEPT !.late = L]
    BY <1>6 DEF PutId
  <2>2. QED
    BY <2>1 DEF DiskStays, FatesStay, HistoryInv
<1>7. CASE FolderLook(a)
  BY <1>7, UncacheFates DEF FolderLook, DiskStays
<1>8. CASE FolderGone(a)
  BY <1>8, UncacheFates DEF FolderGone, DiskStays
<1>9. CASE FolderHave(a)
  BY <1>9, UncacheFates DEF FolderHave, DiskStays
<1>10. CASE Commit(a)
  BY <1>10, UncacheFates DEF Commit, DiskStays
<1>11. CASE DataDelete(a)
  <2>1. UNCHANGED disk /\ ((\E P : Uncache(P)) \/ UNCHANGED seen)
    BY <1>11 DEF DataDelete
  <2>2. QED
    BY <2>1, UncacheFates DEF DiskStays
<1>12. CASE MoveFileCheck(a)
  <2>1. UNCHANGED disk /\ ((\E P : Uncache(P)) \/ UNCHANGED seen)
    BY <1>12 DEF MoveFileCheck
  <2>2. QED
    BY <2>1, UncacheFates DEF DiskStays
<1>13. CASE MoveFileRecord(a)
  <2>1. UNCHANGED disk /\ UncacheLoaded(a)
    BY <1>13 DEF MoveFileRecord
  <2>2. QED
    BY <2>1, UncacheFates DEF DiskStays
<1>14. CASE MoveFileCommit(a)
  BY <1>14, UncacheFates DEF MoveFileCommit, DiskStays
<1>15. CASE DeleteFileRecord(a)
  <2>1. UNCHANGED disk /\ (UncacheLoaded(a) \/ UNCHANGED seen)
    BY <1>15 DEF DeleteFileRecord
  <2>2. QED
    BY <2>1, UncacheFates DEF DiskStays
<1>16. CASE MoveFolderRecord(a)
  <2>1. UNCHANGED disk /\ ((\E P : Uncache(P)) \/ UNCHANGED seen)
    BY <1>16 DEF MoveFolderRecord
  <2>2. QED
    BY <2>1, UncacheFates DEF DiskStays
<1>17. CASE DeleteFolderRecord(a)
  <2>1. UNCHANGED disk /\ \E P : Uncache(P)
    BY <1>17 DEF DeleteFolderRecord
  <2>2. QED
    BY <2>1, UncacheFates DEF DiskStays
<1>18. QED
  BY <1>1, <1>2, <1>3, <1>4, <1>5, <1>6, <1>7, <1>8, <1>9, <1>10, <1>11, <1>12, <1>13, <1>14,
     <1>15, <1>16, <1>17

LEMMA BeginningsWithoutTheDisk ==
  ASSUME HistoryInv, NEW a \in Threads,
         \/ \E p : Lookup(a, p)
         \/ \E i, p : MoveFile(a, i, p)
         \/ \E i : DeleteFile(a, i)
         \/ \E i, p : MoveFolder(a, i, p)
         \/ \E i : DeleteFolder(a, i)
         \/ \E i : Purge(a, i)
         \/ \E f : DeleteData(a, f)
         \/ \E p : Visit(a, p)
         \/ Refuse
  PROVE  DiskStays
<1>1. ASSUME NEW p, Lookup(a, p) PROVE DiskStays
  BY <1>1, UncacheFates DEF Lookup, DiskStays
<1>2. ASSUME NEW i, NEW p, MoveFile(a, i, p) PROVE DiskStays
  BY <1>2, UncacheFates DEF MoveFile, DiskStays
<1>3. ASSUME NEW i, DeleteFile(a, i) PROVE DiskStays
  BY <1>3, UncacheFates DEF DeleteFile, DiskStays
<1>4. ASSUME NEW i, NEW p, MoveFolder(a, i, p) PROVE DiskStays
  <2>1. UNCHANGED disk /\ \E P : Uncache(P)
    BY <1>4 DEF MoveFolder, MoveFolderStart
  <2>2. QED
    BY <2>1, UncacheFates DEF DiskStays
<1>5. ASSUME NEW i, DeleteFolder(a, i) PROVE DiskStays
  BY <1>5, UncacheFates DEF DeleteFolder, DiskStays
<1>6. ASSUME NEW i, Purge(a, i) PROVE DiskStays
  <2>1. UNCHANGED disk /\ \E P : Uncache(P)
    BY <1>6 DEF Purge, PurgeStart
  <2>2. QED
    BY <2>1, UncacheFates DEF DiskStays
<1>7. ASSUME NEW f, DeleteData(a, f) PROVE DiskStays
  BY <1>7, UncacheFates DEF DeleteData, DiskStays
<1>8. ASSUME NEW p, Visit(a, p) PROVE DiskStays
  BY <1>8, UncacheFates DEF Visit, DiskStays
<1>9. CASE Refuse
  BY <1>9, UncacheFates DEF Refuse, DiskStays
<1>10. QED
  BY <1>1, <1>2, <1>3, <1>4, <1>5, <1>6, <1>7, <1>8, <1>9

DiskSafe == DiskInv /\ HistoryInv /\ NoFileIsLost

LEMMA StaysOnDisk ==
  ASSUME DiskSafe, DiskStays
  PROVE  DiskSafe'
BY DEF DiskSafe, DiskInv, HistoryInv, NoFileIsLost, DiskStays, FatesStay, disk

LEMMA RootIsOutside ==
  ASSUME NEW p \in FolderPaths \ {Root}
  PROVE  ~IsPrefix(p, Root)
<1>1. p \in Seq(Names) /\ Root \in Seq(Names) /\ Root = <<>>
  BY PathFacts
<1>2. IsPrefix(Root, Root) /\ Len(Root) = 0 /\ Len(p) \in Nat
  BY <1>1, PrefixSelf, EmptySeq, LenProperties
<1>3. ASSUME IsPrefix(p, Root) PROVE p = Root
  <2>1. Len(p) = 0
    BY <1>2, <1>3 DEF IsPrefix
  <2>2. QED
    BY <1>1, <2>1, EmptySeq
<1>4. QED
  BY <1>3

\* Files are renamed, each over at most one other.
LEMMA MovedFiles ==
  ASSUME DiskInv, NEW from \in DOMAIN files, NEW to \in FilePaths, ParentOf(to) \in dirs
  PROVE  /\ DOMAIN Moved(from, to) \subseteq FilePaths
         /\ \A p \in DOMAIN Moved(from, to) : Moved(from, to)[p] \in Contents
         /\ Reachable(dirs, DOMAIN Moved(from, to))
         /\ \A p \in DOMAIN files :
                (p = to /\ from # to) \/ \E q \in DOMAIN Moved(from, to) :
                                            Moved(from, to)[q] = files[p]
<1> DEFINE f == Moved(from, to)
<1>1. /\ DOMAIN f = (DOMAIN files \ {from}) \cup {to}
      /\ f[to] = files[from] /\ \A p \in DOMAIN f \ {to} : f[p] = files[p]
  BY DEF Moved
<1>2. Reachable(dirs, DOMAIN files \cup {to})
  BY AddingAFile DEF DiskInv
<1> HIDE DEF f
<1>3. Reachable(dirs, DOMAIN f)
  BY <1>1, <1>2 DEF Reachable
<1>4. DOMAIN f \subseteq FilePaths /\ \A p \in DOMAIN f : f[p] \in Contents
  BY <1>1 DEF DiskInv
<1>5. ASSUME NEW p \in DOMAIN files
      PROVE  (p = to /\ from # to) \/ \E q \in DOMAIN f : f[q] = files[p]
  BY <1>1
<1>6. QED
  BY <1>3, <1>4, <1>5 DEF f

\* A file that is replaced is accounted for.
LEMMA ReplacedFiles ==
  ASSUME HistoryInv, NEW to, NEW saw \in BOOLEAN
  PROVE  /\ DOMAIN Replaces(to, saw) = DOMAIN seen
         /\ Replaces(to, saw).stored = seen.stored
         /\ seen.removed \subseteq Replaces(to, saw).removed
         /\ seen.raced \subseteq Replaces(to, saw).raced
         /\ to \in DOMAIN files =>
                files[to] \in Replaces(to, saw).removed \cup Replaces(to, saw).raced
BY DEF HistoryInv, Replaces

LEMMA RenameIsSafe ==
  ASSUME DiskSafe, NEW from \in DOMAIN files, NEW to \in FilePaths, ParentOf(to) \in dirs,
         dirs' = dirs, files' = Moved(from, to), seen' = Replaces(to, FALSE)
  PROVE  DiskSafe'
<1>1. DiskInv'
  BY MovedFiles DEF DiskSafe, DiskInv
<1>2. /\ DOMAIN seen' = DOMAIN seen /\ seen'.stored = seen.stored
      /\ seen.removed \subseteq seen'.removed /\ seen.raced \subseteq seen'.raced
      /\ to \in DOMAIN files => files[to] \in seen'.removed \cup seen'.raced
  BY ReplacedFiles DEF DiskSafe
<1>3. \A p \in DOMAIN files : p = to \/ \E q \in DOMAIN files' : files'[q] = files[p]
  BY MovedFiles DEF DiskSafe
<1>4. ASSUME NEW c \in seen'.stored
      PROVE  c \in {files'[q] : q \in DOMAIN files'} \cup seen'.removed \cup seen'.raced
  <2>1. c \in {files[p] : p \in DOMAIN files} \cup seen.removed \cup seen.raced
    BY <1>2, <1>4 DEF DiskSafe, NoFileIsLost
  <2>2. CASE c \in seen.removed \cup seen.raced
    BY <1>2, <2>2
  <2>3. ASSUME NEW p \in DOMAIN files, c = files[p]
        PROVE  c \in {files'[q] : q \in DOMAIN files'} \cup seen'.removed \cup seen'.raced
    BY <1>2, <1>3, <2>3
  <2>4. QED
    BY <2>1, <2>2, <2>3
<1>5. NoFileIsLost'
  BY <1>4 DEF NoFileIsLost
<1>6. QED
  BY <1>1, <1>2, <1>5 DEF DiskSafe, HistoryInv

LEMMA RemovalIsSafe ==
  ASSUME DiskSafe, NEW P, RemoveFiles(P), dirs' \subseteq FolderPaths, Root \in dirs',
         Reachable(dirs', DOMAIN files \ P)
  PROVE  DiskSafe'
<1>1. /\ DOMAIN files' = DOMAIN files \ P
      /\ \A p \in DOMAIN files' : files'[p] = files[p]
      /\ seen' = [seen EXCEPT !.removed = @ \cup {files[p] : p \in P \cap DOMAIN files}]
  BY DEF RemoveFiles
<1>2. /\ DOMAIN seen' = DOMAIN seen /\ seen'.stored = seen.stored /\ seen'.raced = seen.raced
      /\ seen'.removed = seen.removed \cup {files[p] : p \in P \cap DOMAIN files}
  BY <1>1 DEF DiskSafe, HistoryInv
<1>3. DiskInv'
  BY <1>1 DEF DiskSafe, DiskInv
<1>4. NoFileIsLost'
  BY <1>1, <1>2 DEF DiskSafe, NoFileIsLost
<1>5. QED
  BY <1>2, <1>3, <1>4 DEF DiskSafe, HistoryInv

\* A file is stored with a content that no file has had.
LEMMA StoringIsSafe ==
  ASSUME DiskSafe, NEW p \in FilePaths, NEW c \in Contents, ParentOf(p) \in dirs,
         dirs' = dirs,
         files' = [q \in DOMAIN files \cup {p} |-> IF q = p THEN c ELSE files[q]],
         NEW s, DOMAIN s = DOMAIN seen, s.stored = seen.stored,
         seen.removed \subseteq s.removed, seen.raced \subseteq s.raced,
         p \in DOMAIN files => files[p] \in s.removed \cup s.raced,
         seen' = [s EXCEPT !.stored = @ \cup {c}]
  PROVE  DiskSafe'
<1>1. /\ DOMAIN files' = DOMAIN files \cup {p} /\ files'[p] = c
      /\ \A q \in DOMAIN files \ {p} : files'[q] = files[q]
  OBVIOUS
<1>2. /\ DOMAIN seen' = DOMAIN seen /\ seen'.stored = seen.stored \cup {c}
      /\ seen.removed \subseteq seen'.removed /\ seen.raced \subseteq seen'.raced
      /\ p \in DOMAIN files => files[p] \in seen'.removed \cup seen'.raced
  <2>1. seen' = [s EXCEPT !.stored = @ \cup {c}] /\ DOMAIN s = {"stored", "removed", "raced", "late"}
    BY DEF DiskSafe, HistoryInv
  <2>2. /\ DOMAIN seen' = DOMAIN s /\ seen'.stored = s.stored \cup {c}
        /\ seen'.removed = s.removed /\ seen'.raced = s.raced
    BY <2>1
  <2>3. QED
    BY <2>2
<1>3. DiskInv'
  <2>1. Reachable(dirs, DOMAIN files \cup {p})
    BY AddingAFile DEF DiskSafe, DiskInv
  <2>2. QED
    BY <1>1, <2>1 DEF DiskSafe, DiskInv
<1>4. NoFileIsLost'
  BY <1>1, <1>2 DEF DiskSafe, NoFileIsLost
<1>5. QED
  BY <1>2, <1>3, <1>4 DEF DiskSafe, HistoryInv

LEMMA MakingIsSafe ==
  ASSUME DiskSafe, dirs' \subseteq FolderPaths, dirs \subseteq dirs',
         Reachable(dirs', DOMAIN files), UNCHANGED <<files, seen>>
  PROVE  DiskSafe'
BY DEF DiskSafe, DiskInv, HistoryInv, NoFileIsLost

LEMMA DroppingAFolder ==
  ASSUME DiskSafe, NEW p \in FolderPaths \ {Root},
         dirs' = {d \in dirs : ~IsPrefix(p, d)},
         RemoveFiles({q \in FilePaths : IsPrefix(p, q)})
  PROVE  DiskSafe'
<1>1. dirs' \subseteq FolderPaths /\ Root \in dirs'
  BY RootIsOutside DEF DiskSafe, DiskInv
<1>2. Reachable(dirs', DOMAIN files \ {q \in FilePaths : IsPrefix(p, q)})
  BY RemovingAFolder DEF DiskSafe, DiskInv
<1>3. QED
  BY <1>1, <1>2, RemovalIsSafe

LEMMA FilesOnDisk ==
  ASSUME DiskSafe, SessionsInv, NEW a \in Threads,
         MoveFileDisk(a) \/ MoveFileBack(a) \/ DeleteFileDisk(a) \/ UploadWrite(a)
  PROVE  DiskSafe'
<1>0. Shape(act[a])
  BY DEF SessionsInv
<1>1. CASE MoveFileDisk(a)
  <2> DEFINE from == act[a].rec.src
             to   == act[a].to
  <2>1. to \in FilePaths /\ ~act[a].saw
    BY <1>0, <1>1 DEF MoveFileDisk, Shape, Moving
  <2>2. /\ dirs' = dirs
        /\ \/ /\ from \in DOMAIN files /\ ParentOf(to) \in dirs
              /\ files' = Moved(from, to) /\ seen' = Replaces(to, FALSE)
           \/ UNCHANGED <<files, seen>>
    BY <1>1, <2>1 DEF MoveFileDisk
  <2> HIDE DEF from, to
  <2>3. QED
    BY <2>1, <2>2, RenameIsSafe, MakingIsSafe DEF DiskSafe, DiskInv
<1>2. CASE MoveFileBack(a)
  <2> DEFINE from == act[a].rec.src
             to   == act[a].to
  <2>1. act[a].rec \in Image
    BY <1>0, <1>2 DEF MoveFileBack, Shape, Moving
  <2>2. from \in FilePaths
    BY <2>1 DEF Image
  <2>3. /\ dirs' = dirs
        /\ \/ /\ to \in DOMAIN files /\ ParentOf(from) \in dirs
              /\ files' = Moved(to, from) /\ seen' = Replaces(from, FALSE)
           \/ UNCHANGED <<files, seen>>
    BY <1>2 DEF MoveFileBack
  <2> HIDE DEF from, to
  <2>4. QED
    BY <2>2, <2>3, RenameIsSafe, MakingIsSafe DEF DiskSafe, DiskInv
<1>3. CASE DeleteFileDisk(a)
  <2>1. dirs' = dirs /\ RemoveFiles({act[a].rec.src})
    BY <1>3 DEF DeleteFileDisk
  <2>2. Reachable(dirs, DOMAIN files \ {act[a].rec.src})
    BY DEF DiskSafe, DiskInv, Reachable
  <2>3. QED
    BY <2>1, <2>2, RemovalIsSafe DEF DiskSafe, DiskInv
<1>4. CASE UploadWrite(a)
  <2> DEFINE p == act[a].path
             s == Replaces(p, act[a].saw)
  <2>1. p \in FilePaths /\ act[a].saw \in BOOLEAN
    BY <1>0, <1>4 DEF UploadWrite, Shape, AtFile
  <2>2. /\ DOMAIN s = DOMAIN seen /\ s.stored = seen.stored
        /\ seen.removed \subseteq s.removed /\ seen.raced \subseteq s.raced
        /\ p \in DOMAIN files => files[p] \in s.removed \cup s.raced
    BY <2>1, ReplacedFiles DEF DiskSafe
  <2>3. CASE UNCHANGED <<dirs, files, seen>>
    BY <2>3, MakingIsSafe DEF DiskSafe, DiskInv
  <2>4. ASSUME dirs' = dirs, ParentOf(p) \in dirs, NEW c \in Contents,
               files' = [q \in DOMAIN files \cup {p} |-> IF q = p THEN c ELSE files[q]],
               seen' = [s EXCEPT !.stored = @ \cup {c}]
        PROVE  DiskSafe'
    <3> HIDE DEF p, s
    <3>1. QED
      BY <2>1, <2>2, <2>4, StoringIsSafe
  <2>5. QED
    BY <1>4, <2>3, <2>4 DEF UploadWrite
<1>5. QED
  BY <1>1, <1>2, <1>3, <1>4

LEMMA FolderIsMoved ==
  ASSUME DiskSafe, SessionsInv, NEW a \in Threads, MoveFolderDisk(a)
  PROVE  DiskSafe'
<1> DEFINE from == act[a].path
           to   == IF act[a].to \in dirs THEN Append(act[a].to, from[Len(from)]) ELSE act[a].to
           D    == {d \in dirs : IsPrefix(from, d)}
           P    == {p \in DOMAIN files : IsPrefix(from, p)}
           D2   == (dirs \ D) \cup {Rebase(d, from, to) : d \in D} \cup Above(ParentOf(to))
           P2   == (DOMAIN files \ P) \cup {Rebase(p, from, to) : p \in P}
<1>1. from \in FolderPaths \ {Root} /\ act[a].to \in FolderPaths
  <2>1. Shape(act[a])
    BY DEF SessionsInv
  <2>2. QED
    BY <2>1 DEF MoveFolderDisk, Shape
<1>2. from \in Seq(Names) /\ to \in Seq(Names)
  <2>1. from \in Seq(Names) /\ act[a].to \in Seq(Names) /\ from # <<>>
    BY <1>1, PathFacts
  <2>2. Len(from) \in Nat \ {0}
    BY <2>1, EmptySeq
  <2>3. from[Len(from)] \in Names
    BY <2>1, <2>2, ElementOfSeq
  <2>4. Append(act[a].to, from[Len(from)]) \in Seq(Names)
    BY <2>1, <2>3, AppendProperties
  <2>5. QED
    BY <2>1, <2>4
<1>3. CASE UNCHANGED disk
  BY <1>3, MakingIsSafe DEF DiskSafe, DiskInv, MoveFolderDisk, disk
<1>4. ASSUME from \in dirs, to \notin dirs,
             {Rebase(d, from, to) : d \in D} \subseteq FolderPaths,
             {Rebase(p, from, to) : p \in P} \subseteq FilePaths,
             dirs' = D2,
             files' = [p \in P2 |-> files[IF IsPrefix(to, p) THEN Rebase(p, to, from) ELSE p]],
             seen' = seen
      PROVE  DiskSafe'
  <2> HIDE DEF from, to
  <2>1. IsPrefix(from, from) /\ Rebase(from, from, to) = to
    BY <1>2, PrefixSelf, RebaseSelf
  <2>2. to \in FolderPaths
    BY <1>4, <2>1
  <2>3. D = Below(from, dirs) /\ P = Below(from, DOMAIN files)
    BY DEF Below
  <2>4. /\ {Rebase(d, from, to) : d \in D} = Rebased(dirs, from, to)
        /\ {Rebase(p, from, to) : p \in P} = Rebased(DOMAIN files, from, to)
    BY <2>3 DEF Rebased
  <2> HIDE DEF D, P
  <2>5. CanMove(dirs, DOMAIN files, from, to)
    BY <1>4, <2>4 DEF CanMove
  <2>6. /\ D2 = (dirs \ Below(from, dirs)) \cup Rebased(dirs, from, to) \cup Above(ParentOf(to))
        /\ P2 = (DOMAIN files \ Below(from, DOMAIN files)) \cup Rebased(DOMAIN files, from, to)
    BY <2>3, <2>4
  <2>7. dirs \subseteq FolderPaths /\ DOMAIN files \subseteq FilePaths
        /\ Reachable(dirs, DOMAIN files) /\ Root \in dirs
        /\ \A p \in DOMAIN files : files[p] \in Contents
    BY DEF DiskSafe, DiskInv
  <2> HIDE DEF D2, P2
  <2>8. Reachable(D2, P2)
    BY <1>1, <2>2, <2>5, <2>6, <2>7, MovingAFolder
  <2>9. /\ \A p \in P2 : OldPath(p, from, to) \in DOMAIN files
        /\ \A q \in DOMAIN files : \E p \in P2 : OldPath(p, from, to) = q
    <3>1. P2 = (DOMAIN files \ Below(from, DOMAIN files)) \cup Rebased(DOMAIN files, from, to)
      BY <2>6
    <3>2. DOMAIN files \in SUBSET FilePaths /\ dirs \in SUBSET FolderPaths
      BY <2>7
    <3>3. from \in FolderPaths
      BY <1>1
    <3>4. {OldPath(p, from, to) : p \in P2} = DOMAIN files
      BY <2>2, <2>5, <2>7, <3>1, <3>2, <3>3, MovingFiles
    <3>5. QED
      BY <3>4
  <2>10. D2 \subseteq FolderPaths /\ P2 \subseteq FilePaths
    BY <1>4, <2>6, <2>7, <2>4 DEF Above
  <2>11. Root \in D2
    <3>1. ~IsPrefix(from, Root)
      BY <1>1, RootIsOutside
    <3>2. QED
      BY <2>6, <2>7, <3>1 DEF Below
  <2>12. files' = [p \in P2 |-> files[OldPath(p, from, to)]]
    BY <1>4 DEF OldPath
  <2>13. /\ \A p \in DOMAIN files' : files'[p] \in Contents
         /\ DOMAIN files' = P2
    BY <2>7, <2>9, <2>12
  <2>14. DiskInv'
    BY <1>4, <2>8, <2>10, <2>11, <2>13 DEF DiskInv
  <2>15. \A q \in DOMAIN files : \E p \in DOMAIN files' : files'[p] = files[q]
    BY <2>9, <2>12, <2>13
  <2>16. {files[q] : q \in DOMAIN files} \subseteq {files'[p] : p \in DOMAIN files'}
    BY <2>15
  <2>17. NoFileIsLost'
    BY <1>4, <2>16 DEF DiskSafe, NoFileIsLost
  <2>18. QED
    BY <1>4, <2>14, <2>17 DEF DiskSafe, HistoryInv
<1>5. \/ UNCHANGED disk
      \/ /\ from \in dirs /\ to \notin dirs
         /\ {Rebase(d, from, to) : d \in D} \subseteq FolderPaths
         /\ {Rebase(p, from, to) : p \in P} \subseteq FilePaths
         /\ dirs' = D2
         /\ files' = [p \in P2 |-> files[IF IsPrefix(to, p) THEN Rebase(p, to, from) ELSE p]]
         /\ seen' = seen
  BY DEF MoveFolderDisk
<1>6. QED
  BY <1>3, <1>4, <1>5

LEMMA FoldersOnDisk ==
  ASSUME DiskSafe, SessionsInv, NEW a \in Threads,
         \/ DeleteFolderDisk(a)
         \/ \E p \in FilePaths, o \in BOOLEAN : Upload(a, p, o)
         \/ \E p \in FolderPaths : CreateFolder(a, p)
  PROVE  DiskSafe'
<1>1. CASE DeleteFolderDisk(a)
  <2>1. Shape(act[a])
    BY DEF SessionsInv
  <2>2. act[a].path \in FolderPaths \ {Root}
    BY <1>1, <2>1 DEF DeleteFolderDisk, Shape
  <2>3. QED
    BY <1>1, <2>2, DroppingAFolder DEF DeleteFolderDisk
<1>2. ASSUME NEW p \in FolderPaths, dirs' = dirs \cup Above(p), UNCHANGED <<files, seen>>
      PROVE  DiskSafe'
  <2>1. dirs' \subseteq FolderPaths /\ Reachable(dirs', DOMAIN files)
    BY <1>2, MakingFolders DEF DiskSafe, DiskInv
  <2>2. QED
    BY <1>2, <2>1, MakingIsSafe
<1>3. ASSUME NEW p \in FilePaths, NEW o \in BOOLEAN, Upload(a, p, o) PROVE DiskSafe'
  <2>1. ParentOf(p) \in FolderPaths
    BY PathFacts
  <2>2. QED
    BY <1>2, <1>3, <2>1 DEF Upload, UploadStart
<1>4. ASSUME NEW p \in FolderPaths, CreateFolder(a, p) PROVE DiskSafe'
  BY <1>2, <1>4 DEF CreateFolder, CreateFolderStart
<1>5. QED
  BY <1>1, <1>3, <1>4

LEMMA OutsideOnDisk ==
  ASSUME DiskSafe, Outside
  PROVE  DiskSafe'
<1>1. ASSUME NEW p \in FilePaths, OutsideAdds(p) PROVE DiskSafe'
  <2>1. PICK c \in Contents :
            /\ files' = [q \in DOMAIN files \cup {p} |-> IF q = p THEN c ELSE files[q]]
            /\ seen' = [seen EXCEPT !.stored = @ \cup {c}]
    BY <1>1 DEF OutsideAdds
  <2>2. dirs' = dirs /\ ParentOf(p) \in dirs /\ p \notin DOMAIN files
    BY <1>1 DEF OutsideAdds
  <2>3. QED
    BY <2>1, <2>2, StoringIsSafe
<1>2. ASSUME NEW p \in FilePaths, OutsideRemoves(p) PROVE DiskSafe'
  <2>1. dirs' = dirs /\ RemoveFiles({p})
    BY <1>2 DEF OutsideRemoves
  <2>2. Reachable(dirs, DOMAIN files \ {p})
    BY DEF DiskSafe, DiskInv, Reachable
  <2>3. QED
    BY <2>1, <2>2, RemovalIsSafe DEF DiskSafe, DiskInv
<1>3. ASSUME NEW p \in FolderPaths, OutsideRemovesFolder(p) PROVE DiskSafe'
  BY <1>3, DroppingAFolder DEF OutsideRemovesFolder
<1>4. ASSUME NEW p \in FolderPaths, OutsideMakesFolder(p) PROVE DiskSafe'
  <2>1. dirs' \subseteq FolderPaths /\ dirs \subseteq dirs' /\ Reachable(dirs', DOMAIN files)
    BY <1>4, AddingAFolder DEF OutsideMakesFolder, DiskSafe, DiskInv
  <2>2. QED
    BY <1>4, <2>1, MakingIsSafe DEF OutsideMakesFolder
<1>5. QED
  BY <1>1, <1>2, <1>3, <1>4 DEF Outside

LEMMA DiskStep ==
  ASSUME DiskSafe, SessionsInv, [Next]_vars
  PROVE  DiskSafe'
<1>0. HistoryInv
  BY DEF DiskSafe
<1>1. ASSUME NEW a \in Threads, Step(a) PROVE DiskSafe'
  BY <1>0, <1>1, FilesOnDisk, FolderIsMoved, FoldersOnDisk, StepsWithoutTheDisk, StaysOnDisk
     DEF Step
<1>2. ASSUME NEW a \in Threads, Start(a) PROVE DiskSafe'
  BY <1>0, <1>2, FoldersOnDisk, BeginningsWithoutTheDisk, StaysOnDisk DEF Start
<1>3. ASSUME NEW a \in Threads, NEW p, Visit(a, p) PROVE DiskSafe'
  BY <1>0, <1>3, BeginningsWithoutTheDisk, StaysOnDisk
<1>4. ASSUME NEW a \in Threads, NEW f, DeleteData(a, f) PROVE DiskSafe'
  BY <1>0, <1>4, BeginningsWithoutTheDisk, StaysOnDisk
<1>5. CASE Refuse
  BY <1>0, <1>5, StaysOnDisk, UncacheFates DEF Refuse, DiskStays
<1>6. CASE UNCHANGED vars
  BY <1>0, <1>6, StaysOnDisk, UncacheFates DEF vars, DiskStays, disk
<1>7. QED
  BY <1>1, <1>2, <1>3, <1>4, <1>5, <1>6, OutsideOnDisk DEF Next

-----------------------------------------------------------------------------
(* What each step leaves of the rows, of the queue and of the cache's type. *)

Tables ==
    /\ RowsOK(db) /\ Linked(db)
    /\ DOMAIN next = {"image", "folder"}
    /\ next.image \in Nat \ {0} /\ \A i \in DOMAIN db.images : i < next.image
    /\ next.folder \in Nat \ {0} /\ \A i \in DOMAIN db.folders : i < next.folder

LEMMA TablesKept ==
  ASSUME RowsInv, UNCHANGED <<db, next>>
  PROVE  Tables'
BY DEF RowsInv, Tables, RowsOK, Linked

LEMMA FoldersAdded ==
  ASSUME RowsInv, NEW d, RowsOK(d), Linked(d), \A i \in DOMAIN d.images : i \in DOMAIN db.images,
         \A i \in DOMAIN d.folders : i < next.folder,
         NEW p \in FolderPaths, HaveFolderIds(d, p),
         db' = WithFolders(d, p), next' = NextFolder(d, p)
  PROVE  Tables'
<1> DEFINE e == WithFolders(d, p)
           n == NextFolder(d, p)
<1>1. next.folder \in Nat \ {0} /\ DOMAIN next = {"image", "folder"}
      /\ next.image \in Nat \ {0} /\ \A i \in DOMAIN db.images : i < next.image
  BY DEF RowsInv
<1>2. /\ RowsOK(e) /\ e.images = d.images
      /\ DOMAIN n = {"image", "folder"} /\ n.image = next.image /\ n.folder \in Nat \ {0}
      /\ \A i \in DOMAIN e.folders : i < n.folder
  BY <1>1, WithFoldersType
<1>3. DOMAIN d.folders \subseteq DOMAIN e.folders
  BY DEF WithFolders, RowsOK
<1> HIDE DEF e, n
<1>4. Linked(e)
  BY <1>2, <1>3 DEF Linked
<1>5. db' = e /\ next' = n
  BY DEF e, n
<1>6. QED
  BY <1>1, <1>2, <1>4, <1>5 DEF Tables, RowsOK, Linked

LEMMA ChangesCommitted ==
  ASSUME RowsInv, SessionsInv, NEW a \in Threads, CanCommit(act[a].pend),
         db' = View(a), next' = next
  PROVE  Tables'
<1>1. /\ RowsOK(View(a))
      /\ \A i \in DOMAIN View(a).images : i \in DOMAIN db.images
      /\ \A i \in DOMAIN View(a).folders : i < next.folder
  BY ViewType
<1>2. Linked(View(a))
  BY CommitIsLinked DEF View
<1> DEFINE v == View(a)
<1> HIDE DEF v
<1>3. db' = v /\ RowsOK(v) /\ Linked(v)
      /\ (\A i \in DOMAIN v.images : i \in DOMAIN db.images)
      /\ \A i \in DOMAIN v.folders : i < next.folder
  BY <1>1, <1>2 DEF v
<1>4. QED
  BY <1>3 DEF Tables, RowsInv, RowsOK, Linked

LEMMA ImageInserted ==
  ASSUME RowsInv, SessionsInv, NEW a \in Threads, InsertImage(a)
  PROVE  Tables'
<1> DEFINE new == [src |-> act[a].path, folder |-> act[a].fid, status |-> "active"]
           i   == next.image
           d   == [db EXCEPT !.images = [k \in DOMAIN db.images \cup {i} |->
                       IF k = i THEN new ELSE db.images[k]]]
<1>1. act[a].path \in FilePaths /\ act[a].fid \in FolderIds
  BY DEF InsertImage, SessionsInv, Shape, AtFile
<1>2. \/ i <= MaxImages /\ Sound(d) /\ db' = d /\ next' = [next EXCEPT !.image = i + 1]
      \/ UNCHANGED <<db, next>>
  BY DEF InsertImage
<1>3. ASSUME i <= MaxImages, Sound(d), db' = d, next' = [next EXCEPT !.image = i + 1]
      PROVE  Tables'
  <2>1. new \in Image
    BY <1>1 DEF Image, FolderIds
  <2> HIDE DEF new
  <2>2. /\ DOMAIN d = {"images", "folders"} /\ d.folders = db.folders
        /\ DOMAIN d.images = DOMAIN db.images \cup {i}
        /\ \A k \in DOMAIN d.images : d.images[k] \in Image
    BY <2>1 DEF RowsInv, RowsOK
  <2>3. i \in ImageIds /\ i \in Nat \ {0} /\ i + 1 \in Nat \ {0}
        /\ \A k \in DOMAIN db.images : k \in Nat /\ k < i
    BY <1>3, BoundsAssumption DEF RowsInv, RowsOK, ImageIds
  <2>4. Linked(d)
    BY <1>3 DEF Sound, Linked
  <2> HIDE DEF d
  <2>5. RowsOK(d)
    BY <2>2, <2>3 DEF RowsInv, RowsOK
  <2>6. DOMAIN next' = DOMAIN next /\ next'.image = i + 1 /\ next'.folder = next.folder
    BY <1>3 DEF RowsInv
  <2> HIDE DEF i
  <2>7. \A k \in DOMAIN d.images : k < i + 1
    BY <2>2, <2>3
  <2>8. /\ DOMAIN next' = {"image", "folder"}
        /\ next'.image \in Nat \ {0} /\ \A k \in DOMAIN d.images : k < next'.image
        /\ next'.folder \in Nat \ {0} /\ \A k \in DOMAIN d.folders : k < next'.folder
    BY <2>2, <2>3, <2>6, <2>7 DEF RowsInv
  <2>9. QED
    BY <1>3, <2>4, <2>5, <2>8 DEF Tables, RowsOK, Linked
<1>4. QED
  BY <1>2, <1>3, TablesKept

LEMMA TablesStep ==
  ASSUME RowsInv, SessionsInv, [Next]_vars
  PROVE  Tables'
<1>1. ASSUME NEW a \in Threads, CreateFolders(a) PROVE Tables'
  <2>1. act[a].path \in FilePaths
    BY <1>1 DEF CreateFolders, SessionsInv, Shape, AtFile
  <2>2. ParentOf(act[a].path) \in FolderPaths
    BY <2>1, PathFacts
  <2>3. QED
    BY <1>1, <2>2, FoldersAdded DEF CreateFolders, RowsInv
<1>2. ASSUME NEW a \in Threads, NEW p \in FolderPaths, CanCommit(act[a].pend),
             HaveFolderIds(View(a), p), db' = WithFolders(View(a), p),
             next' = NextFolder(View(a), p)
      PROVE  Tables'
  <2>1. /\ RowsOK(View(a))
        /\ \A i \in DOMAIN View(a).images : i \in DOMAIN db.images
        /\ \A i \in DOMAIN View(a).folders : i < next.folder
    BY ViewType
  <2>2. Linked(View(a))
    BY <1>2, CommitIsLinked DEF View
  <2>3. QED
    BY <1>2, <2>1, <2>2, FoldersAdded
<1>3. ASSUME NEW a \in Threads, FolderHave(a) PROVE Tables'
  <2>1. act[a].path \in FolderPaths
    BY <1>3 DEF FolderHave, SessionsInv, Shape, AtFolder
  <2>2. \/ UNCHANGED <<db, next>>
        \/ /\ CanCommit(act[a].pend) /\ HaveFolderIds(View(a), act[a].path)
           /\ db' = WithFolders(View(a), act[a].path)
           /\ next' = NextFolder(View(a), act[a].path)
    BY <1>3 DEF FolderHave
  <2>3. QED
    BY <1>2, <2>1, <2>2, TablesKept
<1>4. ASSUME NEW a \in Threads, MoveFolderRecord(a) PROVE Tables'
  <2>1. ParentOf(act[a].to) \in FolderPaths
    BY <1>4, PathFacts DEF MoveFolderRecord, SessionsInv, Shape
  <2>2. \/ UNCHANGED <<db, next>>
        \/ /\ CanCommit(act[a].pend) /\ HaveFolderIds(View(a), ParentOf(act[a].to))
           /\ db' = WithFolders(View(a), ParentOf(act[a].to))
           /\ next' = NextFolder(View(a), ParentOf(act[a].to))
    BY <1>4 DEF MoveFolderRecord
  <2>3. QED
    BY <1>2, <2>1, <2>2, TablesKept
<1>5. ASSUME NEW a \in Threads, Commit(a) \/ MoveFileCommit(a) PROVE Tables'
  <2>1. \/ UNCHANGED <<db, next>>
        \/ CanCommit(act[a].pend) /\ db' = View(a) /\ next' = next
    BY <1>5 DEF Commit, MoveFileCommit
  <2>2. QED
    BY <2>1, ChangesCommitted, TablesKept
<1>6. ASSUME NEW a \in Threads,
             \/ SyncFileLook(a) \/ SyncFileGone(a) \/ SyncFileHave(a) \/ PutId(a)
             \/ FolderLook(a) \/ FolderGone(a) \/ DataDelete(a)
             \/ MoveFileCheck(a) \/ MoveFileDisk(a) \/ MoveFileRecord(a) \/ MoveFileBack(a)
             \/ DeleteFileDisk(a) \/ DeleteFileRecord(a) \/ UploadWrite(a)
             \/ MoveFolderDisk(a) \/ DeleteFolderDisk(a) \/ DeleteFolderRecord(a)
      PROVE  UNCHANGED <<db, next>>
  BY <1>6 DEF SyncFileLook, SyncFileGone, SyncFileHave, PutId, FolderLook, FolderGone,
     DataDelete, MoveFileCheck, MoveFileDisk, MoveFileRecord, MoveFileBack, DeleteFileDisk,
     DeleteFileRecord, UploadWrite, MoveFolderDisk, DeleteFolderDisk, DeleteFolderRecord
<1>7. ASSUME NEW a \in Threads, Step(a) PROVE Tables'
  BY <1>1, <1>3, <1>4, <1>5, <1>6, <1>7, ImageInserted, TablesKept DEF Step
<1>8. ASSUME NEW a \in Threads, Start(a) PROVE UNCHANGED <<db, next>>
  BY <1>8 DEF Start, Lookup, MoveFile, DeleteFile, Upload, CreateFolder, MoveFolder,
     DeleteFolder, Purge
<1>9. ASSUME NEW a \in Threads, (\E p : Visit(a, p)) \/ (\E f : DeleteData(a, f))
      PROVE UNCHANGED <<db, next>>
  BY <1>9 DEF Visit, DeleteData
<1>10. ASSUME Refuse \/ Outside \/ UNCHANGED vars PROVE UNCHANGED <<db, next>>
  BY <1>10 DEF Refuse, Outside, vars
<1>11. QED
  BY <1>7, <1>8, <1>9, <1>10, TablesKept DEF Next

LEMMA TasksLeave ==
  ASSUME NEW a, NEW r, End(a) \/ ToCommit(a, r)
  PROVE  tasks' \subseteq tasks
BY DEF End, ToCommit

LEMMA TasksStep ==
  ASSUME RowsInv, SessionsInv, [Next]_vars
  PROVE  tasks' \subseteq FolderIds
<1> SUFFICES \/ tasks' \subseteq tasks
             \/ \E a \in Threads : tasks' \subseteq tasks \cup DOMAIN View(a).folders
  BY ViewType DEF RowsInv, RowsOK
<1>1. ASSUME NEW a \in Threads, FolderGone(a)
      PROVE  tasks' \subseteq tasks \cup DOMAIN View(a).folders
  <2>1. End(a) \/ tasks' = tasks \cup {f \in FoldersAt(View(a), act[a].path) :
                                           View(a).folders[f].status = "active"}
    BY <1>1 DEF FolderGone
  <2>2. QED
    BY <2>1, TasksLeave DEF FoldersAt
<1>2. ASSUME NEW a \in Threads, FolderHave(a) PROVE tasks' \subseteq tasks
  BY <1>2, TasksLeave DEF FolderHave
<1>3. ASSUME NEW a \in Threads,
             \/ SyncFileLook(a) \/ SyncFileGone(a) \/ SyncFileHave(a)
             \/ CreateFolders(a) \/ InsertImage(a) \/ PutId(a)
             \/ FolderLook(a) \/ Commit(a) \/ DataDelete(a)
      PROVE  tasks' \subseteq tasks
  BY <1>3, TasksLeave DEF SyncFileLook, SyncFileGone, SyncFileHave, CreateFolders, InsertImage,
     PutId, FolderLook, Commit, DataDelete
<1>4. ASSUME NEW a \in Threads,
             \/ MoveFileCheck(a) \/ MoveFileDisk(a) \/ MoveFileRecord(a)
             \/ MoveFileCommit(a) \/ MoveFileBack(a)
             \/ DeleteFileDisk(a) \/ DeleteFileRecord(a) \/ UploadWrite(a)
             \/ MoveFolderDisk(a) \/ MoveFolderRecord(a)
             \/ DeleteFolderDisk(a) \/ DeleteFolderRecord(a)
      PROVE  tasks' \subseteq tasks
  BY <1>4, TasksLeave DEF MoveFileCheck, MoveFileDisk, MoveFileRecord, MoveFileCommit,
     MoveFileBack, DeleteFileDisk, DeleteFileRecord, UploadWrite, MoveFolderDisk,
     MoveFolderRecord, DeleteFolderDisk, DeleteFolderRecord
<1>5. ASSUME NEW a \in Threads, Start(a) PROVE tasks' = tasks
  BY <1>5 DEF Start, Lookup, MoveFile, DeleteFile, Upload, CreateFolder, MoveFolder,
     DeleteFolder, Purge
<1>6. ASSUME NEW a \in Threads, (\E p : Visit(a, p)) \/ (\E f : DeleteData(a, f))
      PROVE  tasks' = tasks
  BY <1>6 DEF Visit, DeleteData, DataStart
<1>7. ASSUME Refuse \/ Outside \/ UNCHANGED vars PROVE tasks' \subseteq tasks
  BY <1>7 DEF Refuse, DataRefused, Outside, vars
<1>8. ASSUME NEW a \in Threads, Step(a)
      PROVE  tasks' \subseteq tasks \/ tasks' \subseteq tasks \cup DOMAIN View(a).folders
  BY <1>1, <1>2, <1>3, <1>4, <1>8 DEF Step
<1>9. \/ \E a \in Threads : Step(a)
      \/ \E a \in Threads : Start(a) \/ (\E p : Visit(a, p)) \/ (\E f : DeleteData(a, f))
      \/ Refuse \/ Outside \/ UNCHANGED vars
  BY DEF Next
<1>10. CASE \E a \in Threads : Step(a)
  BY <1>8, <1>10
<1>11. CASE \E a \in Threads : Start(a) \/ (\E p : Visit(a, p)) \/ (\E f : DeleteData(a, f))
  BY <1>5, <1>6, <1>11
<1>12. QED
  BY <1>7, <1>9, <1>10, <1>11

LEMMA UncachedType ==
  ASSUME RowsInv, (\E P : Uncache(P)) \/ (\E a : UncacheLoaded(a)) \/ UNCHANGED cachedId
  PROVE  cachedId' \in [FilePaths -> 0..MaxImages]
<1>1. cachedId \in [FilePaths -> 0..MaxImages] /\ NoId \in 0..MaxImages
  BY BoundsAssumption DEF RowsInv, NoId
<1>2. \A P : Uncached(P) \in [FilePaths -> 0..MaxImages]
  BY <1>1 DEF Uncached
<1>3. (\E P : cachedId' = Uncached(P)) \/ cachedId' = cachedId
  BY DEF Uncache, UncacheLoaded
<1>4. QED
  BY <1>1, <1>2, <1>3

LEMMA CacheTypeStep ==
  ASSUME RowsInv, SessionsInv, [Next]_vars
  PROVE  cachedId' \in [FilePaths -> 0..MaxImages]
<1>1. ASSUME NEW a \in Threads, PutId(a) PROVE cachedId' \in [FilePaths -> 0..MaxImages]
  BY <1>1 DEF PutId, RowsInv, SessionsInv, Shape
<1>2. ASSUME NEW a \in Threads,
             \/ SyncFileGone(a) \/ DataDelete(a) \/ MoveFileCheck(a) \/ MoveFileRecord(a)
             \/ DeleteFileRecord(a) \/ MoveFolderRecord(a) \/ DeleteFolderRecord(a)
      PROVE  (\E P : Uncache(P)) \/ (\E b : UncacheLoaded(b)) \/ UNCHANGED cachedId
  BY <1>2 DEF SyncFileGone, DataDelete, MoveFileCheck, MoveFileRecord, DeleteFileRecord,
     MoveFolderRecord, DeleteFolderRecord
<1>3. ASSUME NEW a \in Threads,
             \/ SyncFileLook(a) \/ SyncFileHave(a) \/ CreateFolders(a) \/ InsertImage(a)
             \/ FolderLook(a) \/ FolderGone(a) \/ FolderHave(a) \/ Commit(a)
             \/ MoveFileDisk(a) \/ MoveFileCommit(a) \/ MoveFileBack(a)
             \/ DeleteFileDisk(a) \/ UploadWrite(a) \/ MoveFolderDisk(a) \/ DeleteFolderDisk(a)
      PROVE  UNCHANGED cachedId
  BY <1>3 DEF SyncFileLook, SyncFileHave, CreateFolders, InsertImage, FolderLook, FolderGone,
     FolderHave, Commit, MoveFileDisk, MoveFileCommit, MoveFileBack, DeleteFileDisk,
     UploadWrite, MoveFolderDisk, DeleteFolderDisk
<1>4. ASSUME NEW a \in Threads, Start(a) PROVE (\E P : Uncache(P)) \/ UNCHANGED cachedId
  BY <1>4 DEF Start, Lookup, MoveFile, DeleteFile, Upload, CreateFolder, MoveFolder,
     MoveFolderStart, DeleteFolder, Purge, PurgeStart
<1>5. ASSUME NEW a \in Threads, (\E p : Visit(a, p)) \/ (\E f : DeleteData(a, f))
      PROVE  UNCHANGED cachedId
  BY <1>5 DEF Visit, DeleteData
<1>6. ASSUME Refuse \/ Outside \/ UNCHANGED vars PROVE UNCHANGED cachedId
  BY <1>6 DEF Refuse, Outside, vars
<1>7. QED
  BY <1>1, <1>2, <1>3, <1>4, <1>5, <1>6, UncachedType DEF Next, Step

LEMMA RowsStep ==
  ASSUME RowsInv, SessionsInv, [Next]_vars
  PROVE  RowsInv'
<1>1. Tables' /\ tasks' \subseteq FolderIds /\ cachedId' \in [FilePaths -> 0..MaxImages]
  BY TablesStep, TasksStep, CacheTypeStep
<1>2. QED
  BY <1>1 DEF Tables, RowsInv

-----------------------------------------------------------------------------
(* The cached IDs.  One that was not stored late is that of the active     *)
(* record of its path, and no session is about to change that record: who  *)
(* changes a record deletes the key first, or marks the ID as late.        *)

CacheInv == \A p \in FilePaths : cachedId[p] # NoId /\ p \notin seen.late =>
    /\ IsRight(p, cachedId[p])
    /\ \A b \in Threads : ~Touches(act[b].pend, cachedId[p])

LEMMA InsertedRows ==
  ASSUME RowsInv, NEW a \in Threads, InsertImage(a),
         NEW i \in DOMAIN db.images
  PROVE  i \in DOMAIN db.images' /\ db.images'[i] = db.images[i]
<1> DEFINE new == [src |-> act[a].path, folder |-> act[a].fid, status |-> "active"]
           d   == [db EXCEPT !.images = [k \in DOMAIN db.images \cup {next.image} |->
                       IF k = next.image THEN new ELSE db.images[k]]]
<1>1. db' = d \/ db' = db
  BY DEF InsertImage
<1>2. i < next.image /\ next.image \in Nat /\ i \in Nat
  BY DEF RowsInv, RowsOK, ImageIds
<1> HIDE DEF new
<1>3. d.images = [k \in DOMAIN db.images \cup {next.image} |->
                       IF k = next.image THEN new ELSE db.images[k]]
  BY DEF RowsInv, RowsOK
<1>4. d.images[i] = db.images[i] /\ i \in DOMAIN d.images
  BY <1>2, <1>3
<1> HIDE DEF d
<1>5. QED
  BY <1>1, <1>4

\* Only a commit changes a row, and only rows that the session has touched.
LEMMA RowsChange ==
  ASSUME RowsInv, SessionsInv, [Next]_vars,
         NEW p, NEW i, IsRight(p, i), \A b \in Threads : ~Touches(act[b].pend, i)
  PROVE  IsRight(p, i)'
<1> USE DEF IsRight
<1>1. ASSUME UNCHANGED db PROVE IsRight(p, i)'
  BY <1>1
<1>2. ASSUME NEW a \in Threads, db'.images = View(a).images PROVE IsRight(p, i)'
  BY <1>2, Untouched DEF View
<1>3. ASSUME NEW a \in Threads, CreateFolders(a) PROVE IsRight(p, i)'
  <2>1. db'.images = db.images
    BY <1>3 DEF CreateFolders, WithFolders, RowsInv, RowsOK
  <2>2. QED
    BY <2>1
<1>4. ASSUME NEW a \in Threads, NEW q, db' = WithFolders(View(a), q)
      PROVE  db'.images = View(a).images
  <2>1. DOMAIN View(a) = {"images", "folders"}
    BY ViewType DEF RowsOK
  <2> DEFINE v == View(a)
  <2> HIDE DEF v
  <2>2. db' = WithFolders(v, q) /\ DOMAIN v = {"images", "folders"}
    BY <1>4, <2>1 DEF v
  <2>3. db'.images = v.images
    BY <2>2 DEF WithFolders
  <2>4. QED
    BY <2>3 DEF v
<1>5. ASSUME NEW a \in Threads,
             FolderHave(a) \/ Commit(a) \/ MoveFileCommit(a) \/ MoveFolderRecord(a)
      PROVE  UNCHANGED db \/ db' = View(a) \/ \E q : db' = WithFolders(View(a), q)
  BY <1>5 DEF FolderHave, Commit, MoveFileCommit, MoveFolderRecord
<1>6. ASSUME NEW a \in Threads, InsertImage(a) PROVE IsRight(p, i)'
  BY <1>6, InsertedRows
<1>7. ASSUME NEW a \in Threads,
             \/ SyncFileLook(a) \/ SyncFileGone(a) \/ SyncFileHave(a) \/ PutId(a)
             \/ FolderLook(a) \/ FolderGone(a) \/ DataDelete(a)
             \/ MoveFileCheck(a) \/ MoveFileDisk(a) \/ MoveFileRecord(a) \/ MoveFileBack(a)
             \/ DeleteFileDisk(a) \/ DeleteFileRecord(a) \/ UploadWrite(a)
             \/ MoveFolderDisk(a) \/ DeleteFolderDisk(a) \/ DeleteFolderRecord(a)
      PROVE  UNCHANGED db
  BY <1>7 DEF SyncFileLook, SyncFileGone, SyncFileHave, PutId, FolderLook, FolderGone,
     DataDelete, MoveFileCheck, MoveFileDisk, MoveFileRecord, MoveFileBack, DeleteFileDisk,
     DeleteFileRecord, UploadWrite, MoveFolderDisk, DeleteFolderDisk, DeleteFolderRecord
<1>8. ASSUME NEW a \in Threads, Step(a) PROVE IsRight(p, i)'
  <2>1. CASE FolderHave(a) \/ Commit(a) \/ MoveFileCommit(a) \/ MoveFolderRecord(a)
    BY <1>1, <1>2, <1>4, <1>5, <2>1
  <2>2. CASE ~(FolderHave(a) \/ Commit(a) \/ MoveFileCommit(a) \/ MoveFolderRecord(a))
    BY <1>1, <1>3, <1>6, <1>7, <1>8, <2>2 DEF Step
  <2>3. QED
    BY <2>1, <2>2
<1>9. ASSUME NEW a \in Threads, Start(a) PROVE UNCHANGED db
  BY <1>9 DEF Start, Lookup, MoveFile, DeleteFile, Upload, CreateFolder, MoveFolder,
     DeleteFolder, Purge
<1>10. ASSUME NEW a \in Threads, (\E q : Visit(a, q)) \/ (\E f : DeleteData(a, f))
      PROVE UNCHANGED db
  BY <1>10 DEF Visit, DeleteData
<1>11. ASSUME Refuse \/ Outside \/ UNCHANGED vars PROVE UNCHANGED db
  BY <1>11 DEF Refuse, Outside, vars
<1>12. QED
  BY <1>1, <1>8, <1>9, <1>10, <1>11 DEF Next

\* An ID that is cached, and not late, after a step was so before.
IdsStay == \A p \in FilePaths : cachedId'[p] # NoId /\ p \notin seen'.late =>
               cachedId'[p] = cachedId[p] /\ p \notin seen.late

LEMMA UncachedIds ==
  ASSUME HistoryInv, NEW P, NEW L, cachedId' = Uncached(P),
         seen' = [seen EXCEPT !.late = (@ \cup L) \ P]
  PROVE  IdsStay /\ \A p \in FilePaths : cachedId'[p] # NoId /\ p \notin seen'.late =>
                                             p \notin P /\ p \notin L
<1>1. seen'.late = (seen.late \cup L) \ P
  BY DEF HistoryInv
<1>2. \A p \in FilePaths : cachedId'[p] = IF p \in P THEN NoId ELSE cachedId[p]
  BY DEF Uncached
<1>3. QED
  BY <1>1, <1>2 DEF IdsStay

LEMMA UncacheIds ==
  ASSUME HistoryInv, NEW P, Uncache(P)
  PROVE  IdsStay /\ \A p \in FilePaths : cachedId'[p] # NoId => p \notin P
<1>1. seen'.late = seen.late \ P
  BY DEF HistoryInv, Uncache
<1>2. \A p \in FilePaths : cachedId'[p] = IF p \in P THEN NoId ELSE cachedId[p]
  BY DEF Uncache, Uncached
<1>3. QED
  BY <1>1, <1>2 DEF IdsStay

\* What a session is about to change spares the cached IDs.
Spares(a, w) == \A p \in FilePaths :
    /\ cachedId'[p] # NoId /\ p \notin seen'.late
    /\ IsRight(p, cachedId[p]) /\ ~Touches(act[a].pend, cachedId[p])
    => ~Touches(w, cachedId[p])

Careful(a) == (\A b \in Threads \ {a} : act'[b] = act[b]) /\ Spares(a, act'[a].pend)

LEMMA SparesNothing ==
  ASSUME NEW a, NEW w, \A i : Touches(w, i) => Touches(act[a].pend, i)
  PROVE  Spares(a, w)
BY DEF Spares

LEMMA EndCareful ==
  ASSUME SessionsInv, NEW a \in Threads, End(a)
  PROVE  Careful(a)
BY DEF SessionsInv, End, Careful, Spares, Touches, Idle

LEMMA GoCareful ==
  ASSUME SessionsInv, NEW a \in Threads, NEW r, Go(a, r), Spares(a, r.pend)
  PROVE  Careful(a)
BY DEF SessionsInv, Go, Careful

LEMMA ToCommitCareful ==
  ASSUME SessionsInv, NEW a \in Threads, NEW r, DOMAIN r = Fields,
         ToCommit(a, r), Spares(a, r.pend)
  PROVE  Careful(a)
<1>1. CASE r.pend = {}
  BY <1>1, EndCareful DEF ToCommit
<1>2. CASE r.pend # {}
  <2> DEFINE s == [r EXCEPT !.pc = "commit"]
  <2>1. Go(a, s)
    BY <1>2 DEF ToCommit
  <2>2. s.pend = r.pend
    OBVIOUS
  <2> HIDE DEF s
  <2>3. QED
    BY <2>1, <2>2, GoCareful
<1>3. QED
  BY <1>1, <1>2

\* The keys of the images that it touches are deleted first.
LEMMA SparesUncached ==
  ASSUME HistoryInv, NEW a \in Threads, NEW d \in {db, View(a)}, NEW J, NEW w,
         Uncache(SrcsOf(d, J)),
         \A i : Touches(w, i) => i \in J \/ Touches(act[a].pend, i)
  PROVE  Spares(a, w) /\ IdsStay
<1>1. IdsStay /\ \A p \in FilePaths : cachedId'[p] # NoId => p \notin SrcsOf(d, J)
  BY UncacheIds
<1>2. ASSUME NEW p \in FilePaths, cachedId'[p] # NoId,
             IsRight(p, cachedId[p]), ~Touches(act[a].pend, cachedId[p])
      PROVE  ~Touches(w, cachedId[p])
  <2>1. d.images[cachedId[p]].src = p
    BY <1>2, Untouched DEF IsRight, View
  <2>2. cachedId[p] \notin J
    BY <1>1, <1>2, <2>1 DEF SrcsOf
  <2>3. QED
    BY <1>2, <2>2
<1>3. QED
  BY <1>1, <1>2 DEF Spares

\* delete_image and set_image_src: the key of the path that was loaded is deleted,
\* the ID under another path is late.
LEMMA SparesLoaded ==
  ASSUME HistoryInv, NEW a \in Threads, UncacheLoaded(a), NEW w,
         \A i : Touches(w, i) => i = act[a].id \/ Touches(act[a].pend, i)
  PROVE  Spares(a, w) /\ IdsStay
<1> DEFINE P == {act[a].rec.src}
           L == SrcsOf(db, DOMAIN db.images \cap {act[a].id})
<1>1. IdsStay /\ \A p \in FilePaths : cachedId'[p] # NoId /\ p \notin seen'.late => p \notin L
  <2>1. cachedId' = Uncached(P) /\ seen' = [seen EXCEPT !.late = (@ \cup L) \ P]
    BY DEF UncacheLoaded
  <2> HIDE DEF P, L
  <2>2. QED
    BY <2>1, UncachedIds
<1>2. ASSUME NEW p \in FilePaths, cachedId'[p] # NoId, p \notin seen'.late,
             IsRight(p, cachedId[p]), ~Touches(act[a].pend, cachedId[p])
      PROVE  ~Touches(w, cachedId[p])
  BY <1>1, <1>2 DEF IsRight, SrcsOf
<1>3. QED
  BY <1>1, <1>2 DEF Spares

LEMMA CarefulStep ==
  ASSUME RowsInv, SessionsInv, CacheInv, [Next]_vars, IdsStay,
         NEW a \in Threads, Careful(a)
  PROVE  CacheInv'
<1>1. ASSUME NEW p \in FilePaths, NEW i, i = cachedId'[p], i # NoId, p \notin seen'.late
      PROVE  IsRight(p, i)' /\ \A b \in Threads : ~Touches(act'[b].pend, i)
  <2>1. cachedId[p] = i /\ p \notin seen.late
    BY <1>1 DEF IdsStay
  <2>2. IsRight(p, i) /\ \A b \in Threads : ~Touches(act[b].pend, i)
    BY <1>1, <2>1 DEF CacheInv
  <2>3. IsRight(p, i)'
    BY <2>2, RowsChange
  <2>4. ~Touches(act'[a].pend, i)
    BY <1>1, <2>1, <2>2 DEF Careful, Spares
  <2>5. \A b \in Threads : ~Touches(act'[b].pend, i)
    BY <2>2, <2>4 DEF Careful
  <2>6. QED
    BY <2>3, <2>5
<1>2. QED
  BY <1>1 DEF CacheInv, IsRight, Touches

LEMMA TouchedSets ==
  /\ \A v, w, j : Touches(v \cup w, j) => Touches(v, j) \/ Touches(w, j)
  /\ \A j : ~Touches({}, j)
BY DEF Touches

LEMMA TouchedTrees ==
  /\ \A I, j : Touches(PurgeImages(I), j) => j \in I
  /\ \A F, j : ~Touches(PurgeFolders(F), j) /\ ~Touches(Undelete(F), j)
  /\ \A d, i, j : Touches(DeleteTree(d, i), j) => j \in ActiveIn(d, UndeletedTree(d, i))
<1>1. \A I, j : Touches(PurgeImages(I), j) => j \in I
  BY ChangeFacts DEF Touches, PurgeImages
<1>2. \A F, j : ~Touches(PurgeFolders(F), j) /\ ~Touches(Undelete(F), j)
  BY ChangeFacts DEF Touches, PurgeFolders, Undelete
<1>3. \A d, i, j : Touches(DeleteTree(d, i), j) => j \in ActiveIn(d, UndeletedTree(d, i))
  BY ChangeFacts DEF Touches, DeleteTree
<1>4. QED
  BY <1>1, <1>2, <1>3

LEMMA SameIds ==
  ASSUME cachedId' = cachedId, seen'.late = seen.late
  PROVE  IdsStay
BY DEF IdsStay

LEMMA SyncIsCareful ==
  ASSUME RowsInv, SessionsInv, HistoryInv, NEW a \in Threads,
         \/ SyncFileLook(a) \/ SyncFileGone(a) \/ SyncFileHave(a)
         \/ CreateFolders(a) \/ InsertImage(a)
  PROVE  Careful(a) /\ IdsStay
<1>0. DOMAIN act[a] = Fields
  BY DEF SessionsInv, Shape
<1> USE DEF Fields
<1>1. CASE SyncFileLook(a)
  <2> DEFINE r == [act[a] EXCEPT !.pc = IF act[a].path \in DOMAIN files THEN "have" ELSE "gone"]
  <2>1. Go(a, r) /\ IdsStay
    BY <1>1, SameIds DEF SyncFileLook, Goto
  <2>2. r.pend = act[a].pend
    BY <1>0
  <2> HIDE DEF r
  <2>3. QED
    BY <2>1, <2>2, SparesNothing, GoCareful
<1>2. CASE SyncFileGone(a)
  <2> DEFINE p == act[a].path
             I == {i \in ImagesAt(db, p) : db.images[i].status = "active"}
             F == {db.images[i].folder : i \in I}
             w == {SetImage(i, "status", "deleted") : i \in I}
             r == [act[a] EXCEPT !.pc = "folderlook", !.pend = w,
                       !.path = db.folders[CHOOSE f \in F : TRUE].path]
             s == [act[a] EXCEPT !.pend = w]
  <2>1. \A j : Touches(w, j) => j \in I
    <3> HIDE DEF I
    <3>1. QED
      BY ChangeFacts DEF Touches
  <2>2. Uncache(IF I = {} THEN {} ELSE {p}) /\ (Go(a, r) \/ ToCommit(a, s))
    BY <1>2 DEF SyncFileGone
  <2>3. SrcsOf(db, I) = IF I = {} THEN {} ELSE {p}
    BY DEF SrcsOf, ImagesAt
  <2>4. Uncache(SrcsOf(db, I))
    BY <2>2, <2>3
  <2> HIDE DEF I
  <2>5. r.pend = w /\ s.pend = w /\ DOMAIN s = Fields
    BY <1>0
  <2> HIDE DEF w, r, s
  <2>6. Spares(a, w) /\ IdsStay
    BY <2>1, <2>4, SparesUncached
  <2>7. QED
    BY <2>2, <2>5, <2>6, GoCareful, ToCommitCareful
<1>3. CASE SyncFileHave(a)
  <2> DEFINE p == act[a].path
             i == TheImage(db, p)
             F == DeletedRun(db, db.images[i].folder)
             r == [act[a] EXCEPT !.pc = "chain"]
             s == [act[a] EXCEPT !.pc = "put", !.id = i]
             w == {SetImage(i, "status", "active")} \cup Undelete(F)
             t == [act[a] EXCEPT !.pc = "commit", !.pend = w]
  <2>1. \/ Go(a, r) \/ Go(a, s) \/ End(a)
        \/ Go(a, t) /\ db.images[i].status = "deleted"
    BY <1>3 DEF SyncFileHave, Goto
  <2>2. IdsStay
    BY <1>3, SameIds DEF SyncFileHave
  <2>3. r.pend = act[a].pend /\ s.pend = act[a].pend /\ t.pend = w
    BY <1>0
  <2>4. ASSUME db.images[i].status = "deleted" PROVE Spares(a, w)
    <3>1. \A j : Touches(w, j) => j = i
      <4>1. \A j : ~Touches(Undelete(F), j)
        BY TouchedTrees
      <4> HIDE DEF F, i
      <4>2. QED
        BY <4>1, ChangeFacts DEF Touches
    <3>2. \A q : ~IsRight(q, i)
      BY <2>4 DEF IsRight
    <3> HIDE DEF i, w
    <3>3. QED
      BY <3>1, <3>2 DEF Spares
  <2> HIDE DEF i, w, r, s, t
  <2>5. QED
    BY <2>1, <2>2, <2>3, <2>4, SparesNothing, GoCareful, EndCareful
<1>4. CASE CreateFolders(a)
  <2> DEFINE f == TheFolder(WithFolders(db, ParentOf(act[a].path)), ParentOf(act[a].path))
             r == [act[a] EXCEPT !.pc = "insert", !.fid = f]
  <2>1. Go(a, r) /\ IdsStay
    BY <1>4, SameIds DEF CreateFolders
  <2> HIDE DEF f
  <2>2. r.pend = act[a].pend
    BY <1>0
  <2> HIDE DEF r
  <2>3. QED
    BY <2>1, <2>2, SparesNothing, GoCareful
<1>5. CASE InsertImage(a)
  <2> DEFINE r == [act[a] EXCEPT !.pc = "put", !.id = next.image]
             s == [act[a] EXCEPT !.pc = "have", !.again = TRUE]
  <2>1. (Go(a, r) \/ Go(a, s) \/ End(a)) /\ IdsStay
    BY <1>5, SameIds DEF InsertImage
  <2>2. r.pend = act[a].pend /\ s.pend = act[a].pend
    BY <1>0
  <2> HIDE DEF r, s
  <2>3. QED
    BY <2>1, <2>2, SparesNothing, GoCareful, EndCareful
<1>6. QED
  BY <1>1, <1>2, <1>3, <1>4, <1>5

LEMMA FoldersAreCareful ==
  ASSUME RowsInv, SessionsInv, HistoryInv, NEW a \in Threads,
         FolderLook(a) \/ FolderGone(a) \/ FolderHave(a) \/ Commit(a) \/ DataDelete(a)
  PROVE  Careful(a) /\ IdsStay
<1>0. DOMAIN act[a] = Fields
  BY DEF SessionsInv, Shape
<1> USE DEF Fields
<1>1. CASE FolderLook(a)
  <2> DEFINE r == [act[a] EXCEPT !.pc =
                       IF act[a].path \in dirs THEN "folderhave" ELSE "foldergone"]
  <2>1. Go(a, r) /\ IdsStay
    BY <1>1, SameIds DEF FolderLook, Goto
  <2>2. r.pend = act[a].pend
    BY <1>0
  <2> HIDE DEF r
  <2>3. QED
    BY <2>1, <2>2, SparesNothing, GoCareful
<1>2. CASE FolderGone(a)
  <2> DEFINE F == {f \in FoldersAt(View(a), act[a].path) : View(a).folders[f].status = "active"}
             w == act[a].pend \cup {SetFolder(f, "status", "deleted") : f \in F}
             r == [act[a] EXCEPT !.pc = "commit", !.pend = w]
  <2>1. (Go(a, r) \/ End(a)) /\ IdsStay
    BY <1>2, SameIds DEF FolderGone
  <2>2. \A j : Touches(w, j) => Touches(act[a].pend, j)
    <3> HIDE DEF F
    <3>1. QED
      BY ChangeFacts DEF Touches
  <2> HIDE DEF w
  <2>3. r.pend = w
    BY <1>0
  <2> HIDE DEF r
  <2>4. QED
    BY <2>1, <2>2, <2>3, SparesNothing, GoCareful, EndCareful
<1>3. CASE FolderHave(a)
  <2> DEFINE p == act[a].path
             v == View(a)
             f == TheFolder(v, p)
             g == TheFolder(WithFolders(v, p), p)
             w == act[a].pend \cup Undelete(DeletedRun(v, f))
             r == [act[a] EXCEPT !.pend = {}, !.fid = g]
             s == [act[a] EXCEPT !.fid = f, !.pend = w]
             Then(q) == IF q.op = "movefile" THEN Go(a, [q EXCEPT !.pc = "mv_check"])
                                             ELSE ToCommit(a, q)
  <2>1. ASSUME NEW q, DOMAIN q = Fields, Spares(a, q.pend), Then(q) PROVE Careful(a)
    <3> DEFINE t == [q EXCEPT !.pc = "mv_check"]
    <3>1. Go(a, t) \/ ToCommit(a, q)
      BY <2>1
    <3>2. t.pend = q.pend
      OBVIOUS
    <3> HIDE DEF t
    <3>3. QED
      BY <2>1, <3>1, <3>2, GoCareful, ToCommitCareful
  <2>2. (Then(r) \/ Then(s) \/ End(a)) /\ IdsStay
    BY <1>3, SameIds DEF FolderHave
  <2>3. Spares(a, w)
    <3>1. \A j : Touches(w, j) => Touches(act[a].pend, j)
      BY TouchedSets, TouchedTrees
    <3> HIDE DEF w
    <3>2. QED
      BY <3>1, SparesNothing
  <2>4. Spares(a, {})
    BY TouchedSets, SparesNothing
  <2> HIDE DEF v, w, f, g, Then
  <2>5. r.pend = {} /\ s.pend = w /\ DOMAIN r = Fields /\ DOMAIN s = Fields
    BY <1>0
  <2> HIDE DEF r, s
  <2>6. QED
    BY <2>1, <2>2, <2>3, <2>4, <2>5, EndCareful
<1>4. CASE Commit(a)
  BY <1>4, EndCareful, SameIds DEF Commit
<1>5. CASE DataDelete(a)
  <2> DEFINE f == act[a].fid
             w == DeleteTree(db, f)
             J == ActiveIn(db, UndeletedTree(db, f))
             r == [act[a] EXCEPT !.pc = "commit", !.pend = w]
  <2>1. \/ Go(a, r) /\ Uncache(SrcsOf(db, J))
        \/ End(a) /\ UNCHANGED <<cachedId, seen>>
    BY <1>5 DEF DataDelete
  <2>2. \A j : Touches(w, j) => j \in J
    BY TouchedTrees
  <2> HIDE DEF w, J
  <2>3. r.pend = w
    BY <1>0
  <2> HIDE DEF r
  <2>4. QED
    BY <2>1, <2>2, <2>3, SparesUncached, GoCareful, EndCareful, SameIds
<1>6. QED
  BY <1>1, <1>2, <1>3, <1>4, <1>5

LEMMA MovesAreCareful ==
  ASSUME RowsInv, SessionsInv, HistoryInv, NEW a \in Threads,
         \/ MoveFileCheck(a) \/ MoveFileDisk(a) \/ MoveFileRecord(a)
         \/ MoveFileCommit(a) \/ MoveFileBack(a)
  PROVE  Careful(a) /\ IdsStay
<1>0. DOMAIN act[a] = Fields
  BY DEF SessionsInv, Shape
<1> USE DEF Fields
<1>1. CASE MoveFileCheck(a)
  <2> DEFINE J == ImagesAt(View(a), act[a].to)
             w == act[a].pend \cup PurgeImages(J)
             b == act[a].to \in DOMAIN files
             r == [act[a] EXCEPT !.pc = "mv_disk", !.saw = b, !.pend = w]
  <2>1. \/ Go(a, r) /\ Uncache(SrcsOf(View(a), J))
        \/ End(a) /\ UNCHANGED <<cachedId, seen>>
    BY <1>1 DEF MoveFileCheck
  <2>2. \A j : Touches(w, j) => j \in J \/ Touches(act[a].pend, j)
    BY TouchedSets, TouchedTrees
  <2> HIDE DEF w, J, b
  <2>3. r.pend = w
    BY <1>0
  <2> HIDE DEF r
  <2>4. QED
    BY <2>1, <2>2, <2>3, SparesUncached, GoCareful, EndCareful, SameIds
<1>2. CASE MoveFileDisk(a)
  <2> DEFINE r == [act[a] EXCEPT !.pc = "mv_record"]
  <2>1. Go(a, r) \/ End(a)
    BY <1>2 DEF MoveFileDisk, Goto
  <2>2. cachedId' = cachedId /\ (seen' = seen \/ seen' = Replaces(act[a].to, FALSE))
    BY <1>2 DEF MoveFileDisk
  <2>3. seen'.late = seen.late
    BY <2>2 DEF Replaces, HistoryInv
  <2>4. r.pend = act[a].pend
    BY <1>0
  <2> HIDE DEF r
  <2>5. QED
    BY <2>1, <2>2, <2>3, <2>4, SparesNothing, GoCareful, EndCareful, SameIds
<1>3. CASE MoveFileRecord(a)
  <2> DEFINE i == act[a].id
             w == act[a].pend \cup
                      {SetImage(i, "src", act[a].to), SetImage(i, "folder", act[a].fid)} \cup
                      (IF act[a].rec.status = "active" THEN {}
                       ELSE {SetImage(i, "status", "active")})
             r == [act[a] EXCEPT !.pc = "mv_commit", !.pend = w]
  <2>1. Go(a, r) /\ UncacheLoaded(a)
    BY <1>3 DEF MoveFileRecord
  <2>2. \A j : Touches(w, j) => j = i \/ Touches(act[a].pend, j)
    BY ChangeFacts DEF Touches
  <2> HIDE DEF w
  <2>3. r.pend = w
    BY <1>0
  <2> HIDE DEF r
  <2>4. QED
    BY <2>1, <2>2, <2>3, SparesLoaded, GoCareful
<1>4. CASE MoveFileCommit(a)
  <2> DEFINE r == [act[a] EXCEPT !.pc = "mv_back"]
  <2>1. (Go(a, r) \/ End(a)) /\ IdsStay
    BY <1>4, SameIds DEF MoveFileCommit, Goto
  <2>2. r.pend = act[a].pend
    BY <1>0
  <2> HIDE DEF r
  <2>3. QED
    BY <2>1, <2>2, SparesNothing, GoCareful, EndCareful
<1>5. CASE MoveFileBack(a)
  <2>1. /\ End(a) /\ cachedId' = cachedId
        /\ seen' = seen \/ seen' = Replaces(act[a].rec.src, FALSE)
    BY <1>5 DEF MoveFileBack
  <2>2. seen'.late = seen.late
    BY <2>1 DEF Replaces, HistoryInv
  <2>3. QED
    BY <2>1, <2>2, EndCareful, SameIds
<1>6. QED
  BY <1>1, <1>2, <1>3, <1>4, <1>5

LEMMA OthersAreCareful ==
  ASSUME RowsInv, SessionsInv, HistoryInv, NEW a \in Threads,
         \/ DeleteFileDisk(a) \/ DeleteFileRecord(a) \/ UploadWrite(a)
         \/ MoveFolderDisk(a) \/ MoveFolderRecord(a)
         \/ DeleteFolderDisk(a) \/ DeleteFolderRecord(a)
  PROVE  Careful(a) /\ IdsStay
<1>0. DOMAIN act[a] = Fields
  BY DEF SessionsInv, Shape
<1> USE DEF Fields
<1>1. CASE DeleteFileDisk(a)
  <2> DEFINE r == [act[a] EXCEPT !.pc = "rm_record"]
  <2>1. Go(a, r) /\ cachedId' = cachedId /\ seen'.late = seen.late
    BY <1>1 DEF DeleteFileDisk, Goto, RemoveFiles, HistoryInv
  <2>2. r.pend = act[a].pend
    BY <1>0
  <2> HIDE DEF r
  <2>3. QED
    BY <2>1, <2>2, SparesNothing, GoCareful, SameIds
<1>2. CASE DeleteFileRecord(a)
  <2> DEFINE b == act[a].rec.status = "active"
             w == IF b THEN {SetImage(act[a].id, "status", "deleted")} ELSE {}
             r == [act[a] EXCEPT !.pend = w]
  <2>1. ToCommit(a, r) /\ IF b THEN UncacheLoaded(a) ELSE UNCHANGED <<cachedId, seen>>
    BY <1>2 DEF DeleteFileRecord
  <2>2. /\ b => \A j : Touches(w, j) => j = act[a].id
        /\ ~b => \A j : ~Touches(w, j)
    BY ChangeFacts, TouchedSets DEF Touches
  <2> HIDE DEF w, b
  <2>3. r.pend = w /\ DOMAIN r = Fields
    BY <1>0
  <2> HIDE DEF r
  <2>4. Spares(a, w) /\ IdsStay
    BY <2>1, <2>2, SparesLoaded, SparesNothing, SameIds
  <2>5. QED
    BY <2>1, <2>3, <2>4, ToCommitCareful
<1>3. CASE UploadWrite(a)
  <2> DEFINE r == [act[a] EXCEPT !.pc = "look"]
             s == Replaces(act[a].path, act[a].saw)
  <2>1. act[a].saw \in BOOLEAN
    BY <1>3 DEF UploadWrite, SessionsInv, Shape
  <2>2. s.late = seen.late /\ DOMAIN s = {"stored", "removed", "raced", "late"}
    BY <2>1 DEF Replaces, HistoryInv
  <2>3. (Go(a, r) \/ End(a)) /\ cachedId' = cachedId
        /\ (seen' = seen \/ \E c : seen' = [s EXCEPT !.stored = @ \cup {c}])
    BY <1>3 DEF UploadWrite, Goto
  <2> HIDE DEF s
  <2>4. seen'.late = seen.late
    BY <2>2, <2>3
  <2>5. r.pend = act[a].pend
    BY <1>0
  <2> HIDE DEF r
  <2>6. QED
    BY <2>3, <2>4, <2>5, SparesNothing, GoCareful, EndCareful, SameIds
<1>4. CASE MoveFolderDisk(a)
  <2> DEFINE r == [act[a] EXCEPT !.pc = "mvf_record"]
  <2>1. (Go(a, r) \/ End(a)) /\ IdsStay
    BY <1>4, SameIds DEF MoveFolderDisk, Goto
  <2>2. r.pend = act[a].pend
    BY <1>0
  <2> HIDE DEF r
  <2>3. QED
    BY <2>1, <2>2, SparesNothing, GoCareful, EndCareful
<1>5. CASE MoveFolderRecord(a)
  <2> DEFINE from == act[a].path
             to   == act[a].to
             i    == act[a].fid
             v    == View(a)
             F    == WholeTree(v, i)
             I    == ImagesIn(v, F)
             A    == {SetFolder(i, "path", to),
                      SetFolder(i, "parent", TheFolder(v, ParentOf(to)))}
             B    == {SetFolder(j, "path", Rebase(v.folders[j].path, from, to)) : j \in F \ {i}}
             C    == {SetImage(k, "src", Rebase(v.images[k].src, from, to)) : k \in I}
             w    == act[a].pend \cup A \cup B \cup C
             r == [act[a] EXCEPT !.pend = {}]
             s == [act[a] EXCEPT !.pc = "commit", !.pend = w]
  <2>1. \/ (Go(a, r) \/ End(a)) /\ UNCHANGED <<cachedId, seen>>
        \/ Go(a, s) /\ Uncache(SrcsOf(v, I))
    BY <1>5 DEF MoveFolderRecord
  <2>2. \A j : Touches(w, j) => j \in I \/ Touches(act[a].pend, j)
    <3>1. \A j : ~Touches(A, j)
      BY ChangeFacts DEF Touches
    <3>2. \A j : ~Touches(B, j)
      <4> HIDE DEF F, v
      <4>1. QED
        BY ChangeFacts DEF Touches
    <3>3. \A j : Touches(C, j) => j \in I
      <4> HIDE DEF I, v
      <4>1. QED
        BY ChangeFacts DEF Touches
    <3> HIDE DEF A, B, C
    <3>4. QED
      <4> HIDE DEF I
      <4>1. QED
        BY <3>1, <3>2, <3>3 DEF Touches
  <2>3. Spares(a, {})
    BY TouchedSets, SparesNothing
  <2> HIDE DEF w, I
  <2>4. r.pend = {} /\ s.pend = w
    BY <1>0
  <2> HIDE DEF r, s
  <2>5. ASSUME Go(a, s), Uncache(SrcsOf(v, I)) PROVE Careful(a) /\ IdsStay
    BY <2>2, <2>4, <2>5, SparesUncached, GoCareful
  <2>6. QED
    BY <2>1, <2>3, <2>4, <2>5, GoCareful, EndCareful, SameIds
<1>6. CASE DeleteFolderDisk(a)
  <2> DEFINE r == [act[a] EXCEPT !.pc = "rmf_record"]
  <2>1. Go(a, r) /\ cachedId' = cachedId /\ seen'.late = seen.late
    BY <1>6 DEF DeleteFolderDisk, Goto, RemoveFiles, HistoryInv
  <2>2. r.pend = act[a].pend
    BY <1>0
  <2> HIDE DEF r
  <2>3. QED
    BY <2>1, <2>2, SparesNothing, GoCareful, SameIds
<1>7. CASE DeleteFolderRecord(a)
  <2> DEFINE i == act[a].fid
             go == act[a].saw /\ i \in DOMAIN db.folders
             J == IF go THEN ActiveIn(db, UndeletedTree(db, i)) ELSE {}
             w == IF go THEN DeleteTree(db, i) ELSE {}
             r == [act[a] EXCEPT !.pend = w]
  <2>1. ToCommit(a, r)
    BY <1>7 DEF DeleteFolderRecord
  <2>2. Uncache(SrcsOf(db, J))
    <3>1. Uncache(IF go THEN SrcsOf(db, ActiveIn(db, UndeletedTree(db, i))) ELSE {})
      BY <1>7 DEF DeleteFolderRecord
    <3>2. SrcsOf(db, {}) = {}
      BY DEF SrcsOf
    <3>3. QED
      BY <3>1, <3>2
  <2>3. \A j : Touches(w, j) => j \in J
    BY TouchedTrees, TouchedSets
  <2> HIDE DEF w, J
  <2>4. r.pend = w /\ DOMAIN r = Fields
    BY <1>0
  <2> HIDE DEF r
  <2>5. Spares(a, w) /\ IdsStay
    BY <2>2, <2>3, SparesUncached
  <2>6. QED
    BY <2>1, <2>4, <2>5, ToCommitCareful
<1>8. QED
  BY <1>1, <1>2, <1>3, <1>4, <1>5, <1>6, <1>7

LEMMA BeginningsAreCareful ==
  ASSUME RowsInv, SessionsInv, HistoryInv, NEW a \in Threads, Start(a)
  PROVE  Careful(a) /\ IdsStay
<1>0. DOMAIN act[a] = Fields
  BY DEF SessionsInv, Shape
<1> USE DEF Fields
<1>1. ASSUME NEW r, Go(a, r), r.pend = act[a].pend, UNCHANGED <<cachedId, seen>>
      PROVE  Careful(a) /\ IdsStay
  BY <1>1, SparesNothing, GoCareful, SameIds
<1>2. ASSUME NEW p \in FilePaths, Lookup(a, p) PROVE Careful(a) /\ IdsStay
  BY <1>0, <1>1, <1>2 DEF Lookup, LookupStart
<1>3. ASSUME NEW i, NEW p, MoveFile(a, i, p) PROVE Careful(a) /\ IdsStay
  BY <1>0, <1>1, <1>3 DEF MoveFile, MoveFileStart
<1>4. ASSUME NEW i, DeleteFile(a, i) PROVE Careful(a) /\ IdsStay
  BY <1>0, <1>1, <1>4 DEF DeleteFile, DeleteFileStart
<1>5. ASSUME NEW p, NEW o, Upload(a, p, o) PROVE Careful(a) /\ IdsStay
  BY <1>0, <1>1, <1>5 DEF Upload, UploadStart
<1>6. ASSUME NEW p, CreateFolder(a, p) PROVE Careful(a) /\ IdsStay
  BY <1>0, <1>1, <1>6 DEF CreateFolder, CreateFolderStart
<1>7. ASSUME NEW i, DeleteFolder(a, i) PROVE Careful(a) /\ IdsStay
  BY <1>0, <1>1, <1>7 DEF DeleteFolder, DeleteFolderStart
<1>8. ASSUME NEW i, NEW to, MoveFolder(a, i, to) PROVE Careful(a) /\ IdsStay
  <2> DEFINE w == IF FoldersAt(db, to) = {} THEN {} ELSE PurgeTree(db, TheFolder(db, to))
             J == {u[2] : u \in {u \in w : u[1] = "i"}}
             r == [act[a] EXCEPT !.op = "movefolder", !.pc = "mvf_disk", !.fid = i,
                       !.path = db.folders[i].path, !.to = to, !.pend = w]
  <2>1. Go(a, r) /\ Uncache(SrcsOf(db, J))
    BY <1>8 DEF MoveFolder, MoveFolderStart
  <2>2. \A j : Touches(w, j) => j \in J
    <3> HIDE DEF w
    <3>1. QED
      BY DEF Touches
  <2> HIDE DEF w, J
  <2>3. r.pend = w
    BY <1>0
  <2> HIDE DEF r
  <2>4. QED
    BY <2>1, <2>2, <2>3, SparesUncached, GoCareful
<1>9. ASSUME NEW i, Purge(a, i) PROVE Careful(a) /\ IdsStay
  <2> DEFINE J == DeletedImages(db, i)
             w == PurgeImages(J) \cup PurgeFolders(EmptiedFolders(db, i))
             r == [act[a] EXCEPT !.op = "purge", !.pc = "commit", !.pend = w]
  <2>1. Go(a, r) /\ Uncache(SrcsOf(db, J))
    BY <1>9 DEF Purge, PurgeStart
  <2>2. \A j : Touches(w, j) => j \in J
    BY TouchedSets, TouchedTrees
  <2> HIDE DEF w, J
  <2>3. r.pend = w
    BY <1>0
  <2> HIDE DEF r
  <2>4. QED
    BY <2>1, <2>2, <2>3, SparesUncached, GoCareful
<1>10. QED
  BY <1>2, <1>3, <1>4, <1>5, <1>6, <1>7, <1>8, <1>9 DEF Start

LEMMA PutStep ==
  ASSUME RowsInv, SessionsInv, HistoryInv, CacheInv, NEW a \in Threads, PutId(a)
  PROVE  CacheInv'
<1> DEFINE p == act[a].path
           i == act[a].id
           late == ~IsRight(p, i) \/ \E b \in Threads \ {a} : Touches(act[b].pend, i)
<1>1. /\ cachedId' = [cachedId EXCEPT ![p] = i] /\ db' = db
      /\ seen' = [seen EXCEPT !.late = IF late THEN @ \cup {p} ELSE @ \ {p}]
      /\ act' = [act EXCEPT ![a] = Idle]
  BY DEF PutId, End
<1>2. seen'.late = IF late THEN seen.late \cup {p} ELSE seen.late \ {p}
  BY <1>1 DEF HistoryInv
<1>3. \A b \in Threads : act'[b] = IF b = a THEN Idle ELSE act[b]
  BY <1>1 DEF SessionsInv
<1>4. \A j : ~Touches(act'[a].pend, j)
  BY <1>3 DEF Touches, Idle
<1>5. p \in FilePaths
  BY DEF PutId, SessionsInv, Shape, AtFile
<1>6. \A q \in FilePaths : cachedId'[q] = IF q = p THEN i ELSE cachedId[q]
  BY <1>1, <1>5 DEF RowsInv
<1>7. \A q, j : IsRight(q, j) => IsRight(q, j)'
  BY <1>1 DEF IsRight
<1>8. ASSUME NEW q \in FilePaths, NEW j, j = cachedId'[q], j # NoId, q \notin seen'.late
      PROVE  IsRight(q, j)' /\ \A b \in Threads : ~Touches(act'[b].pend, j)
  <2>1. CASE q = p
    <3>1. ~late /\ j = i
      BY <1>2, <1>6, <1>8, <2>1
    <3>2. IsRight(q, j) /\ \A b \in Threads \ {a} : ~Touches(act[b].pend, j)
      BY <2>1, <3>1
    <3>3. QED
      BY <1>3, <1>4, <1>7, <3>2
  <2>2. CASE q # p
    <3>1. cachedId[q] = j /\ q \notin seen.late
      BY <1>2, <1>6, <1>8, <2>2
    <3>2. IsRight(q, j) /\ \A b \in Threads : ~Touches(act[b].pend, j)
      BY <1>8, <3>1 DEF CacheInv
    <3>3. QED
      BY <1>3, <1>4, <1>7, <3>2
  <2>3. QED
    BY <2>1, <2>2
<1>9. QED
  BY <1>8 DEF CacheInv, IsRight, Touches

LEMMA CacheStep ==
  ASSUME RowsInv, SessionsInv, HistoryInv, CacheInv, [Next]_vars
  PROVE  CacheInv'
<1>1. ASSUME NEW a \in Threads, Step(a), ~PutId(a) PROVE Careful(a) /\ IdsStay
  BY <1>1, SyncIsCareful, FoldersAreCareful, MovesAreCareful, OthersAreCareful DEF Step
<1>2. ASSUME NEW a \in Threads, Step(a) PROVE CacheInv'
  BY <1>1, <1>2, PutStep, CarefulStep
<1>3. ASSUME NEW a \in Threads, Start(a) PROVE CacheInv'
  BY <1>3, BeginningsAreCareful, CarefulStep
<1>4. ASSUME NEW a \in Threads, NEW p, Visit(a, p) PROVE CacheInv'
  <2>1. Go(a, Sync(a, p)) /\ IdsStay
    BY <1>4, SameIds DEF Visit
  <2>2. Sync(a, p).pend = act[a].pend
    BY DEF Sync, SessionsInv, Shape, Fields
  <2>3. QED
    BY <2>1, <2>2, SparesNothing, GoCareful, CarefulStep
<1>5. ASSUME NEW a \in Threads, NEW f, DeleteData(a, f) PROVE CacheInv'
  <2> DEFINE r == [act[a] EXCEPT !.op = "data", !.fid = f, !.pc = "data"]
  <2>1. Go(a, r) /\ IdsStay
    BY <1>5, SameIds DEF DeleteData, DataStart
  <2>2. r.pend = act[a].pend
    BY DEF SessionsInv, Shape, Fields
  <2> HIDE DEF r
  <2>3. QED
    BY <2>1, <2>2, SparesNothing, GoCareful, CarefulStep
<1>6. CASE Outside
  <2>1. /\ UNCHANGED <<db, cachedId, act>>
        /\ \/ \E p \in FilePaths : OutsideAdds(p) \/ OutsideRemoves(p)
           \/ \E p \in FolderPaths : OutsideRemovesFolder(p) \/ OutsideMakesFolder(p)
    BY <1>6 DEF Outside
  <2>2. seen'.late = seen.late
    BY <2>1 DEF OutsideAdds, OutsideRemoves, OutsideRemovesFolder, OutsideMakesFolder,
       RemoveFiles, HistoryInv
  <2>3. QED
    BY <2>1, <2>2 DEF CacheInv, IsRight, Touches
<1>7. CASE Refuse \/ UNCHANGED vars
  <2>1. UNCHANGED <<db, cachedId, act, seen>>
    BY <1>7 DEF Refuse, DataRefused, vars
  <2>2. QED
    BY <2>1 DEF CacheInv, IsRight, Touches
<1>8. QED
  BY <1>2, <1>3, <1>4, <1>5, <1>6, <1>7 DEF Next

-----------------------------------------------------------------------------
(* The invariant *)

IInv == DiskSafe /\ RowsInv /\ SessionsInv /\ CacheInv /\ round \in 0..Len(Walk)

LEMMA AtFirst ==
  ASSUME Init
  PROVE  IInv
<1>1. PICK s \in Starts : dirs = s.dirs /\ files = s.files /\ db = s.db
  BY DEF Init
<1>2. /\ dirs \subseteq FolderPaths /\ Root \in dirs
      /\ DOMAIN files \subseteq FilePaths
      /\ \A p \in DOMAIN files : files[p] \in Contents
      /\ Reachable(dirs, DOMAIN files)
  BY <1>1, StartsAssumption
<1>3. seen = [stored |-> {files[p] : p \in DOMAIN files}, removed |-> {}, raced |-> {}, late |-> {}]
  BY DEF Init
<1>4. DiskSafe
  BY <1>2, <1>3 DEF DiskSafe, DiskInv, HistoryInv, NoFileIsLost
<1>5. PICK n \in 0..MaxImages : DOMAIN db.images = 1..n
  BY <1>1, StartsAssumption
<1>6. PICK m \in 0..MaxFolders : DOMAIN db.folders = 1..m
  BY <1>1, StartsAssumption
<1>7. n \in Nat /\ n <= MaxImages /\ m \in Nat /\ m <= MaxFolders
      /\ Cardinality(1..n) = n /\ Cardinality(1..m) = m
  <2>1. n \in Nat /\ n <= MaxImages /\ m \in Nat /\ m <= MaxFolders
    BY BoundsAssumption
  <2>2. Cardinality(1..n) = n /\ Cardinality(1..m) = m
    BY <2>1, FS_Interval
  <2>3. QED
    BY <2>1, <2>2
<1>8. RowsOK(db) /\ Linked(db)
  <2>1. /\ DOMAIN db = {"images", "folders"}
        /\ \A i \in DOMAIN db.images :
               db.images[i] \in Image /\ db.images[i].folder \in DOMAIN db.folders
        /\ \A i \in DOMAIN db.folders : db.folders[i] \in Folder
    BY <1>1, StartsAssumption DEF Sound
  <2>2. DOMAIN db.images \subseteq ImageIds /\ DOMAIN db.folders \subseteq FolderIds
    BY <1>5, <1>6, <1>7, BoundsAssumption DEF ImageIds, FolderIds
  <2>3. QED
    BY <2>1, <2>2 DEF RowsOK, Linked
<1>9. next = [image |-> n + 1, folder |-> m + 1]
  BY <1>5, <1>6, <1>7 DEF Init
<1>10. /\ DOMAIN next = {"image", "folder"}
       /\ next.image \in Nat \ {0} /\ \A i \in DOMAIN db.images : i < next.image
       /\ next.folder \in Nat \ {0} /\ \A i \in DOMAIN db.folders : i < next.folder
  BY <1>5, <1>6, <1>7, <1>9
<1>11. ASSUME NEW p \in FilePaths
       PROVE  /\ cachedId[p] \in 0..MaxImages
              /\ cachedId[p] # NoId => IsRight(p, cachedId[p])
  <2> DEFINE R == {i \in DOMAIN db.images : IsRight(p, i)}
             c == CHOOSE i \in DOMAIN db.images : IsRight(p, i)
  <2>1. NoId \in 0..MaxImages /\ DOMAIN db.images \subseteq 0..MaxImages
    BY <1>5, <1>7, BoundsAssumption DEF NoId
  <2>2. ASSUME \E i \in DOMAIN db.images : IsRight(p, i) PROVE c \in DOMAIN db.images /\ IsRight(p, c)
    BY <2>2
  <2>3. \/ cachedId[p] = NoId
        \/ cachedId[p] = c /\ \E i \in DOMAIN db.images : IsRight(p, i)
    BY DEF Init
  <2> HIDE DEF c
  <2>4. QED
    BY <2>1, <2>2, <2>3
<1>12. cachedId \in [FilePaths -> 0..MaxImages]
  <2>1. cachedId = [p \in FilePaths |-> cachedId[p]]
    BY DEF Init
  <2>2. QED
    BY <1>11, <2>1
<1>13. tasks = {} /\ act = [a \in Threads |-> Idle] /\ round = 0
  BY DEF Init
<1>14. RowsInv
  BY <1>8, <1>10, <1>12, <1>13 DEF RowsInv
<1>15. SessionsInv
  BY <1>13, IdleShape DEF SessionsInv
<1>16. CacheInv
  BY <1>11, <1>13 DEF CacheInv, Touches, Idle
<1>17. 0 \in 0..Len(Walk)
  BY PathsAssumption, LenProperties
<1>18. QED
  BY <1>4, <1>13, <1>14, <1>15, <1>16, <1>17 DEF IInv

LEMMA RoundStep ==
  ASSUME round \in 0..Len(Walk), [Next]_vars
  PROVE  round' \in 0..Len(Walk)
<1>1. Len(Walk) \in Nat
  BY PathsAssumption, LenProperties
<1>2. \/ round' = round \/ round' = 0
      \/ round < Len(Walk) /\ round' = round + 1
  BY DEF Next, vars
<1>3. QED
  BY <1>1, <1>2

LEMMA EachStep ==
  ASSUME IInv, [Next]_vars
  PROVE  IInv'
<1>1. DiskSafe /\ DiskInv /\ HistoryInv /\ RowsInv /\ SessionsInv /\ CacheInv
      /\ round \in 0..Len(Walk)
  BY DEF IInv, DiskSafe
<1>2. DiskSafe' /\ RowsInv' /\ SessionsInv' /\ CacheInv' /\ round' \in 0..Len(Walk)
  BY <1>1, DiskStep, RowsStep, SessionsStep, CacheStep, RoundStep
<1>3. QED
  BY <1>2 DEF IInv

LEMMA ParentsAreThere ==
  ASSUME DiskInv
  PROVE  \A p \in dirs \cup DOMAIN files : ParentOf(p) \in dirs
<1> SUFFICES ASSUME NEW p \in dirs \cup DOMAIN files PROVE ParentOf(p) \in dirs
  OBVIOUS
<1>1. p \in Paths
  BY DEF DiskInv, Paths
<1>2. ParentOf(p) \in FolderPaths /\ IsPrefix(ParentOf(p), p)
  BY <1>1, PathFacts, ParentFacts
<1>3. QED
  BY <1>2 DEF DiskInv, Reachable

LEMMA InvariantGives ==
  ASSUME IInv
  PROVE  TypeOK /\ NoFileIsLost /\ CachedIdIsRight
<1>1. TypeOK
  <2>1. \A p \in dirs \cup DOMAIN files : ParentOf(p) \in dirs
    BY ParentsAreThere DEF IInv, DiskSafe
  <2>2. QED
    BY <2>1 DEF IInv, DiskSafe, DiskInv, RowsInv, RowsOK, SessionsInv, TypeOK, ImageIds, FolderIds
<1>2. NoFileIsLost
  BY DEF IInv, DiskSafe
<1>3. CachedIdIsRight
  BY DEF IInv, CacheInv, CachedIdIsRight
<1>4. QED
  BY <1>1, <1>2, <1>3

LEMMA Invariant == Spec => []IInv
<1>1. Init => IInv
  BY AtFirst
<1>2. IInv /\ [Next]_vars => IInv'
  BY EachStep
<1>3. QED
  BY <1>1, <1>2, PTL DEF Spec

\* The paths on disk lead to the root, the rows and the cached IDs are of their
\* types, and the queue has tasks of folders: whatever operations, other programs
\* and faults do, in any order.
THEOREM TypeCorrect == Spec => []TypeOK
<1>1. IInv => TypeOK
  BY InvariantGives
<1>2. QED
  BY <1>1, Invariant, PTL

\* A file that was stored is on disk, unless someone removed or replaced it on
\* purpose, or it came to a path that an operation had found free (move_file's check
\* and rename, the way back of a move that the database refuses, an upload's check
\* and write).
THEOREM NothingIsLost == Spec => []NoFileIsLost
<1>1. IInv => NoFileIsLost
  BY InvariantGives
<1>2. QED
  BY <1>1, Invariant, PTL

\* get_or_create_image_id answers with the ID of the path's active record, unless
\* the ID was stored after another operation had changed the record or deleted the
\* key, or the operation had loaded the record before its path was changed.
THEOREM CachedIdsAreRight == Spec => []CachedIdIsRight
<1>1. IInv => CachedIdIsRight
  BY InvariantGives
<1>2. QED
  BY <1>1, Invariant, PTL

-----------------------------------------------------------------------------
(* The trees and chains of folders, which are recursive functions: what     *)
(* holds of every element, from the first one on.  The least number that    *)
(* breaks a claim takes the place of an induction.                          *)

LEMMA LeastNumber ==
  ASSUME NEW S \in SUBSET Nat, S # {}
  PROVE  \E n \in S : \A m \in S : n <= m
<1> DEFINE R == {ss \in Nat \X Nat : ss[1] < ss[2]}
<1>1. IsWellFoundedOn(R, Nat)
  BY NatLessThanWellFounded DEF OpToRel
<1>2. \A m, n \in Nat : m < n => <<m, n>> \in R
  OBVIOUS
<1> HIDE DEF R
<1>3. PICK n \in S : \A m \in S : <<m, n>> \notin R
  BY <1>1, WFMin, Zenon
<1>4. ASSUME NEW m \in S
      PROVE  n <= m
  <2>1. m \in Nat /\ n \in Nat
    OBVIOUS
  <2>2. ~(m < n)
    BY <1>2, <1>3, <2>1
  <2>3. QED
    BY <2>1, <2>2
<1>5. QED
  BY <1>4

\* A function that is defined from its value before exists.
Iterated(X, G, base, N) ==
    \E f \in [0..N -> X] : f[0] = base /\ \A n \in 1..N : f[n] = G[f[n - 1]]

LEMMA Iterates ==
  ASSUME NEW X, NEW G \in [X -> X], NEW base \in X, NEW N \in Nat
  PROVE  Iterated(X, G, base, N)
<1> USE DEF Iterated
<1> DEFINE Has(k) == \E f \in [0..k -> X] : f[0] = base /\ \A n \in 1..k : f[n] = G[f[n - 1]]
           S == {k \in Nat : ~Has(k)}
<1> SUFFICES ASSUME S # {} PROVE FALSE
  OBVIOUS
<1>1. PICK k \in S : \A m \in S : k <= m
  BY LeastNumber
<1>2. CASE k = 0
  <2> DEFINE g == [n \in 0..0 |-> base]
  <2>1. g \in [0..0 -> X] /\ g[0] = base /\ 1..0 = {}
    OBVIOUS
  <2> HIDE DEF g
  <2>2. Has(0)
    BY <2>1
  <2>3. QED
    BY <1>2, <2>2
<1>3. CASE k # 0
  <2> HIDE DEF Has
  <2>1. k - 1 \in Nat /\ ~(k <= k - 1)
    BY <1>3
  <2>0. Has(k - 1)
    BY <1>1, <2>1
  <2> USE DEF Has
  <2>2. PICK f \in [0..(k - 1) -> X] : f[0] = base /\ \A n \in 1..(k - 1) : f[n] = G[f[n - 1]]
    BY <2>0
  <2> DEFINE g == [n \in 0..k |-> IF n = k THEN G[f[k - 1]] ELSE f[n]]
  <2>3. f[k - 1] \in X
    BY <2>1
  <2>4. g \in [0..k -> X]
    BY <2>1, <2>3
  <2>5. g[0] = base
    BY <1>3, <2>2
  <2>6. \A n \in 1..k : g[n] = G[g[n - 1]]
    BY <2>1, <2>2
  <2> HIDE DEF g
  <2>7. Has(k)
    BY <2>4, <2>5, <2>6
  <2>8. QED
    BY <2>7
<1>4. QED
  BY <1>2, <1>3

\* Tree is the last of the sets that grow by the children among S.
TreeBy(d, i, S, N, f) ==
    /\ N \in Nat /\ N = Cardinality(DOMAIN d.folders)
    /\ Tree(d, i, S) = f[N] /\ f[0] = {i}
    /\ \A n \in 1..N : f[n] = f[n - 1] \cup {j \in S : d.folders[j].parent \in f[n - 1]}

LEMMA TreeGrows ==
  ASSUME NEW d, IsFiniteSet(DOMAIN d.folders), NEW i, NEW S
  PROVE  \E N, f : TreeBy(d, i, S, N, f)
<1> DEFINE N == Cardinality(DOMAIN d.folders)
           X == SUBSET (S \cup {i})
           G == [B \in X |-> B \cup {j \in S : d.folders[j].parent \in B}]
           e(f) == [n \in 0..N |-> IF n = 0 THEN {i}
                        ELSE f[n - 1] \cup {j \in S : d.folders[j].parent \in f[n - 1]}]
           below == CHOOSE f : f = e(f)
<1>1. N \in Nat
  BY FS_CardinalityType
<1>2. G \in [X -> X] /\ {i} \in X
  OBVIOUS
<1> HIDE DEF N
<1>3. PICK f \in [0..N -> X] : f[0] = {i} /\ \A n \in 1..N : f[n] = G[f[n - 1]]
  <2> DEFINE b == {i}
  <2>1. G \in [X -> X] /\ b \in X
    BY <1>2
  <2> HIDE DEF X, G, b
  <2>2. Iterated(X, G, b, N)
    BY <1>1, <2>1, Iterates
  <2>3. QED
    BY <2>2 DEF b, Iterated
<1>4. f = e(f)
  <2>1. \A n \in 1..N : f[n - 1] \in X
    BY <1>1
  <2>2. \A n \in 1..N : G[f[n - 1]] = f[n - 1] \cup {j \in S : d.folders[j].parent \in f[n - 1]}
    BY <2>1
  <2>3. ASSUME NEW n \in 0..N PROVE f[n] = e(f)[n]
    <3> HIDE DEF X, G
    <3>1. n = 0 \/ n \in 1..N
      BY <1>1
    <3>2. QED
      BY <1>3, <2>2, <3>1
  <2>4. QED
    BY <2>3
<1> HIDE DEF e
<1>5. below = e(below)
  BY <1>4
<1>6. Tree(d, i, S) = below[N]
  BY DEF Tree, e, N
<1>7. /\ below[0] = {i}
      /\ \A n \in 1..N : below[n] = below[n - 1] \cup {j \in S : d.folders[j].parent \in below[n - 1]}
  <2> HIDE DEF below
  <2>1. below = [n \in 0..N |-> IF n = 0 THEN {i}
                        ELSE below[n - 1] \cup {j \in S : d.folders[j].parent \in below[n - 1]}]
    BY <1>5 DEF e
  <2> HIDE DEF e
  <2>2. \A n \in 0..N : below[n] = IF n = 0 THEN {i}
                        ELSE below[n - 1] \cup {j \in S : d.folders[j].parent \in below[n - 1]}
    BY <2>1
  <2>3. 0 \in 0..N /\ \A n \in 1..N : n \in 0..N /\ n # 0
    BY <1>1
  <2>4. QED
    BY <2>2, <2>3
<1> HIDE DEF below
<1>8. QED
  BY <1>1, <1>6, <1>7 DEF TreeBy, N

\* What holds of i, and of the children in S of whatever it holds of, holds of the tree.
LEMMA TreeWithin ==
  ASSUME NEW d, IsFiniteSet(DOMAIN d.folders), NEW i, NEW S, NEW C, i \in C,
         \A j \in S : d.folders[j].parent \in C => j \in C
  PROVE  Tree(d, i, S) \subseteq C
<1>0. PICK N, f : TreeBy(d, i, S, N, f)
  BY TreeGrows
<1>1. /\ N \in Nat /\ Tree(d, i, S) = f[N] /\ f[0] = {i}
      /\ \A n \in 1..N : f[n] = f[n - 1] \cup {j \in S : d.folders[j].parent \in f[n - 1]}
  BY <1>0 DEF TreeBy
<1> DEFINE B == {n \in 0..N : ~(f[n] \subseteq C)}
<1>2. B = {}
  <2> SUFFICES ASSUME B # {} PROVE FALSE
    OBVIOUS
  <2>1. B \in SUBSET Nat
    OBVIOUS
  <2>2. PICK n \in B : \A m \in B : n <= m
    BY <2>1, LeastNumber
  <2>3. n # 0
    BY <1>1, <2>2
  <2>4. n - 1 \in 0..N /\ n - 1 \notin B /\ n \in 1..N
    BY <1>1, <2>2, <2>3
  <2>5. f[n - 1] \subseteq C
    BY <2>4
  <2>6. f[n] = f[n - 1] \cup {j \in S : d.folders[j].parent \in f[n - 1]}
    BY <1>1, <2>4
  <2>7. f[n] \subseteq C
    BY <2>5, <2>6
  <2>8. QED
    BY <2>2, <2>7
<1>3. N \in 0..N
  BY <1>1
<1>4. QED
  BY <1>1, <1>2, <1>3

LEMMA TreeHasItsTop ==
  ASSUME NEW d, IsFiniteSet(DOMAIN d.folders), NEW i, NEW S
  PROVE  i \in Tree(d, i, S)
<1>0. PICK N, f : TreeBy(d, i, S, N, f)
  BY TreeGrows
<1>1. /\ N \in Nat /\ Tree(d, i, S) = f[N] /\ f[0] = {i}
      /\ \A n \in 1..N : f[n] = f[n - 1] \cup {j \in S : d.folders[j].parent \in f[n - 1]}
  BY <1>0 DEF TreeBy
<1> DEFINE B == {n \in 0..N : i \notin f[n]}
<1>2. B = {}
  <2> SUFFICES ASSUME B # {} PROVE FALSE
    OBVIOUS
  <2>1. B \in SUBSET Nat
    OBVIOUS
  <2>2. PICK n \in B : \A m \in B : n <= m
    BY <2>1, LeastNumber
  <2>3. n # 0
    BY <1>1, <2>2
  <2>4. n - 1 \in 0..N /\ n - 1 \notin B /\ n \in 1..N
    BY <1>1, <2>2, <2>3
  <2>5. i \in f[n]
    BY <1>1, <2>4
  <2>6. QED
    BY <2>2, <2>5
<1>3. N \in 0..N
  BY <1>1
<1>4. QED
  BY <1>1, <1>2, <1>3

\* DeletedRun goes from a folder to its parent as long as they are deleted.
RunBy(d, i, N, f) ==
    /\ N \in Nat /\ N = Cardinality(DOMAIN d.folders) /\ f[0] = i
    /\ \A n \in 1..N : f[n] = IF f[n - 1] = NoId THEN NoId ELSE d.folders[f[n - 1]].parent
    /\ DeletedRun(d, i) = {f[n] : n \in {n \in 0..N : \A m \in 0..n :
                              f[m] # NoId /\ d.folders[f[m]].status = "deleted"}}

LEMMA RunClimbs ==
  ASSUME NEW d, IsFiniteSet(DOMAIN d.folders), NEW i, i \in DOMAIN d.folders,
         \A j \in DOMAIN d.folders : d.folders[j].parent \in DOMAIN d.folders \cup {NoId}
  PROVE  \E N, f : RunBy(d, i, N, f)
<1> DEFINE N == Cardinality(DOMAIN d.folders)
           X == DOMAIN d.folders \cup {NoId}
           G == [j \in X |-> IF j = NoId THEN NoId ELSE d.folders[j].parent]
           e(f) == [n \in 0..N |-> IF n = 0 THEN i
                        ELSE LET j == f[n - 1] IN IF j = NoId THEN NoId ELSE d.folders[j].parent]
           up == CHOOSE f : f = e(f)
<1>1. N \in Nat
  BY FS_CardinalityType
<1>2. G \in [X -> X] /\ i \in X
  OBVIOUS
<1> HIDE DEF N
<1>3. PICK f \in [0..N -> X] : f[0] = i /\ \A n \in 1..N : f[n] = G[f[n - 1]]
  <2> HIDE DEF X, G
  <2>1. Iterated(X, G, i, N)
    BY <1>1, <1>2, Iterates
  <2>2. QED
    BY <2>1 DEF Iterated
<1>4. f = e(f)
  <2>1. \A n \in 1..N : f[n - 1] \in X
    BY <1>1
  <2>2. \A n \in 1..N : G[f[n - 1]] = IF f[n - 1] = NoId THEN NoId ELSE d.folders[f[n - 1]].parent
    BY <2>1
  <2>3. ASSUME NEW n \in 0..N PROVE f[n] = e(f)[n]
    <3> HIDE DEF X, G
    <3>1. n = 0 \/ n \in 1..N
      BY <1>1
    <3>2. QED
      BY <1>3, <2>2, <3>1
  <2>4. QED
    BY <2>3
<1> HIDE DEF e
<1>5. up = e(up)
  BY <1>4
<1>6. DeletedRun(d, i) = {up[n] : n \in {n \in DOMAIN up : \A m \in 0..n :
                              up[m] # NoId /\ d.folders[up[m]].status = "deleted"}}
  BY DEF DeletedRun, e, N
<1>7. DOMAIN up = 0..N /\ up[0] = i
      /\ \A n \in 1..N : up[n] = IF up[n - 1] = NoId THEN NoId ELSE d.folders[up[n - 1]].parent
  <2> HIDE DEF up
  <2>1. up = [n \in 0..N |-> IF n = 0 THEN i
                        ELSE LET j == up[n - 1] IN IF j = NoId THEN NoId ELSE d.folders[j].parent]
    BY <1>5 DEF e
  <2> HIDE DEF e
  <2>2. \A n \in 0..N : up[n] = IF n = 0 THEN i
                        ELSE LET j == up[n - 1] IN IF j = NoId THEN NoId ELSE d.folders[j].parent
    BY <2>1
  <2>3. 0 \in 0..N /\ \A n \in 1..N : n \in 0..N /\ n # 0
    BY <1>1
  <2>4. DOMAIN up = 0..N
    BY <2>1
  <2>5. QED
    BY <2>2, <2>3, <2>4
<1> HIDE DEF up
<1>8. DeletedRun(d, i) = {up[n] : n \in {n \in 0..N : \A m \in 0..n :
                              up[m] # NoId /\ d.folders[up[m]].status = "deleted"}}
  BY <1>6, <1>7
<1>9. RunBy(d, i, N, up)
  BY <1>1, <1>7, <1>8 DEF RunBy, N
<1>10. QED
  BY <1>9

\* The folders of the run are deleted, the first is in it if it is, and what holds
\* of it and of the parent of a deleted folder that it holds of, holds of the run.
LEMMA RunWithin ==
  ASSUME NEW d, IsFiniteSet(DOMAIN d.folders), NEW i, i \in DOMAIN d.folders,
         \A j \in DOMAIN d.folders : d.folders[j].parent \in DOMAIN d.folders \cup {NoId},
         NoId \notin DOMAIN d.folders
  PROVE  /\ DeletedRun(d, i) \subseteq {j \in DOMAIN d.folders : d.folders[j].status = "deleted"}
         /\ d.folders[i].status = "deleted" => i \in DeletedRun(d, i)
         /\ \A C : /\ i \in C
                   /\ \A j \in C \cap DOMAIN d.folders : d.folders[j].parent # NoId =>
                          d.folders[j].parent \in C
                   => DeletedRun(d, i) \subseteq C
<1>0. PICK N, f : RunBy(d, i, N, f)
  BY RunClimbs
<1> DEFINE In == {n \in 0..N : \A m \in 0..n : f[m] # NoId /\ d.folders[f[m]].status = "deleted"}
<1>1. /\ N \in Nat /\ f[0] = i
      /\ \A n \in 1..N : f[n] = IF f[n - 1] = NoId THEN NoId ELSE d.folders[f[n - 1]].parent
      /\ DeletedRun(d, i) = {f[n] : n \in In}
  BY <1>0 DEF RunBy
<1>2. ASSUME NEW C, i \in C,
             \A j \in C \cap DOMAIN d.folders : d.folders[j].parent # NoId => d.folders[j].parent \in C
      PROVE  \A n \in 0..N : f[n] # NoId => f[n] \in C \cap DOMAIN d.folders
  <2> DEFINE B == {n \in 0..N : f[n] # NoId /\ f[n] \notin C \cap DOMAIN d.folders}
  <2> SUFFICES ASSUME B # {} PROVE FALSE
    OBVIOUS
  <2>1. B \in SUBSET Nat
    OBVIOUS
  <2>2. PICK n \in B : \A m \in B : n <= m
    BY <2>1, LeastNumber
  <2>3. n # 0
    BY <1>1, <1>2, <2>2
  <2>4. n - 1 \in 0..N /\ n - 1 \notin B /\ n \in 1..N
    BY <1>1, <2>2, <2>3
  <2>5. f[n - 1] # NoId
    BY <1>1, <2>2, <2>4
  <2>6. f[n - 1] \in C \cap DOMAIN d.folders
    BY <2>4, <2>5
  <2>7. f[n] = d.folders[f[n - 1]].parent
    BY <1>1, <2>4, <2>5
  <2>8. QED
    BY <1>2, <2>2, <2>6, <2>7
<1>3. ASSUME NEW n \in In
      PROVE  f[n] # NoId /\ d.folders[f[n]].status = "deleted"
  BY <1>1
<1>4. \A n \in 0..N : f[n] # NoId => f[n] \in DOMAIN d.folders
  <2> DEFINE U == DOMAIN d.folders
  <2>1. \A n \in 0..N : f[n] # NoId => f[n] \in U \cap DOMAIN d.folders
    BY <1>2
  <2>2. QED
    BY <2>1
<1>5. DeletedRun(d, i) \subseteq {j \in DOMAIN d.folders : d.folders[j].status = "deleted"}
  BY <1>1, <1>3, <1>4
<1>6. ASSUME d.folders[i].status = "deleted" PROVE i \in DeletedRun(d, i)
  <2>1. 0 \in In
    BY <1>1, <1>6
  <2>2. QED
    BY <1>1, <2>1
<1>7. ASSUME NEW C, i \in C,
             \A j \in C \cap DOMAIN d.folders : d.folders[j].parent # NoId => d.folders[j].parent \in C
      PROVE  DeletedRun(d, i) \subseteq C
  BY <1>1, <1>2, <1>3, <1>7
<1>8. QED
  BY <1>5, <1>6, <1>7

\* Only deleted folders of the tree are purged.
LEMMA EmptiedAreDeleted ==
  ASSUME NEW d, IsFiniteSet(DOMAIN d.folders), NEW i
  PROVE  EmptiedFolders(d, i) \subseteq {j \in WholeTree(d, i) : d.folders[j].status = "deleted"}
<1> DEFINE N == Cardinality(DOMAIN d.folders)
           X == SUBSET WholeTree(d, i)
           gone == DeletedImages(d, i)
           Bare(F) == {j \in WholeTree(d, i) :
               /\ d.folders[j].status = "deleted"
               /\ ImagesIn(d, {j}) \subseteq gone
               /\ \A c \in DOMAIN d.folders : d.folders[c].parent = j => c \in F}
           G == [F \in X |-> Bare(F)]
           e(f) == [n \in 0..N |-> IF n = 0 THEN {} ELSE Bare(f[n - 1])]
           up == CHOOSE f : f = e(f)
<1>1. N \in Nat
  BY FS_CardinalityType
<1>2. G \in [X -> X] /\ {} \in X
  OBVIOUS
<1> HIDE DEF N
<1>3. PICK f \in [0..N -> X] : f[0] = {} /\ \A n \in 1..N : f[n] = G[f[n - 1]]
  <2> DEFINE b == {}
  <2>1. b \in X
    BY <1>2
  <2> HIDE DEF X, G, b
  <2>2. Iterated(X, G, b, N)
    BY <1>1, <1>2, <2>1, Iterates
  <2>3. QED
    BY <2>2 DEF Iterated, b
<1>4. f = e(f)
  <2>1. \A n \in 1..N : f[n - 1] \in X
    BY <1>1
  <2>2. \A n \in 1..N : G[f[n - 1]] = Bare(f[n - 1])
    <3> HIDE DEF X, Bare
    <3>1. QED
      BY <2>1
  <2>3. ASSUME NEW n \in 0..N PROVE f[n] = e(f)[n]
    <3> HIDE DEF X, G, Bare
    <3>1. n = 0 \/ n \in 1..N
      BY <1>1
    <3>2. QED
      BY <1>3, <2>2, <3>1
  <2>4. QED
    BY <2>3
<1> HIDE DEF e
<1>5. up = e(up)
  BY <1>4
<1>6. EmptiedFolders(d, i) = up[N]
  BY DEF EmptiedFolders, e, N
<1>7. up[N] = {} \/ up[N] = Bare(up[N - 1])
  <2> HIDE DEF up, gone
  <2>1. \A n \in 0..N : up[n] = IF n = 0 THEN {} ELSE Bare(up[n - 1])
    BY <1>5 DEF e
  <2>2. N \in 0..N
    BY <1>1
  <2> HIDE DEF Bare
  <2>3. QED
    BY <2>1, <2>2
<1> HIDE DEF up
<1>8. QED
  BY <1>6, <1>7

-----------------------------------------------------------------------------
(* The rows: keys that are taken once, and what a step leaves of them.      *)

LEMMA RowsAreFinite ==
  ASSUME NEW d, RowsOK(d)
  PROVE  /\ IsFiniteSet(DOMAIN d.images) /\ IsFiniteSet(DOMAIN d.folders)
         /\ NoId \notin DOMAIN d.folders /\ NoId \notin DOMAIN d.images
<1>1. IsFiniteSet(1..MaxImages) /\ IsFiniteSet(1..MaxFolders)
  BY BoundsAssumption, FS_Interval
<1>2. DOMAIN d.images \subseteq 1..MaxImages /\ DOMAIN d.folders \subseteq 1..MaxFolders
  BY DEF RowsOK, ImageIds, FolderIds
<1>3. IsFiniteSet(DOMAIN d.images) /\ IsFiniteSet(DOMAIN d.folders)
  BY <1>1, <1>2, FS_Subset
<1>4. NoId \notin DOMAIN d.folders /\ NoId \notin DOMAIN d.images
  BY <1>2, BoundsAssumption DEF NoId
<1>5. QED
  BY <1>3, <1>4

LEMMA AtMostOne ==
  ASSUME NEW S, IsFiniteSet(S)
  PROVE  Cardinality(S) <= 1 <=> \A x, y \in S : x = y
<1>1. ASSUME Cardinality(S) <= 1, NEW x \in S, NEW y \in S PROVE x = y
  <2> SUFFICES ASSUME x # y PROVE FALSE
    OBVIOUS
  <2>1. S \ {x} # {} /\ IsFiniteSet(S \ {x}) /\ Cardinality(S \ {x}) = Cardinality(S) - 1
    BY FS_RemoveElement
  <2>2. Cardinality(S \ {x}) # 0 /\ Cardinality(S \ {x}) \in Nat /\ Cardinality(S) \in Nat
    BY <2>1, FS_EmptySet, FS_CardinalityType
  <2>3. QED
    BY <1>1, <2>1, <2>2
<1>2. ASSUME \A x, y \in S : x = y PROVE Cardinality(S) <= 1
  <2>1. CASE S = {}
    BY <2>1, FS_EmptySet
  <2>2. CASE S # {}
    <3>1. PICK x \in S : TRUE
      BY <2>2
    <3>2. S = {x}
      BY <1>2, <3>1
    <3>3. QED
      BY <3>2, FS_Singleton
  <2>3. QED
    BY <2>1, <2>2
<1>3. QED
  BY <1>1, <1>2

\* Sound, without cardinalities.
Keyed(d) ==
    /\ \A i, j \in DOMAIN d.images : d.images[i].src = d.images[j].src => i = j
    /\ \A i, j \in DOMAIN d.folders : d.folders[i].path = d.folders[j].path => i = j
    /\ \A i \in DOMAIN d.images : d.images[i].folder \in DOMAIN d.folders
    /\ \A i \in DOMAIN d.folders : d.folders[i].parent \in DOMAIN d.folders \cup {NoId}

LEMMA SoundIsKeyed ==
  ASSUME NEW d, RowsOK(d)
  PROVE  Sound(d) <=> Keyed(d)
<1>1. \A p : Cardinality(ImagesAt(d, p)) <= 1 <=> \A x, y \in ImagesAt(d, p) : x = y
  <2> TAKE p
  <2>1. IsFiniteSet(ImagesAt(d, p))
    BY RowsAreFinite, FS_Subset DEF ImagesAt
  <2>2. QED
    BY <2>1, AtMostOne
<1>2. \A p : Cardinality(FoldersAt(d, p)) <= 1 <=> \A x, y \in FoldersAt(d, p) : x = y
  <2> TAKE p
  <2>1. IsFiniteSet(FoldersAt(d, p))
    BY RowsAreFinite, FS_Subset DEF FoldersAt
  <2>2. QED
    BY <2>1, AtMostOne
<1>3. \A i \in DOMAIN d.images : d.images[i].src \in FilePaths
  BY DEF RowsOK, Image
<1>4. \A i \in DOMAIN d.folders : d.folders[i].path \in FolderPaths
  BY DEF RowsOK, Folder
<1>5. (\A p \in FilePaths : \A x, y \in ImagesAt(d, p) : x = y)
        <=> \A i, j \in DOMAIN d.images : d.images[i].src = d.images[j].src => i = j
  BY <1>3 DEF ImagesAt
<1>6. (\A p \in FolderPaths : \A x, y \in FoldersAt(d, p) : x = y)
        <=> \A i, j \in DOMAIN d.folders : d.folders[i].path = d.folders[j].path => i = j
  BY <1>4 DEF FoldersAt
<1>7. QED
  BY <1>1, <1>2, <1>5, <1>6 DEF Sound, Keyed

\* get_or_create_folder adds active rows for the missing part of the path, each in
\* the row of the folder above, and leaves the others.
Extended(d, e, M) ==
    /\ RowsOK(e) /\ e.images = d.images
    /\ \A i \in DOMAIN d.folders : i \in DOMAIN e.folders /\ e.folders[i] = d.folders[i]
    /\ \A i \in DOMAIN e.folders \ DOMAIN d.folders :
           /\ e.folders[i].path \in M /\ e.folders[i].status = "active"
           /\ e.folders[i].parent \in DOMAIN e.folders
           /\ e.folders[e.folders[i].parent].path = ParentOf(e.folders[i].path)
    /\ \A q \in M : \E i \in DOMAIN e.folders \ DOMAIN d.folders : e.folders[i].path = q
    /\ \A i, j \in DOMAIN e.folders \ DOMAIN d.folders :
           e.folders[i].path = e.folders[j].path => i = j

LEMMA WithFoldersExtends ==
  ASSUME NEW d, RowsOK(d), NEW p \in FolderPaths, next.folder \in Nat \ {0},
         DOMAIN next = {"image", "folder"}, HaveFolderIds(d, p),
         \A i \in DOMAIN d.folders : i < next.folder
  PROVE  Extended(d, WithFolders(d, p), MissingFolders(d, p))
<1> DEFINE M     == MissingFolders(d, p)
           Nr(q) == next.folder + Cardinality({r \in M : Len(r) < Len(q)})
           Id(q) == IF q \in M THEN Nr(q) ELSE TheFolder(d, q)
           New   == {Id(q) : q \in M}
           At(i) == CHOOSE q \in M : Id(q) = i
           e     == WithFolders(d, p)
<1>0. RowsOK(e)
  BY WithFoldersType
<1>1. /\ DOMAIN e = {"images", "folders"} /\ e.images = d.images
      /\ e.folders = [i \in DOMAIN d.folders \cup New |->
             IF i \in New
             THEN [path |-> At(i), parent |-> Id(ParentOf(At(i))), status |-> "active"]
             ELSE d.folders[i]]
  BY DEF RowsOK, WithFolders
<1>2. \A q \in M : /\ Nr(q) \in FolderIds /\ Nr(q) >= next.folder
                    /\ \A s \in M : Nr(s) = Nr(q) => s = q
  BY NewFolderIds
<1>3. \A i \in New : At(i) \in M /\ Id(At(i)) = i /\ i \notin DOMAIN d.folders
  <2> TAKE i \in New
  <2>1. At(i) \in M /\ Id(At(i)) = i
    OBVIOUS
  <2>2. Nr(At(i)) = i
    BY <2>1
  <2>3. i \in FolderIds /\ i >= next.folder
    BY <1>2, <2>1, <2>2
  <2>4. i \notin DOMAIN d.folders
    BY <2>3 DEF FolderIds
  <2>5. QED
    BY <2>1, <2>4
<1>4. \A q \in M : Id(q) \in New /\ At(Id(q)) = q
  <2> SUFFICES ASSUME NEW q \in M PROVE Id(q) \in New /\ At(Id(q)) = q
    OBVIOUS
  <2>1. Id(q) \in New
    OBVIOUS
  <2>2. At(Id(q)) \in M /\ Id(At(Id(q))) = Id(q)
    BY <1>3, <2>1
  <2> HIDE DEF At
  <2>3. QED
    BY <1>2, <2>1, <2>2
<1>5. \A q \in M : q \in FolderPaths /\ IsPrefix(q, p)
  BY DEF MissingFolders
<1>6. ASSUME NEW q \in FolderPaths, q \notin M, IsPrefix(q, p)
      PROVE  Id(q) \in DOMAIN d.folders /\ d.folders[Id(q)].path = q
  <2>1. FoldersAt(d, q) # {}
    BY <1>6 DEF MissingFolders
  <2>2. TheFolder(d, q) \in DOMAIN d.folders /\ d.folders[TheFolder(d, q)].path = q
    BY <2>1, FolderFound
  <2>3. QED
    BY <1>6, <2>2
<1>7. ASSUME NEW q \in M PROVE ParentOf(q) \in FolderPaths /\ IsPrefix(ParentOf(q), p)
  <2>1. q \in Seq(Names) /\ p \in Seq(Names) /\ ParentOf(q) \in FolderPaths
        /\ ParentOf(q) \in Seq(Names)
    BY <1>5, PathFacts
  <2>2. QED
    BY <1>5, <2>1, ParentFacts, PrefixTrans
<1> HIDE DEF e, At, Id, New
<1>8. \A i \in DOMAIN d.folders : i \in DOMAIN e.folders /\ e.folders[i] = d.folders[i]
  BY <1>1, <1>3
<1>9. DOMAIN e.folders \ DOMAIN d.folders = New
  BY <1>1, <1>3
<1>10. \A i \in New : /\ e.folders[i].path = At(i) /\ e.folders[i].status = "active"
                      /\ e.folders[i].parent = Id(ParentOf(At(i)))
  BY <1>1
<1>11. ASSUME NEW i \in New
       PROVE  /\ e.folders[i].path \in M /\ e.folders[i].status = "active"
              /\ e.folders[i].parent \in DOMAIN e.folders
              /\ e.folders[e.folders[i].parent].path = ParentOf(e.folders[i].path)
  <2> DEFINE q == At(i)
             o == ParentOf(At(i))
  <2>1. q \in M /\ o \in FolderPaths /\ IsPrefix(o, p)
    BY <1>3, <1>7
  <2>2. e.folders[i].parent = Id(o) /\ e.folders[i].path = q
    BY <1>10
  <2> HIDE DEF o
  <2>3. CASE o \in M
    <3>1. Id(o) \in New /\ At(Id(o)) = o
      BY <1>4, <2>3
    <3>2. Id(o) \in DOMAIN e.folders /\ e.folders[Id(o)].path = o
      BY <1>9, <1>10, <3>1
    <3>3. QED
      BY <1>10, <2>1, <2>2, <3>2 DEF o
  <2>4. CASE o \notin M
    <3>1. Id(o) \in DOMAIN d.folders /\ d.folders[Id(o)].path = o
      BY <1>6, <2>1, <2>4
    <3>2. Id(o) \in DOMAIN e.folders /\ e.folders[Id(o)].path = o
      BY <1>8, <3>1
    <3>3. QED
      BY <1>10, <2>1, <2>2, <3>2 DEF o
  <2>5. QED
    BY <2>3, <2>4
<1>12. \A q \in M : \E i \in New : e.folders[i].path = q
  BY <1>4, <1>10
<1>13. \A i, j \in New : e.folders[i].path = e.folders[j].path => i = j
  BY <1>3, <1>10
<1> HIDE DEF M
<1>14. Extended(d, e, M)
  <2> DEFINE W == DOMAIN e.folders \ DOMAIN d.folders
  <2>1. W = New
    BY <1>9
  <2> HIDE DEF W
  <2>2. /\ \A i \in W : /\ e.folders[i].path \in M /\ e.folders[i].status = "active"
                       /\ e.folders[i].parent \in DOMAIN e.folders
                       /\ e.folders[e.folders[i].parent].path = ParentOf(e.folders[i].path)
        /\ \A q \in M : \E i \in W : e.folders[i].path = q
        /\ \A i, j \in W : e.folders[i].path = e.folders[j].path => i = j
    BY <1>11, <1>12, <1>13, <2>1
  <2>3. QED
    BY <1>0, <1>1, <1>8, <2>2 DEF Extended, W
<1>15. QED
  BY <1>14 DEF e, M

LEMMA ExtendedIsKeyed ==
  ASSUME NEW d, RowsOK(d), Keyed(d), NEW p, NEW e, Extended(d, e, MissingFolders(d, p))
  PROVE  Keyed(e)
<1> DEFINE M == MissingFolders(d, p)
<1>1. \A i \in DOMAIN d.folders : d.folders[i].path \notin M
  BY DEF MissingFolders, FoldersAt
<1> HIDE DEF M
<1>2. /\ e.images = d.images
      /\ \A i \in DOMAIN d.folders : i \in DOMAIN e.folders /\ e.folders[i] = d.folders[i]
      /\ \A i \in DOMAIN e.folders \ DOMAIN d.folders :
             e.folders[i].path \in M /\ e.folders[i].parent \in DOMAIN e.folders
      /\ \A i, j \in DOMAIN e.folders \ DOMAIN d.folders :
             e.folders[i].path = e.folders[j].path => i = j
  BY DEF Extended, M
<1>3. ASSUME NEW i \in DOMAIN e.folders, NEW j \in DOMAIN e.folders,
             e.folders[i].path = e.folders[j].path
      PROVE  i = j
  BY <1>1, <1>2, <1>3 DEF Keyed
<1>4. \A i \in DOMAIN e.folders : e.folders[i].parent \in DOMAIN e.folders \cup {NoId}
  BY <1>2 DEF Keyed
<1>5. \A i \in DOMAIN e.images : e.images[i].folder \in DOMAIN e.folders
  BY <1>2 DEF Keyed
<1>6. QED
  BY <1>2, <1>3, <1>4, <1>5 DEF Keyed

\* What a step can leave of the rows.
RowsWritten(a) ==
    \/ (Commit(a) \/ MoveFileCommit(a)) /\ CanCommit(act[a].pend) /\ db' = View(a)
    \/ CreateFolders(a)
    \/ /\ FolderHave(a) \/ MoveFolderRecord(a)
       /\ CanCommit(act[a].pend)
       /\ \E p \in FolderPaths :
              HaveFolderIds(View(a), p) /\ db' = WithFolders(View(a), p)
    \/ InsertImage(a)

LEMMA RowsAreWritten ==
  ASSUME RowsInv, SessionsInv, [Next]_vars
  PROVE  db' = db \/ \E a \in Threads : RowsWritten(a)
<1>1. ASSUME NEW a \in Threads, FolderHave(a) PROVE db' = db \/ RowsWritten(a)
  <2>1. act[a].path \in FolderPaths
    BY <1>1 DEF FolderHave, SessionsInv, Shape, AtFolder
  <2>2. \/ db' = db
        \/ /\ CanCommit(act[a].pend) /\ HaveFolderIds(View(a), act[a].path)
           /\ db' = WithFolders(View(a), act[a].path)
    BY <1>1 DEF FolderHave
  <2>3. QED
    BY <1>1, <2>1, <2>2 DEF RowsWritten
<1>2. ASSUME NEW a \in Threads, MoveFolderRecord(a) PROVE db' = db \/ RowsWritten(a)
  <2>1. ParentOf(act[a].to) \in FolderPaths
    BY <1>2, PathFacts DEF MoveFolderRecord, SessionsInv, Shape
  <2>2. \/ db' = db
        \/ /\ CanCommit(act[a].pend) /\ HaveFolderIds(View(a), ParentOf(act[a].to))
           /\ db' = WithFolders(View(a), ParentOf(act[a].to))
    BY <1>2 DEF MoveFolderRecord
  <2>3. QED
    BY <1>2, <2>1, <2>2 DEF RowsWritten
<1>3. ASSUME NEW a \in Threads, Commit(a) \/ MoveFileCommit(a) PROVE db' = db \/ RowsWritten(a)
  <2>1. db' = db \/ (CanCommit(act[a].pend) /\ db' = View(a))
    BY <1>3 DEF Commit, MoveFileCommit
  <2>2. QED
    BY <1>3, <2>1 DEF RowsWritten
<1>4. ASSUME NEW a \in Threads,
             \/ SyncFileLook(a) \/ SyncFileGone(a) \/ SyncFileHave(a) \/ PutId(a)
             \/ FolderLook(a) \/ FolderGone(a) \/ DataDelete(a)
             \/ MoveFileCheck(a) \/ MoveFileDisk(a) \/ MoveFileRecord(a) \/ MoveFileBack(a)
             \/ DeleteFileDisk(a) \/ DeleteFileRecord(a) \/ UploadWrite(a)
             \/ MoveFolderDisk(a) \/ DeleteFolderDisk(a) \/ DeleteFolderRecord(a)
      PROVE  db' = db
  BY <1>4 DEF SyncFileLook, SyncFileGone, SyncFileHave, PutId, FolderLook, FolderGone,
     DataDelete, MoveFileCheck, MoveFileDisk, MoveFileRecord, MoveFileBack, DeleteFileDisk,
     DeleteFileRecord, UploadWrite, MoveFolderDisk, DeleteFolderDisk, DeleteFolderRecord
<1>5. ASSUME NEW a \in Threads, CreateFolders(a) \/ InsertImage(a) PROVE RowsWritten(a)
  BY <1>5 DEF RowsWritten
<1>6. ASSUME NEW a \in Threads, Step(a) PROVE db' = db \/ RowsWritten(a)
  BY <1>1, <1>2, <1>3, <1>4, <1>5, <1>6 DEF Step
<1>7. ASSUME NEW a \in Threads, Start(a) PROVE db' = db
  BY <1>7 DEF Start, Lookup, MoveFile, DeleteFile, Upload, CreateFolder, MoveFolder,
     DeleteFolder, Purge
<1>8. ASSUME NEW a \in Threads, (\E q : Visit(a, q)) \/ (\E f : DeleteData(a, f))
      PROVE db' = db
  BY <1>8 DEF Visit, DeleteData
<1>9. ASSUME Refuse \/ Outside \/ UNCHANGED vars PROVE db' = db
  BY <1>9 DEF Refuse, Outside, vars
<1>10. QED
  BY <1>6, <1>7, <1>8, <1>9 DEF Next

\* The database keeps its unique indexes and its foreign keys.
LEMMA SoundStep ==
  ASSUME RowsInv, SessionsInv, Sound(db), [Next]_vars
  PROVE  Sound(db)'
<1>1. SUFFICES Sound(db')
  BY DEF Sound, ImagesAt, FoldersAt
<1>2. ASSUME NEW d, RowsOK(d), Sound(d), \A i \in DOMAIN d.folders : i < next.folder,
             NEW p \in FolderPaths, HaveFolderIds(d, p)
      PROVE  Sound(WithFolders(d, p))
  <2> DEFINE e == WithFolders(d, p)
  <2>1. Extended(d, e, MissingFolders(d, p))
    BY <1>2, WithFoldersExtends DEF RowsInv
  <2> HIDE DEF e
  <2>2. Keyed(d) /\ RowsOK(e)
    BY <1>2, <2>1, SoundIsKeyed DEF Extended
  <2>3. Sound(e)
    BY <1>2, <2>1, <2>2, ExtendedIsKeyed, SoundIsKeyed
  <2>4. QED
    BY <2>3 DEF e
<1>3. CASE db' = db
  BY <1>3
<1>4. ASSUME NEW a \in Threads, RowsWritten(a) PROVE Sound(db')
  <2>1. CASE CanCommit(act[a].pend) /\ db' = View(a)
    BY <2>1 DEF CanCommit, View
  <2>2. CASE CreateFolders(a)
    <3>1. act[a].path \in FilePaths
      BY <2>2 DEF CreateFolders, SessionsInv, Shape, AtFile
    <3>2. ParentOf(act[a].path) \in FolderPaths
      BY <3>1, PathFacts
    <3>3. HaveFolderIds(db, ParentOf(act[a].path)) /\ db' = WithFolders(db, ParentOf(act[a].path))
      BY <2>2 DEF CreateFolders
    <3>4. RowsOK(db) /\ \A i \in DOMAIN db.folders : i < next.folder
      BY DEF RowsInv
    <3>5. QED
      BY <1>2, <3>2, <3>3, <3>4
  <2>3. ASSUME CanCommit(act[a].pend), NEW p \in FolderPaths,
               HaveFolderIds(View(a), p), db' = WithFolders(View(a), p)
        PROVE  Sound(db')
    <3>1. RowsOK(View(a)) /\ \A i \in DOMAIN View(a).folders : i < next.folder
      BY ViewType
    <3>2. Sound(View(a))
      BY <2>3 DEF CanCommit, View
    <3>3. QED
      BY <1>2, <2>3, <3>1, <3>2
  <2>4. CASE InsertImage(a)
    BY <2>4 DEF InsertImage
  <2>5. QED
    BY <1>4, <2>1, <2>2, <2>3, <2>4 DEF RowsWritten
<1>5. QED
  BY <1>3, <1>4, RowsAreWritten

-----------------------------------------------------------------------------
(* Changes of the status alone, as visits make them. *)

\* What a path's record says is what the disk says.
Settled(d, p) ==
    /\ p \in FilePaths => (p \in DOMAIN files
           <=> \E i \in ImagesAt(d, p) : d.images[i].status = "active")
    /\ p \in FolderPaths => (p \in dirs
           <=> \E i \in FoldersAt(d, p) : d.folders[i].status = "active")

\* A change of the status of a row to what the disk says.
RightChange(d, u) ==
    \/ \E i \in DOMAIN d.images : \E v \in Statuses :
           u = SetImage(i, "status", v) /\ (v = "active" <=> d.images[i].src \in DOMAIN files)
    \/ \E i \in DOMAIN d.folders : \E v \in Statuses :
           u = SetFolder(i, "status", v) /\ (v = "active" <=> d.folders[i].path \in dirs)

SameRecords(d, e) ==
    /\ DOMAIN e.images = DOMAIN d.images /\ DOMAIN e.folders = DOMAIN d.folders
    /\ \A i \in DOMAIN d.images :
           e.images[i].src = d.images[i].src /\ e.images[i].folder = d.images[i].folder
    /\ \A i \in DOMAIN d.folders :
           e.folders[i].path = d.folders[i].path /\ e.folders[i].parent = d.folders[i].parent

\* The statuses of e are those of d, or what the disk says.
Righted(d, e) ==
    /\ SameRecords(d, e)
    /\ \A i \in DOMAIN d.images :
           \/ e.images[i].status = d.images[i].status
           \/ e.images[i].status = "active" <=> d.images[i].src \in DOMAIN files
    /\ \A i \in DOMAIN d.folders :
           \/ e.folders[i].status = d.folders[i].status
           \/ e.folders[i].status = "active" <=> d.folders[i].path \in dirs

LEMMA FieldIs ==
  ASSUME NEW w, NEW t, NEW i, NEW f, NEW old
  PROVE  /\ (\A u \in w : ~(u[1] = t /\ u[2] = i /\ u[3] = f)) => Field(w, t, i, f, old) = old
         /\ (\E u \in w : u[1] = t /\ u[2] = i /\ u[3] = f) =>
                \E u \in w : u[1] = t /\ u[2] = i /\ u[3] = f /\ Field(w, t, i, f, old) = u[4]
BY DEF Field

LEMMA ApplyIs ==
  ASSUME NEW d, NEW w
  PROVE  /\ DOMAIN Apply(d, w) = {"images", "folders"}
         /\ DOMAIN Apply(d, w).images = {i \in DOMAIN d.images : SetImage(i, "row", 0) \notin w}
         /\ \A i \in DOMAIN Apply(d, w).images :
                /\ Apply(d, w).images[i].src = Field(w, "i", i, "src", d.images[i].src)
                /\ Apply(d, w).images[i].folder = Field(w, "i", i, "folder", d.images[i].folder)
                /\ Apply(d, w).images[i].status = Field(w, "i", i, "status", d.images[i].status)
         /\ DOMAIN Apply(d, w).folders = {i \in DOMAIN d.folders : SetFolder(i, "row", 0) \notin w}
         /\ \A i \in DOMAIN Apply(d, w).folders :
                /\ Apply(d, w).folders[i].path = Field(w, "f", i, "path", d.folders[i].path)
                /\ Apply(d, w).folders[i].parent = Field(w, "f", i, "parent", d.folders[i].parent)
                /\ Apply(d, w).folders[i].status = Field(w, "f", i, "status", d.folders[i].status)
BY DEF Apply

LEMMA RightChangeIs ==
  ASSUME NEW d, NEW u, RightChange(d, u)
  PROVE  /\ u[3] = "status" /\ u[4] \in Statuses
         /\ u[1] = "i" => /\ u[2] \in DOMAIN d.images
                          /\ u[4] = "active" <=> d.images[u[2]].src \in DOMAIN files
         /\ u[1] # "i" => /\ u[1] = "f" /\ u[2] \in DOMAIN d.folders
                          /\ u[4] = "active" <=> d.folders[u[2]].path \in dirs
         /\ u = <<u[1], u[2], u[3], u[4]>>
<1>1. CASE \E i \in DOMAIN d.images : \E v \in Statuses :
           u = SetImage(i, "status", v) /\ (v = "active" <=> d.images[i].src \in DOMAIN files)
  BY <1>1 DEF SetImage
<1>2. CASE \E i \in DOMAIN d.folders : \E v \in Statuses :
           u = SetFolder(i, "status", v) /\ (v = "active" <=> d.folders[i].path \in dirs)
  BY <1>2 DEF SetFolder
<1>3. QED
  BY <1>1, <1>2 DEF RightChange

LEMMA StatusChanges ==
  ASSUME NEW d, NEW w, \A u \in w : u[3] = "status"
  PROVE  SameRecords(d, Apply(d, w))
<1> DEFINE e == Apply(d, w)
<1>1. \A i : SetImage(i, "row", 0) \notin w /\ SetFolder(i, "row", 0) \notin w
  BY ChangeFacts
<1>2. DOMAIN e.images = DOMAIN d.images /\ DOMAIN e.folders = DOMAIN d.folders
  <2>1. DOMAIN e.images = {i \in DOMAIN d.images : SetImage(i, "row", 0) \notin w}
        /\ DOMAIN e.folders = {i \in DOMAIN d.folders : SetFolder(i, "row", 0) \notin w}
    BY ApplyIs
  <2>2. {i \in DOMAIN d.images : SetImage(i, "row", 0) \notin w} = DOMAIN d.images
        /\ {i \in DOMAIN d.folders : SetFolder(i, "row", 0) \notin w} = DOMAIN d.folders
    BY <1>1
  <2>3. QED
    BY <2>1, <2>2
<1>3. \A t, i, f, old : f # "status" => Field(w, t, i, f, old) = old
  BY FieldIs
<1>4. \A i \in DOMAIN d.images :
          e.images[i].src = d.images[i].src /\ e.images[i].folder = d.images[i].folder
  BY <1>2, <1>3, ApplyIs
<1>5. \A i \in DOMAIN d.folders :
          e.folders[i].path = d.folders[i].path /\ e.folders[i].parent = d.folders[i].parent
  BY <1>2, <1>3, ApplyIs
<1> HIDE DEF e
<1>6. SameRecords(d, e)
  BY <1>2, <1>4, <1>5 DEF SameRecords
<1>7. QED
  BY <1>6 DEF e

LEMMA RightingChanges ==
  ASSUME NEW d, RowsOK(d), NEW w, \A u \in w : RightChange(d, u)
  PROVE  /\ RowsOK(Apply(d, w)) /\ Righted(d, Apply(d, w))
         /\ \A i \in DOMAIN d.images : \A v \in Statuses : SetImage(i, "status", v) \in w =>
                Apply(d, w).images[i].status = v
         /\ \A i \in DOMAIN d.folders : \A v \in Statuses : SetFolder(i, "status", v) \in w =>
                Apply(d, w).folders[i].status = v
<1> DEFINE e == Apply(d, w)
<1>1. \A u \in w : /\ u[3] = "status" /\ u[4] \in Statuses
                   /\ u[1] = "i" => /\ u[2] \in DOMAIN d.images
                                    /\ u[4] = "active" <=> d.images[u[2]].src \in DOMAIN files
                   /\ u[1] # "i" => /\ u[1] = "f" /\ u[2] \in DOMAIN d.folders
                                    /\ u[4] = "active" <=> d.folders[u[2]].path \in dirs
  BY RightChangeIs
<1>2. SameRecords(d, e)
  BY <1>1, StatusChanges
<1>3. DOMAIN e.images = DOMAIN d.images /\ DOMAIN e.folders = DOMAIN d.folders
  BY <1>2 DEF SameRecords
<1>5. \A i \in DOMAIN d.images :
          e.images[i].status = Field(w, "i", i, "status", d.images[i].status)
  BY <1>3, ApplyIs
<1>6. \A i \in DOMAIN d.folders :
          e.folders[i].status = Field(w, "f", i, "status", d.folders[i].status)
  BY <1>3, ApplyIs
<1>7. ASSUME NEW i \in DOMAIN d.images
      PROVE  \/ e.images[i].status = d.images[i].status
             \/ e.images[i].status = "active" <=> d.images[i].src \in DOMAIN files
  <2>1. CASE \A u \in w : ~(u[1] = "i" /\ u[2] = i /\ u[3] = "status")
    BY <1>5, <2>1, FieldIs
  <2>2. CASE \E u \in w : u[1] = "i" /\ u[2] = i /\ u[3] = "status"
    <3>1. PICK u \in w : /\ u[1] = "i" /\ u[2] = i /\ u[3] = "status"
                         /\ Field(w, "i", i, "status", d.images[i].status) = u[4]
      BY <2>2, FieldIs
    <3>2. QED
      BY <1>1, <1>5, <3>1
  <2>3. QED
    BY <2>1, <2>2
<1>8. ASSUME NEW i \in DOMAIN d.folders
      PROVE  \/ e.folders[i].status = d.folders[i].status
             \/ e.folders[i].status = "active" <=> d.folders[i].path \in dirs
  <2>1. CASE \A u \in w : ~(u[1] = "f" /\ u[2] = i /\ u[3] = "status")
    BY <1>6, <2>1, FieldIs
  <2>2. CASE \E u \in w : u[1] = "f" /\ u[2] = i /\ u[3] = "status"
    <3>1. PICK u \in w : /\ u[1] = "f" /\ u[2] = i /\ u[3] = "status"
                         /\ Field(w, "f", i, "status", d.folders[i].status) = u[4]
      BY <2>2, FieldIs
    <3>2. QED
      BY <1>1, <1>6, <3>1
  <2>3. QED
    BY <2>1, <2>2
<1>9. ASSUME NEW i \in DOMAIN d.images, NEW v \in Statuses, SetImage(i, "status", v) \in w
      PROVE  e.images[i].status = v
  <2> DEFINE u0 == SetImage(i, "status", v)
  <2>1. u0 \in w /\ u0[1] = "i" /\ u0[2] = i /\ u0[3] = "status" /\ u0[4] = v
    BY <1>9, ChangeFacts
  <2> HIDE DEF u0
  <2>2. PICK u \in w : /\ u[1] = "i" /\ u[2] = i /\ u[3] = "status"
                       /\ Field(w, "i", i, "status", d.images[i].status) = u[4]
    BY <2>1, FieldIs
  <2>3. (u[4] = "active") <=> (v = "active")
    BY <1>1, <2>1, <2>2
  <2>4. u[4] = v
    BY <1>1, <2>3 DEF Statuses
  <2>5. QED
    BY <1>5, <2>2, <2>4
<1>10. ASSUME NEW i \in DOMAIN d.folders, NEW v \in Statuses, SetFolder(i, "status", v) \in w
       PROVE  e.folders[i].status = v
  <2> DEFINE u0 == SetFolder(i, "status", v)
  <2>1. u0 \in w /\ u0[1] = "f" /\ u0[2] = i /\ u0[3] = "status" /\ u0[4] = v
    BY <1>10, ChangeFacts
  <2> HIDE DEF u0
  <2>2. PICK u \in w : /\ u[1] = "f" /\ u[2] = i /\ u[3] = "status"
                       /\ Field(w, "f", i, "status", d.folders[i].status) = u[4]
    BY <2>1, FieldIs
  <2>3. (u[4] = "active") <=> (v = "active")
    BY <1>1, <2>1, <2>2
  <2>4. u[4] = v
    BY <1>1, <2>3 DEF Statuses
  <2>5. QED
    BY <1>6, <2>2, <2>4
<1>11. RowsOK(e)
  <2>1. \A u \in w : GoodChange(u)
    BY <1>1 DEF GoodChange
  <2>2. QED
    BY <2>1, ApplyType
<1> HIDE DEF e
<1>12. Righted(d, e)
  BY <1>2, <1>7, <1>8 DEF Righted
<1>13. QED
  BY <1>9, <1>10, <1>11, <1>12 DEF e

LEMMA RightedIsKeyed ==
  ASSUME NEW d, Keyed(d), NEW e, SameRecords(d, e)
  PROVE  Keyed(e)
BY DEF Keyed, SameRecords

LEMMA RightedIsSettled ==
  ASSUME NEW d, NEW e, Righted(d, e), NEW p, Settled(d, p)
  PROVE  Settled(e, p)
<1>1. ASSUME p \in FilePaths
      PROVE  p \in DOMAIN files <=> \E i \in ImagesAt(e, p) : e.images[i].status = "active"
  <2>1. p \in DOMAIN files <=> \E i \in ImagesAt(d, p) : d.images[i].status = "active"
    BY <1>1 DEF Settled
  <2>2. ImagesAt(e, p) = ImagesAt(d, p)
    BY DEF ImagesAt, Righted, SameRecords
  <2>3. \A i \in ImagesAt(d, p) : \/ e.images[i].status = d.images[i].status
                                  \/ e.images[i].status = "active" <=> p \in DOMAIN files
    BY DEF ImagesAt, Righted
  <2>4. QED
    BY <2>1, <2>2, <2>3
<1>2. ASSUME p \in FolderPaths
      PROVE  p \in dirs <=> \E i \in FoldersAt(e, p) : e.folders[i].status = "active"
  <2>1. p \in dirs <=> \E i \in FoldersAt(d, p) : d.folders[i].status = "active"
    BY <1>2 DEF Settled
  <2>2. FoldersAt(e, p) = FoldersAt(d, p)
    BY DEF FoldersAt, Righted, SameRecords
  <2>3. \A i \in FoldersAt(d, p) : \/ e.folders[i].status = d.folders[i].status
                                   \/ e.folders[i].status = "active" <=> p \in dirs
    BY DEF FoldersAt, Righted
  <2>4. QED
    BY <2>1, <2>2, <2>3
<1>3. QED
  BY <1>1, <1>2 DEF Settled

LEMMA RightCanCommit ==
  ASSUME RowsOK(db), Sound(db), NEW w, \A u \in w : RightChange(db, u)
  PROVE  CanCommit(w)
<1>1. RowsOK(Apply(db, w)) /\ SameRecords(db, Apply(db, w))
  BY RightingChanges DEF Righted
<1>2. Sound(Apply(db, w))
  BY <1>1, SoundIsKeyed, RightedIsKeyed
<1>3. \A u \in w : IF u[1] = "i" THEN u[2] \in DOMAIN db.images ELSE u[2] \in DOMAIN db.folders
  BY RightChangeIs
<1>4. QED
  BY <1>2, <1>3 DEF CanCommit

-----------------------------------------------------------------------------
(* The record of the root folder, which no operation changes. *)

LEMMA TasksPosted ==
  ASSUME [Next]_vars
  PROVE  \/ tasks' \subseteq tasks
         \/ \E a \in Threads : /\ FolderGone(a)
                               /\ tasks' \subseteq tasks \cup {f \in FoldersAt(View(a), act[a].path) :
                                                                   View(a).folders[f].status = "active"}
<1>1. ASSUME NEW a \in Threads, FolderGone(a)
      PROVE  tasks' \subseteq tasks \cup {f \in FoldersAt(View(a), act[a].path) :
                                              View(a).folders[f].status = "active"}
  <2>1. End(a) \/ tasks' = tasks \cup {f \in FoldersAt(View(a), act[a].path) :
                                           View(a).folders[f].status = "active"}
    BY <1>1 DEF FolderGone
  <2>2. QED
    BY <2>1, TasksLeave
<1>2. ASSUME NEW a \in Threads, FolderHave(a) PROVE tasks' \subseteq tasks
  BY <1>2, TasksLeave DEF FolderHave
<1>3. ASSUME NEW a \in Threads,
             \/ SyncFileLook(a) \/ SyncFileGone(a) \/ SyncFileHave(a)
             \/ CreateFolders(a) \/ InsertImage(a) \/ PutId(a)
             \/ FolderLook(a) \/ Commit(a) \/ DataDelete(a)
      PROVE  tasks' \subseteq tasks
  BY <1>3, TasksLeave DEF SyncFileLook, SyncFileGone, SyncFileHave, CreateFolders, InsertImage,
     PutId, FolderLook, Commit, DataDelete
<1>4. ASSUME NEW a \in Threads,
             \/ MoveFileCheck(a) \/ MoveFileDisk(a) \/ MoveFileRecord(a)
             \/ MoveFileCommit(a) \/ MoveFileBack(a)
             \/ DeleteFileDisk(a) \/ DeleteFileRecord(a) \/ UploadWrite(a)
             \/ MoveFolderDisk(a) \/ MoveFolderRecord(a)
             \/ DeleteFolderDisk(a) \/ DeleteFolderRecord(a)
      PROVE  tasks' \subseteq tasks
  BY <1>4, TasksLeave DEF MoveFileCheck, MoveFileDisk, MoveFileRecord, MoveFileCommit,
     MoveFileBack, DeleteFileDisk, DeleteFileRecord, UploadWrite, MoveFolderDisk,
     MoveFolderRecord, DeleteFolderDisk, DeleteFolderRecord
<1>5. ASSUME NEW a \in Threads, Start(a) PROVE tasks' = tasks
  BY <1>5 DEF Start, Lookup, MoveFile, DeleteFile, Upload, CreateFolder, MoveFolder,
     DeleteFolder, Purge
<1>6. ASSUME NEW a \in Threads, (\E p : Visit(a, p)) \/ (\E f : DeleteData(a, f))
      PROVE  tasks' = tasks
  BY <1>6 DEF Visit, DeleteData, DataStart
<1>7. ASSUME Refuse \/ Outside \/ UNCHANGED vars PROVE tasks' \subseteq tasks
  BY <1>7 DEF Refuse, DataRefused, Outside, vars
<1>8. ASSUME NEW a \in Threads, Step(a), ~FolderGone(a)
      PROVE  tasks' \subseteq tasks
  BY <1>2, <1>3, <1>4, <1>8 DEF Step
<1>9. \/ \E a \in Threads : Step(a)
      \/ \E a \in Threads : Start(a) \/ (\E p : Visit(a, p)) \/ (\E f : DeleteData(a, f))
      \/ Refuse \/ Outside \/ UNCHANGED vars
  BY DEF Next
<1>10. CASE \E a \in Threads : Step(a)
  BY <1>1, <1>8, <1>10
<1>11. CASE \E a \in Threads : Start(a) \/ (\E p : Visit(a, p)) \/ (\E f : DeleteData(a, f))
  BY <1>5, <1>6, <1>11
<1>12. QED
  BY <1>7, <1>9, <1>10, <1>11

\* Folders in the tree of another one than the root's are not the root's.
LEMMA RootIsNotBelow ==
  ASSUME NEW d, RowsOK(d), NEW r \in DOMAIN d.folders, d.folders[r].parent = NoId,
         NEW i \in DOMAIN d.folders, i # r, NEW S, S \subseteq DOMAIN d.folders
  PROVE  r \notin Tree(d, i, S) /\ Tree(d, i, S) \subseteq DOMAIN d.folders
<1> DEFINE C == DOMAIN d.folders \ {r}
<1>1. IsFiniteSet(DOMAIN d.folders) /\ NoId \notin DOMAIN d.folders
  BY RowsAreFinite
<1>2. i \in C
  OBVIOUS
<1>3. \A j \in S : d.folders[j].parent \in C => j \in C
  BY <1>1
<1> HIDE DEF C
<1>4. Tree(d, i, S) \subseteq C
  BY <1>1, <1>2, <1>3, TreeWithin
<1>5. QED
  BY <1>4 DEF C

LEMMA TreesAreRows ==
  ASSUME NEW d, RowsOK(d), NEW i \in DOMAIN d.folders
  PROVE  /\ i \in WholeTree(d, i) /\ WholeTree(d, i) \subseteq DOMAIN d.folders
         /\ i \in UndeletedTree(d, i) /\ UndeletedTree(d, i) \subseteq DOMAIN d.folders
<1> DEFINE C == DOMAIN d.folders
           U == {j \in DOMAIN d.folders : d.folders[j].status # "deleted"}
<1>1. IsFiniteSet(DOMAIN d.folders)
  BY RowsAreFinite
<1>2. i \in C /\ (\A j \in U : j \in C) /\ \A j \in DOMAIN d.folders : j \in C
  OBVIOUS
<1> HIDE DEF C, U
<1>3. Tree(d, i, DOMAIN d.folders) \subseteq C /\ Tree(d, i, U) \subseteq C
  BY <1>1, <1>2, TreeWithin
<1>4. i \in Tree(d, i, DOMAIN d.folders) /\ i \in Tree(d, i, U)
  BY <1>1, TreeHasItsTop
<1>5. QED
  BY <1>3, <1>4 DEF WholeTree, UndeletedTree, C, U

RootRow(d, r) ==
    /\ r \in DOMAIN d.folders
    /\ d.folders[r].path = Root /\ d.folders[r].parent = NoId /\ d.folders[r].status = "active"

\* A set of changes leaves the row of the folder r.
Leaves(w, r) == \A u \in w : ~(u[1] = "f" /\ u[2] = r)

SyncPcs == {"look", "gone", "have", "chain", "insert", "folderlook", "foldergone", "folderhave",
            "commit"}

\* What an operation does is none of the root record's business; and an idle thread
\* has nothing left of its last operation.
Fit(s, r) ==
    /\ s.pc = "idle" => s = Idle
    /\ s.op = "sync" => s.pc \in SyncPcs
    /\ Leaves(s.pend, r)
    /\ s.pc \in {"data", "mvf_disk", "mvf_record", "rmf", "rmf_record"} => s.fid # r
    /\ s.pc = "foldergone" => s.path # Root
    /\ s.pc \in AtFolder => \A u \in s.pend : u[3] = "status"

AllFit(r) == \A a \in Threads : Fit(act[a], r)

LEMMA LeavingSets ==
  ASSUME NEW r
  PROVE  /\ Leaves({}, r)
         /\ \A v, w : Leaves(v, r) /\ Leaves(w, r) => Leaves(v \cup w, r)
         /\ \A i, f, v : Leaves({SetImage(i, f, v)}, r)
         /\ \A I, f, v : Leaves({SetImage(i, f, v) : i \in I}, r)
         /\ \A I : Leaves(PurgeImages(I), r)
         /\ \A F, f, v : r \notin F => Leaves({SetFolder(j, f, v) : j \in F}, r)
         /\ \A F : r \notin F => Leaves(Undelete(F), r) /\ Leaves(PurgeFolders(F), r)
BY ChangeFacts DEF Leaves, PurgeImages, Undelete, PurgeFolders

LEMMA DeletedTreeLeaves ==
  ASSUME NEW d, RowsOK(d), NEW r, RootRow(d, r), NEW i \in DOMAIN d.folders, i # r
  PROVE  Leaves(DeleteTree(d, i), r) /\ Leaves(PurgeTree(d, i), r)
<1> DEFINE F == UndeletedTree(d, i)
           I == ActiveIn(d, F)
           T == WholeTree(d, i)
           J == ImagesIn(d, T)
<1>1. r \notin F /\ r \notin T
  <2> DEFINE U == {j \in DOMAIN d.folders : d.folders[j].status # "deleted"}
             D == DOMAIN d.folders
  <2>1. U \subseteq D /\ D \subseteq D
    OBVIOUS
  <2>2. r \in D /\ d.folders[r].parent = NoId
    BY DEF RootRow
  <2> HIDE DEF U
  <2>3. r \notin Tree(d, i, U) /\ r \notin Tree(d, i, DOMAIN d.folders)
    BY <2>1, <2>2, RootIsNotBelow
  <2>4. QED
    BY <2>3 DEF WholeTree, UndeletedTree, U
<1>2. /\ DeleteTree(d, i) = {SetFolder(j, "status", "deleted") : j \in F} \cup
                           {SetImage(k, "status", "deleted") : k \in I}
      /\ PurgeTree(d, i) = PurgeFolders(T) \cup PurgeImages(J)
  BY DEF DeleteTree, PurgeTree
<1> HIDE DEF F, I, T, J
<1>3. Leaves(DeleteTree(d, i), r)
  BY <1>1, <1>2, ChangeFacts DEF Leaves
<1>4. Leaves(PurgeTree(d, i), r)
  BY <1>1, <1>2, ChangeFacts DEF Leaves, PurgeFolders, PurgeImages
<1>5. QED
  BY <1>3, <1>4

LEMMA RunIsDeleted ==
  ASSUME NEW d, RowsOK(d), Keyed(d), NEW i \in DOMAIN d.folders
  PROVE  /\ DeletedRun(d, i) \subseteq {j \in DOMAIN d.folders : d.folders[j].status = "deleted"}
         /\ d.folders[i].status = "deleted" => i \in DeletedRun(d, i)
BY RowsAreFinite, RunWithin DEF Keyed

LEMMA IdleFits == ASSUME NEW r PROVE Fit(Idle, r)
BY DEF Fit, Idle, Leaves, AtFolder

LEMMA GoFits ==
  ASSUME SessionsInv, NEW r, AllFit(r), NEW a \in Threads, NEW s, Go(a, s), Fit(s, r)
  PROVE  AllFit(r)'
BY DEF SessionsInv, AllFit, Go, Fit, Leaves

LEMMA EndFits ==
  ASSUME SessionsInv, NEW r, AllFit(r), NEW a \in Threads, End(a)
  PROVE  AllFit(r)'
<1>1. Go(a, Idle)
  BY DEF End, Go
<1>2. QED
  BY <1>1, IdleFits, GoFits

LEMMA ToCommitFits ==
  ASSUME SessionsInv, NEW r, AllFit(r), NEW a \in Threads, NEW s, ToCommit(a, s),
         DOMAIN s = Fields, Leaves(s.pend, r)
  PROVE  AllFit(r)'
<1>1. CASE s.pend = {}
  BY <1>1, EndFits DEF ToCommit
<1>2. CASE s.pend # {}
  <2> DEFINE t == [s EXCEPT !.pc = "commit"]
  <2>1. Go(a, t)
    BY <1>2 DEF ToCommit
  <2>2. Fit(t, r)
    BY DEF Fit, Fields, SyncPcs, AtFolder
  <2> HIDE DEF t
  <2>3. QED
    BY <2>1, <2>2, GoFits
<1>3. QED
  BY <1>1, <1>2

LEMMA ViewOfRoot ==
  ASSUME RowsInv, SessionsInv, NEW r, RootRow(db, r), NEW w, Leaves(w, r)
  PROVE  RootRow(Apply(db, w), r)
<1>1. SetFolder(r, "row", 0) \notin w
  BY ChangeFacts DEF Leaves
<1>2. \A f, old : Field(w, "f", r, f, old) = old
  BY FieldIs DEF Leaves
<1>3. QED
  BY <1>1, <1>2, ApplyIs DEF RootRow

LEMMA FilesFit ==
  ASSUME RowsInv, SessionsInv, Sound(db), NEW r, RootRow(db, r), AllFit(r), NEW a \in Threads,
         \/ SyncFileLook(a) \/ SyncFileGone(a) \/ SyncFileHave(a)
         \/ CreateFolders(a) \/ InsertImage(a) \/ PutId(a)
  PROVE  AllFit(r)'
<1> USE DEF Fields
<1>0. DOMAIN act[a] = Fields /\ Fit(act[a], r)
  BY DEF SessionsInv, Shape, AllFit
<1>00. Leaves(act[a].pend, r) /\ (act[a].op = "sync" => act[a].pc \in SyncPcs)
  BY <1>0 DEF Fit
<1>1. CASE SyncFileLook(a)
  <2> DEFINE s == [act[a] EXCEPT !.pc = IF act[a].path \in DOMAIN files THEN "have" ELSE "gone"]
  <2>1. Go(a, s)
    BY <1>1 DEF SyncFileLook, Goto
  <2>2. Fit(s, r)
    BY <1>0, <1>00 DEF Fit, SyncPcs, AtFolder
  <2> HIDE DEF s
  <2>3. QED
    BY <2>1, <2>2, GoFits
<1>2. CASE SyncFileGone(a)
  <2> DEFINE p == act[a].path
             I == {i \in ImagesAt(db, p) : db.images[i].status = "active"}
             F == {db.images[i].folder : i \in I}
             w == {SetImage(i, "status", "deleted") : i \in I}
             q == db.folders[CHOOSE f \in F : TRUE].path
             s == [act[a] EXCEPT !.pc = "folderlook", !.pend = w, !.path = q]
             t == [act[a] EXCEPT !.pend = w]
  <2>0. \A u \in w : u[3] = "status"
    BY ChangeFacts
  <2>1. Leaves(w, r)
    <3> HIDE DEF I
    <3>1. QED
      BY ChangeFacts DEF Leaves
  <2>2. Go(a, s) \/ ToCommit(a, t)
    BY <1>2 DEF SyncFileGone
  <2> HIDE DEF w, q
  <2>3. Fit(s, r)
    BY <1>0, <1>00, <2>0, <2>1 DEF Fit, SyncPcs, AtFolder
  <2>4. DOMAIN t = Fields /\ t.pend = w
    BY <1>0
  <2> HIDE DEF s, t
  <2>5. QED
    BY <2>1, <2>2, <2>3, <2>4, GoFits, ToCommitFits
<1>3. CASE SyncFileHave(a)
  <2> DEFINE p == act[a].path
             I == ImagesAt(db, p)
             i == TheImage(db, p)
             F == DeletedRun(db, db.images[i].folder)
             s == [act[a] EXCEPT !.pc = "chain"]
             t == [act[a] EXCEPT !.pc = "put", !.id = i]
             w == {SetImage(i, "status", "active")} \cup Undelete(F)
             o == [act[a] EXCEPT !.pc = "commit", !.pend = w]
  <2>1. \/ Go(a, s)
        \/ Go(a, t) /\ act[a].op = "lookup"
        \/ Go(a, o) /\ I # {}
        \/ End(a)
    BY <1>3 DEF SyncFileHave, Goto
  <2>2. Fit(s, r)
    BY <1>0, <1>00 DEF Fit, SyncPcs, AtFolder
  <2>3. ASSUME act[a].op = "lookup" PROVE Fit(t, r)
    <3> HIDE DEF i
    <3>1. QED
      BY <1>0, <1>00, <2>3 DEF Fit, SyncPcs, AtFolder
  <2>4. ASSUME I # {} PROVE Leaves(w, r)
    <3>1. i \in DOMAIN db.images
      BY <2>4, ImageFound DEF ImagesAt
    <3>2. RowsOK(db) /\ Keyed(db) /\ db.images[i].folder \in DOMAIN db.folders
      BY <3>1, SoundIsKeyed DEF RowsInv, Keyed
    <3>3. F \subseteq {j \in DOMAIN db.folders : db.folders[j].status = "deleted"}
      BY <3>2, RunIsDeleted
    <3>4. r \notin F
      BY <3>3 DEF RootRow
    <3> HIDE DEF F, i
    <3>5. QED
      BY <3>4, LeavingSets
  <2> HIDE DEF w, i, I
  <2>5. ASSUME I # {} PROVE Fit(o, r)
    BY <1>0, <1>00, <2>4, <2>5 DEF Fit, SyncPcs, AtFolder
  <2> HIDE DEF s, t, o
  <2>6. QED
    BY <2>1, <2>2, <2>3, <2>5, GoFits, EndFits
<1>4. CASE CreateFolders(a)
  <2> DEFINE f == TheFolder(WithFolders(db, ParentOf(act[a].path)), ParentOf(act[a].path))
             s == [act[a] EXCEPT !.pc = "insert", !.fid = f]
  <2>1. Go(a, s)
    BY <1>4 DEF CreateFolders
  <2> HIDE DEF f
  <2>2. Fit(s, r)
    BY <1>0, <1>00 DEF Fit, SyncPcs, AtFolder
  <2> HIDE DEF s
  <2>3. QED
    BY <2>1, <2>2, GoFits
<1>5. CASE InsertImage(a)
  <2> DEFINE s == [act[a] EXCEPT !.pc = "put", !.id = next.image]
             t == [act[a] EXCEPT !.pc = "have", !.again = TRUE]
  <2>1. (Go(a, s) /\ act[a].op = "lookup") \/ Go(a, t) \/ End(a)
    BY <1>5 DEF InsertImage
  <2>2. ASSUME act[a].op = "lookup" PROVE Fit(s, r)
    BY <1>0, <1>00, <2>2 DEF Fit, SyncPcs, AtFolder
  <2>3. Fit(t, r)
    BY <1>0, <1>00 DEF Fit, SyncPcs, AtFolder
  <2> HIDE DEF s, t
  <2>4. QED
    BY <2>1, <2>2, <2>3, GoFits, EndFits
<1>6. CASE PutId(a)
  BY <1>6, EndFits DEF PutId
<1>7. QED
  BY <1>1, <1>2, <1>3, <1>4, <1>5, <1>6

LEMMA FoldersFit ==
  ASSUME RowsInv, SessionsInv, DiskInv, Sound(db), NEW r, RootRow(db, r), r \notin tasks, AllFit(r),
         NEW a \in Threads,
         FolderLook(a) \/ FolderGone(a) \/ FolderHave(a) \/ Commit(a) \/ DataDelete(a)
  PROVE  AllFit(r)'
<1> USE DEF Fields
<1>0. DOMAIN act[a] = Fields /\ Fit(act[a], r)
  BY DEF SessionsInv, Shape, AllFit
<1>00. Leaves(act[a].pend, r) /\ (act[a].op = "sync" => act[a].pc \in SyncPcs)
  BY <1>0 DEF Fit
<1>01. RootRow(View(a), r) /\ RowsOK(View(a))
  BY <1>00, ViewOfRoot, ViewType DEF View
<1>1. CASE FolderLook(a)
  <2> DEFINE s == [act[a] EXCEPT !.pc =
                       IF act[a].path \in dirs THEN "folderhave" ELSE "foldergone"]
  <2>1. Go(a, s)
    BY <1>1 DEF FolderLook, Goto
  <2>2. act[a].path \notin dirs => act[a].path # Root
    BY DEF DiskInv
  <2>3. Fit(s, r)
    BY <1>0, <1>00, <1>1, <2>2 DEF Fit, SyncPcs, AtFolder, FolderLook
  <2> HIDE DEF s
  <2>4. QED
    BY <2>1, <2>3, GoFits
<1>2. CASE FolderGone(a)
  <2> DEFINE v == View(a)
             F == {f \in FoldersAt(v, act[a].path) : v.folders[f].status = "active"}
             w == act[a].pend \cup {SetFolder(f, "status", "deleted") : f \in F}
             s == [act[a] EXCEPT !.pc = "commit", !.pend = w]
  <2>1. End(a) \/ Go(a, s)
    BY <1>2 DEF FolderGone
  <2>2. act[a].path # Root
    BY <1>0, <1>2 DEF FolderGone, Fit
  <2>3. r \notin F
    BY <1>01, <2>2 DEF RootRow, FoldersAt
  <2>4. Leaves(w, r)
    <3> HIDE DEF F
    <3>1. QED
      BY <1>00, <2>3, ChangeFacts DEF Leaves
  <2> HIDE DEF w
  <2>5. Fit(s, r)
    BY <1>0, <1>00, <2>4 DEF Fit, SyncPcs, AtFolder
  <2> HIDE DEF s
  <2>6. QED
    BY <2>1, <2>5, GoFits, EndFits
<1>3. CASE FolderHave(a)
  <2> DEFINE p  == act[a].path
             v  == View(a)
             M  == MissingFolders(v, p)
             f  == TheFolder(v, p)
             F  == DeletedRun(v, f)
             g  == TheFolder(WithFolders(v, p), p)
             w  == act[a].pend \cup Undelete(F)
             s  == [act[a] EXCEPT !.pend = {}, !.fid = g]
             t  == [act[a] EXCEPT !.fid = f, !.pend = w]
             s2 == [s EXCEPT !.pc = "mv_check"]
             t2 == [t EXCEPT !.pc = "mv_check"]
  <2>1. \/ IF s.op = "movefile" THEN Go(a, s2) ELSE ToCommit(a, s)
        \/ M = {} /\ IF t.op = "movefile" THEN Go(a, t2) ELSE ToCommit(a, t)
        \/ End(a)
    BY <1>3 DEF FolderHave
  <2>2. ASSUME M = {} PROVE Leaves(w, r)
    <3>1. p \in FolderPaths
      BY <1>3 DEF FolderHave, SessionsInv, Shape, AtFolder
    <3>2. f \in DOMAIN v.folders
      BY <2>2, <3>1, NothingMissing
    <3>3. Keyed(v)
      BY <1>0, <1>3, StatusChanges, RightedIsKeyed, SoundIsKeyed
         DEF FolderHave, Fit, AtFolder, View, RowsInv
    <3>4. F \subseteq {j \in DOMAIN v.folders : v.folders[j].status = "deleted"}
      BY <1>01, <3>2, <3>3, RunIsDeleted
    <3>5. r \notin F
      BY <1>01, <3>4 DEF RootRow
    <3> HIDE DEF F
    <3>6. QED
      BY <1>00, <3>5, LeavingSets
  <2>3. /\ s.op = act[a].op /\ s.pend = {} /\ DOMAIN s = Fields
        /\ t.op = act[a].op /\ t.pend = w /\ DOMAIN t = Fields
    BY <1>0
  <2> HIDE DEF w, f, g
  <2>4. ASSUME act[a].op = "movefile" PROVE Fit(s2, r)
    BY <1>0, <2>4, LeavingSets DEF Fit, AtFolder
  <2>5. ASSUME act[a].op = "movefile", M = {} PROVE Fit(t2, r)
    BY <1>0, <2>2, <2>5 DEF Fit, AtFolder
  <2>6. Leaves(s.pend, r)
    BY <2>3, LeavingSets
  <2> HIDE DEF s, t, s2, t2, M
  <2>7. QED
    BY <2>1, <2>2, <2>3, <2>4, <2>5, <2>6, GoFits, EndFits, ToCommitFits
<1>4. CASE Commit(a)
  BY <1>4, EndFits DEF Commit
<1>5. CASE DataDelete(a)
  <2> DEFINE f == act[a].fid
             w == DeleteTree(db, f)
             s == [act[a] EXCEPT !.pc = "commit", !.pend = w]
  <2>1. f # r
    BY <1>0, <1>5 DEF DataDelete, Fit
  <2>2. (f \in DOMAIN db.folders /\ Go(a, s)) \/ End(a)
    BY <1>5 DEF DataDelete
  <2>3. ASSUME f \in DOMAIN db.folders PROVE Leaves(w, r)
    BY <2>1, <2>3, DeletedTreeLeaves DEF RowsInv
  <2> HIDE DEF w
  <2>4. ASSUME f \in DOMAIN db.folders PROVE Fit(s, r)
    BY <1>0, <1>00, <2>3, <2>4 DEF Fit, SyncPcs, AtFolder
  <2> HIDE DEF s
  <2>5. QED
    BY <2>2, <2>4, GoFits, EndFits
<1>6. QED
  BY <1>1, <1>2, <1>3, <1>4, <1>5

LEMMA MovesFit ==
  ASSUME RowsInv, SessionsInv, NEW r, RootRow(db, r), AllFit(r), NEW a \in Threads,
         \/ MoveFileCheck(a) \/ MoveFileDisk(a) \/ MoveFileRecord(a)
         \/ MoveFileCommit(a) \/ MoveFileBack(a)
  PROVE  AllFit(r)'
<1> USE DEF Fields
<1>0. DOMAIN act[a] = Fields /\ Fit(act[a], r)
  BY DEF SessionsInv, Shape, AllFit
<1>00. Leaves(act[a].pend, r) /\ (act[a].op = "sync" => act[a].pc \in SyncPcs)
  BY <1>0 DEF Fit
<1> USE DEF SyncPcs, AtFolder
<1>1. CASE MoveFileCheck(a)
  <2> DEFINE I == ImagesAt(View(a), act[a].to)
             w == act[a].pend \cup PurgeImages(I)
             b == act[a].to \in DOMAIN files
             s == [act[a] EXCEPT !.pc = "mv_disk", !.saw = b, !.pend = w]
  <2>1. (act[a].pc = "mv_check" /\ Go(a, s)) \/ End(a)
    BY <1>1 DEF MoveFileCheck
  <2> HIDE DEF I, b
  <2>2. Leaves(w, r)
    BY <1>00, LeavingSets
  <2> HIDE DEF w
  <2>3. ASSUME act[a].pc = "mv_check" PROVE Fit(s, r)
    BY <1>0, <1>00, <2>2, <2>3 DEF Fit
  <2> HIDE DEF s
  <2>4. QED
    BY <2>1, <2>3, GoFits, EndFits
<1>2. CASE MoveFileDisk(a)
  <2> DEFINE s == [act[a] EXCEPT !.pc = "mv_record"]
  <2>1. act[a].pc = "mv_disk" /\ (Go(a, s) \/ End(a))
    BY <1>2 DEF MoveFileDisk, Goto
  <2>2. Fit(s, r)
    BY <1>0, <1>00, <2>1 DEF Fit
  <2> HIDE DEF s
  <2>3. QED
    BY <2>1, <2>2, GoFits, EndFits
<1>3. CASE MoveFileRecord(a)
  <2> DEFINE i == act[a].id
             w == act[a].pend \cup
                      {SetImage(i, "src", act[a].to), SetImage(i, "folder", act[a].fid)} \cup
                      (IF act[a].rec.status = "active" THEN {}
                       ELSE {SetImage(i, "status", "active")})
             s == [act[a] EXCEPT !.pc = "mv_commit", !.pend = w]
  <2>1. act[a].pc = "mv_record" /\ Go(a, s)
    BY <1>3 DEF MoveFileRecord
  <2>2. Leaves(w, r)
    BY <1>00, ChangeFacts DEF Leaves
  <2> HIDE DEF w
  <2>3. Fit(s, r)
    BY <1>0, <1>00, <2>1, <2>2 DEF Fit
  <2> HIDE DEF s
  <2>4. QED
    BY <2>1, <2>3, GoFits
<1>4. CASE MoveFileCommit(a)
  <2> DEFINE s == [act[a] EXCEPT !.pc = "mv_back"]
  <2>1. act[a].pc = "mv_commit" /\ (Go(a, s) \/ End(a))
    BY <1>4 DEF MoveFileCommit, Goto
  <2>2. Fit(s, r)
    BY <1>0, <1>00, <2>1 DEF Fit
  <2> HIDE DEF s
  <2>3. QED
    BY <2>1, <2>2, GoFits, EndFits
<1>5. CASE MoveFileBack(a)
  BY <1>5, EndFits DEF MoveFileBack
<1>6. QED
  BY <1>1, <1>2, <1>3, <1>4, <1>5

LEMMA OthersFit ==
  ASSUME RowsInv, SessionsInv, NEW r, RootRow(db, r), AllFit(r), NEW a \in Threads,
         \/ DeleteFileDisk(a) \/ DeleteFileRecord(a) \/ UploadWrite(a)
         \/ MoveFolderDisk(a) \/ MoveFolderRecord(a)
         \/ DeleteFolderDisk(a) \/ DeleteFolderRecord(a)
  PROVE  AllFit(r)'
<1> USE DEF Fields
<1>0. DOMAIN act[a] = Fields /\ Fit(act[a], r)
  BY DEF SessionsInv, Shape, AllFit
<1>00. Leaves(act[a].pend, r) /\ (act[a].op = "sync" => act[a].pc \in SyncPcs)
  BY <1>0 DEF Fit
<1> USE DEF SyncPcs, AtFolder
<1>1. CASE DeleteFileDisk(a)
  <2> DEFINE s == [act[a] EXCEPT !.pc = "rm_record"]
  <2>1. act[a].pc = "rm" /\ Go(a, s)
    BY <1>1 DEF DeleteFileDisk, Goto
  <2>2. Fit(s, r)
    BY <1>0, <1>00, <2>1 DEF Fit
  <2> HIDE DEF s
  <2>3. QED
    BY <2>1, <2>2, GoFits
<1>2. CASE DeleteFileRecord(a)
  <2> DEFINE w == IF act[a].rec.status = "active"
                  THEN {SetImage(act[a].id, "status", "deleted")} ELSE {}
             s == [act[a] EXCEPT !.pend = w]
  <2>1. ToCommit(a, s)
    BY <1>2 DEF DeleteFileRecord
  <2>2. Leaves(w, r)
    BY ChangeFacts DEF Leaves
  <2> HIDE DEF w
  <2>3. DOMAIN s = Fields /\ s.pend = w
    BY <1>0
  <2> HIDE DEF s
  <2>4. QED
    BY <2>1, <2>2, <2>3, ToCommitFits
<1>3. CASE UploadWrite(a)
  <2> DEFINE s == [act[a] EXCEPT !.pc = "look"]
  <2>1. act[a].pc = "write" /\ (Go(a, s) \/ End(a))
    BY <1>3 DEF UploadWrite, Goto
  <2>2. Fit(s, r)
    BY <1>0, <1>00, <2>1 DEF Fit
  <2> HIDE DEF s
  <2>3. QED
    BY <2>1, <2>2, GoFits, EndFits
<1>4. CASE MoveFolderDisk(a)
  <2> DEFINE s == [act[a] EXCEPT !.pc = "mvf_record"]
  <2>1. act[a].pc = "mvf_disk" /\ (Go(a, s) \/ End(a))
    BY <1>4 DEF MoveFolderDisk, Goto
  <2>2. Fit(s, r)
    BY <1>0, <1>00, <2>1 DEF Fit
  <2> HIDE DEF s
  <2>3. QED
    BY <2>1, <2>2, GoFits, EndFits
<1>5. CASE MoveFolderRecord(a)
  <2> DEFINE from == act[a].path
             to   == act[a].to
             i    == act[a].fid
             v    == View(a)
             F    == WholeTree(v, i)
             I    == ImagesIn(v, F)
             Fits(p, S) == IsPrefix(from, p) /\ Rebase(p, from, to) \in S
             ok   == /\ i \in DOMAIN v.folders
                     /\ \A j \in F \ {i} : Fits(v.folders[j].path, FolderPaths)
                     /\ \A k \in I : Fits(v.images[k].src, FilePaths)
             up   == TheFolder(v, ParentOf(to))
             w    == act[a].pend \cup
                     {SetFolder(i, "path", to), SetFolder(i, "parent", up)} \cup
                     {SetFolder(j, "path", Rebase(v.folders[j].path, from, to)) : j \in F \ {i}} \cup
                     {SetImage(k, "src", Rebase(v.images[k].src, from, to)) : k \in I}
             s == [act[a] EXCEPT !.pend = {}]
             t == [act[a] EXCEPT !.pc = "commit", !.pend = w]
  <2>1. Go(a, s) \/ (ok /\ Go(a, t)) \/ End(a)
    BY <1>5 DEF MoveFolderRecord
  <2>2. act[a].pc = "mvf_record"
    BY <1>5 DEF MoveFolderRecord
  <2>3. Fit(s, r)
    BY <1>0, <1>00, <2>2, LeavingSets DEF Fit
  <2>4. ASSUME i \in DOMAIN v.folders PROVE Leaves(w, r)
    <3>1. i # r
      BY <1>0, <2>2 DEF Fit
    <3>2. RootRow(v, r) /\ RowsOK(v)
      BY <1>00, ViewOfRoot, ViewType DEF View
    <3> HIDE DEF v
    <3>3. r \notin F
      BY <2>4, <3>1, <3>2, RootIsNotBelow DEF RootRow, WholeTree
    <3> HIDE DEF F, I, i, up, from, to
    <3>4. QED
      BY <1>00, <3>1, <3>3, ChangeFacts DEF Leaves
  <2>5. ok => i \in DOMAIN v.folders
    OBVIOUS
  <2> HIDE DEF ok, v, w
  <2>6. ASSUME ok PROVE Fit(t, r)
    BY <1>0, <1>00, <2>4, <2>5, <2>6 DEF Fit
  <2> HIDE DEF s, t
  <2>7. QED
    BY <2>1, <2>3, <2>6, GoFits, EndFits
<1>6. CASE DeleteFolderDisk(a)
  <2> DEFINE s == [act[a] EXCEPT !.pc = "rmf_record"]
  <2>1. act[a].pc = "rmf" /\ Go(a, s)
    BY <1>6 DEF DeleteFolderDisk, Goto
  <2>2. Fit(s, r)
    BY <1>0, <1>00, <2>1 DEF Fit
  <2> HIDE DEF s
  <2>3. QED
    BY <2>1, <2>2, GoFits
<1>7. CASE DeleteFolderRecord(a)
  <2> DEFINE i == act[a].fid
             w == IF act[a].saw /\ i \in DOMAIN db.folders THEN DeleteTree(db, i) ELSE {}
             s == [act[a] EXCEPT !.pend = w]
  <2>1. act[a].pc = "rmf_record" /\ ToCommit(a, s)
    BY <1>7 DEF DeleteFolderRecord
  <2>2. i # r
    BY <1>0, <2>1 DEF Fit
  <2>3. Leaves(w, r)
    <3>1. i \in DOMAIN db.folders => Leaves(DeleteTree(db, i), r)
      BY <2>2, DeletedTreeLeaves DEF RowsInv
    <3> HIDE DEF i
    <3>2. QED
      BY <3>1, LeavingSets
  <2> HIDE DEF w
  <2>4. DOMAIN s = Fields /\ s.pend = w
    BY <1>0
  <2> HIDE DEF s
  <2>5. QED
    BY <2>1, <2>3, <2>4, ToCommitFits
<1>8. QED
  BY <1>1, <1>2, <1>3, <1>4, <1>5, <1>6, <1>7

LEMMA BeginningsFit ==
  ASSUME RowsInv, SessionsInv, DiskInv, NEW r, RootRow(db, r), AllFit(r), NEW a \in Threads,
         Free(a),
         \/ \E p \in FilePaths : Lookup(a, p)
         \/ \E i \in 1..MaxImages, p \in FilePaths : MoveFile(a, i, p)
         \/ \E i \in 1..MaxImages : DeleteFile(a, i)
         \/ \E p \in FilePaths, o \in BOOLEAN : Upload(a, p, o)
         \/ \E p \in FolderPaths : CreateFolder(a, p)
         \/ \E i \in 1..MaxFolders, p \in FolderPaths : MoveFolder(a, i, p)
         \/ \E i \in 1..MaxFolders : DeleteFolder(a, i)
         \/ \E i \in 1..MaxFolders : Purge(a, i)
  PROVE  AllFit(r)'
<1> USE DEF Fields, SyncPcs, AtFolder
<1>0. DOMAIN act[a] = Fields /\ act[a].pend = {}
  <2>1. act[a] = Idle
    BY DEF Free, AllFit, Fit
  <2>2. QED
    BY <2>1 DEF Idle
<1>1. ASSUME NEW p \in FilePaths, Lookup(a, p) PROVE AllFit(r)'
  <2> DEFINE s == [act[a] EXCEPT !.op = "lookup", !.path = p, !.pc = "have"]
  <2>1. Go(a, s)
    BY <1>1 DEF Lookup, LookupStart
  <2>2. Fit(s, r)
    BY <1>0 DEF Fit, Leaves
  <2> HIDE DEF s
  <2>3. QED
    BY <2>1, <2>2, GoFits
<1>2. ASSUME NEW i \in 1..MaxImages, NEW p \in FilePaths, MoveFile(a, i, p) PROVE AllFit(r)'
  <2> DEFINE q == ParentOf(p)
             s == [act[a] EXCEPT !.op = "movefile", !.pc = "folderhave", !.id = i,
                       !.rec = db.images[i], !.to = p, !.path = q]
  <2>1. Go(a, s)
    BY <1>2 DEF MoveFile, MoveFileStart
  <2> HIDE DEF q
  <2>2. Fit(s, r)
    BY <1>0 DEF Fit, Leaves
  <2> HIDE DEF s
  <2>3. QED
    BY <2>1, <2>2, GoFits
<1>3. ASSUME NEW i \in 1..MaxImages, DeleteFile(a, i) PROVE AllFit(r)'
  <2> DEFINE s == [act[a] EXCEPT !.op = "delete", !.pc = "rm", !.id = i, !.rec = db.images[i]]
  <2>1. Go(a, s)
    BY <1>3 DEF DeleteFile, DeleteFileStart
  <2>2. Fit(s, r)
    BY <1>0 DEF Fit, Leaves
  <2> HIDE DEF s
  <2>3. QED
    BY <2>1, <2>2, GoFits
<1>4. ASSUME NEW p \in FilePaths, NEW o \in BOOLEAN, Upload(a, p, o) PROVE AllFit(r)'
  <2> DEFINE s == [act[a] EXCEPT !.op = "upload", !.pc = "write", !.path = p, !.saw = o]
  <2>1. Go(a, s)
    BY <1>4 DEF Upload, UploadStart
  <2>2. Fit(s, r)
    BY <1>0 DEF Fit, Leaves
  <2> HIDE DEF s
  <2>3. QED
    BY <2>1, <2>2, GoFits
<1>5. ASSUME NEW p \in FolderPaths, CreateFolder(a, p) PROVE AllFit(r)'
  <2> DEFINE s == [act[a] EXCEPT !.op = "create", !.pc = "folderhave", !.path = p]
  <2>1. Go(a, s)
    BY <1>5 DEF CreateFolder, CreateFolderStart
  <2>2. Fit(s, r)
    BY <1>0 DEF Fit, Leaves
  <2> HIDE DEF s
  <2>3. QED
    BY <2>1, <2>2, GoFits
<1>6. ASSUME NEW i \in 1..MaxFolders, NEW to \in FolderPaths, MoveFolder(a, i, to)
      PROVE  AllFit(r)'
  <2> DEFINE from == db.folders[i].path
             w == IF FoldersAt(db, to) = {} THEN {} ELSE PurgeTree(db, TheFolder(db, to))
             s == [act[a] EXCEPT !.op = "movefolder", !.pc = "mvf_disk", !.fid = i,
                            !.path = from, !.to = to, !.pend = w]
  <2>1. Go(a, s) /\ i \in DOMAIN db.folders /\ from # Root /\ to \notin dirs
    BY <1>6 DEF MoveFolder, MoveFolderStart
  <2>2. i # r /\ to # Root
    BY <2>1 DEF RootRow, DiskInv
  <2>3. Leaves(w, r)
    <3>1. ASSUME FoldersAt(db, to) # {} PROVE Leaves(PurgeTree(db, TheFolder(db, to)), r)
      <4>1. TheFolder(db, to) \in DOMAIN db.folders /\ TheFolder(db, to) # r
        BY <2>2, <3>1, FolderFound DEF RootRow
      <4>2. QED
        BY <4>1, DeletedTreeLeaves DEF RowsInv
    <3>2. QED
      BY <3>1, LeavingSets
  <2> HIDE DEF w, from
  <2>4. Fit(s, r)
    BY <1>0, <2>2, <2>3 DEF Fit
  <2> HIDE DEF s
  <2>5. QED
    BY <2>1, <2>4, GoFits
<1>7. ASSUME NEW i \in 1..MaxFolders, DeleteFolder(a, i) PROVE AllFit(r)'
  <2> DEFINE b == db.folders[i].status = "active"
             p == db.folders[i].path
             s == [act[a] EXCEPT !.op = "deletefolder", !.pc = "rmf", !.fid = i,
                       !.path = p, !.saw = b]
  <2>1. Go(a, s) /\ i \in DOMAIN db.folders /\ p # Root
    BY <1>7 DEF DeleteFolder, DeleteFolderStart
  <2>2. i # r
    BY <2>1 DEF RootRow
  <2> HIDE DEF b, p
  <2>3. Fit(s, r)
    BY <1>0, <2>2 DEF Fit, Leaves
  <2> HIDE DEF s
  <2>4. QED
    BY <2>1, <2>3, GoFits
<1>8. ASSUME NEW i \in 1..MaxFolders, Purge(a, i) PROVE AllFit(r)'
  <2> DEFINE I == DeletedImages(db, i)
             F == EmptiedFolders(db, i)
             w == PurgeImages(I) \cup PurgeFolders(F)
             s == [act[a] EXCEPT !.op = "purge", !.pc = "commit", !.pend = w]
  <2>1. Go(a, s)
    BY <1>8 DEF Purge, PurgeStart
  <2>2. r \notin F
    <3>1. F \subseteq {j \in WholeTree(db, i) : db.folders[j].status = "deleted"}
      BY RowsAreFinite, EmptiedAreDeleted DEF RowsInv
    <3>2. QED
      BY <3>1 DEF RootRow
  <2> HIDE DEF F, I
  <2>3. Leaves(w, r)
    BY <2>2, LeavingSets
  <2> HIDE DEF w
  <2>4. Fit(s, r)
    BY <1>0, <2>3 DEF Fit
  <2> HIDE DEF s
  <2>5. QED
    BY <2>1, <2>4, GoFits
<1>9. QED
  BY <1>1, <1>2, <1>3, <1>4, <1>5, <1>6, <1>7, <1>8

RootInv == \E r \in FolderIds : RootRow(db, r) /\ r \notin tasks /\ AllFit(r)

LEMMA FitStep ==
  ASSUME RowsInv, SessionsInv, DiskInv, Sound(db), NEW r, RootRow(db, r), r \notin tasks, AllFit(r),
         [Next]_vars
  PROVE  AllFit(r)'
<1>1. ASSUME NEW a \in Threads, NEW p \in (FolderPaths \cup FilePaths) \ {Root}, Visit(a, p)
      PROVE  AllFit(r)'
  <2>0. act[a] = Idle
    BY <1>1 DEF Visit, Free, AllFit, Fit
  <2> DEFINE s == [act[a] EXCEPT !.op = "sync", !.path = p, !.pc = "look"]
             t == [act[a] EXCEPT !.op = "sync", !.path = p, !.pc = "folderlook"]
  <2>1. Go(a, s) \/ Go(a, t)
    BY <1>1 DEF Visit, Sync
  <2>2. Fit(s, r) /\ Fit(t, r)
    BY <2>0 DEF Idle, Fit, Leaves, SyncPcs, AtFolder
  <2> HIDE DEF s, t
  <2>3. QED
    BY <2>1, <2>2, GoFits
<1>2. ASSUME NEW a \in Threads, Step(a) PROVE AllFit(r)'
  BY <1>2, FilesFit, FoldersFit, MovesFit, OthersFit DEF Step
<1>3. ASSUME NEW a \in Threads, Start(a) PROVE AllFit(r)'
  BY <1>3, BeginningsFit DEF Start
<1>4. ASSUME NEW a \in Threads, NEW f \in tasks, DeleteData(a, f) PROVE AllFit(r)'
  <2>0. act[a] = Idle /\ f # r
    BY <1>4 DEF DeleteData, Free, AllFit, Fit
  <2> DEFINE s == [act[a] EXCEPT !.op = "data", !.fid = f, !.pc = "data"]
  <2>1. Go(a, s)
    BY <1>4 DEF DeleteData, DataStart
  <2>2. Fit(s, r)
    BY <2>0 DEF Idle, Fit, Leaves, SyncPcs, AtFolder
  <2> HIDE DEF s
  <2>3. QED
    BY <2>1, <2>2, GoFits
<1>5. CASE Refuse
  BY <1>5 DEF Refuse, DataRefused, AllFit, Fit, Leaves
<1>6. CASE Outside
  BY <1>6 DEF Outside, AllFit, Fit, Leaves
<1>7. CASE UNCHANGED vars
  BY <1>7 DEF vars, AllFit, Fit, Leaves
<1>8. QED
  BY <1>1, <1>2, <1>3, <1>4, <1>5, <1>6, <1>7 DEF Next

LEMMA RootStep ==
  ASSUME RowsInv, SessionsInv, DiskInv, Sound(db), RootInv, [Next]_vars
  PROVE  RootInv'
<1>1. PICK r \in FolderIds : RootRow(db, r) /\ r \notin tasks /\ AllFit(r)
  BY DEF RootInv
<1>2. AllFit(r)'
  BY <1>1, FitStep
<1>3. \A a \in Threads : RootRow(View(a), r)
  BY <1>1, ViewOfRoot DEF View, AllFit, Fit
<1>4. r \notin tasks'
  <2>1. CASE tasks' \subseteq tasks
    BY <1>1, <2>1
  <2>2. ASSUME NEW a \in Threads, FolderGone(a),
               tasks' \subseteq tasks \cup {f \in FoldersAt(View(a), act[a].path) :
                                              View(a).folders[f].status = "active"}
        PROVE  r \notin tasks'
    <3>1. act[a].path # Root
      BY <1>1, <2>2 DEF FolderGone, AllFit, Fit
    <3>2. r \notin FoldersAt(View(a), act[a].path)
      BY <1>3, <3>1 DEF RootRow, FoldersAt
    <3>3. QED
      BY <1>1, <2>2, <3>2
  <2>3. QED
    BY <2>1, <2>2, TasksPosted
<1>5. RootRow(db', r)
  <2>1. CASE db' = db
    BY <1>1, <2>1
  <2>2. ASSUME NEW d, RowsOK(d), RootRow(d, r), \A i \in DOMAIN d.folders : i < next.folder,
               NEW p \in FolderPaths, HaveFolderIds(d, p)
        PROVE  RootRow(WithFolders(d, p), r)
    <3> DEFINE e == WithFolders(d, p)
    <3>1. Extended(d, e, MissingFolders(d, p))
      BY <2>2, WithFoldersExtends DEF RowsInv
    <3> HIDE DEF e
    <3>2. RootRow(e, r)
      BY <2>2, <3>1 DEF Extended, RootRow
    <3>3. QED
      BY <3>2 DEF e
  <2>3. ASSUME NEW a \in Threads, RowsWritten(a) PROVE RootRow(db', r)
    <3>1. CASE db' = View(a)
      BY <1>3, <3>1
    <3>2. CASE CreateFolders(a)
      <4>1. act[a].path \in FilePaths
        BY <3>2 DEF CreateFolders, SessionsInv, Shape, AtFile
      <4>2. ParentOf(act[a].path) \in FolderPaths
        BY <4>1, PathFacts
      <4>3. HaveFolderIds(db, ParentOf(act[a].path)) /\ db' = WithFolders(db, ParentOf(act[a].path))
        BY <3>2 DEF CreateFolders
      <4>4. RowsOK(db) /\ \A i \in DOMAIN db.folders : i < next.folder
        BY DEF RowsInv
      <4>5. QED
        BY <1>1, <2>2, <4>2, <4>3, <4>4
    <3>3. ASSUME NEW p \in FolderPaths,
                 HaveFolderIds(View(a), p), db' = WithFolders(View(a), p)
          PROVE  RootRow(db', r)
      <4>1. RowsOK(View(a)) /\ \A i \in DOMAIN View(a).folders : i < next.folder
        BY ViewType
      <4>2. QED
        BY <1>3, <2>2, <3>3, <4>1
    <3>4. CASE InsertImage(a)
      <4>1. db'.folders = db.folders
        BY <3>4 DEF InsertImage, RowsInv, RowsOK
      <4>2. QED
        BY <1>1, <4>1 DEF RootRow
    <3>5. QED
      BY <2>3, <3>1, <3>2, <3>3, <3>4 DEF RowsWritten
  <2>4. QED
    BY <2>1, <2>3, RowsAreWritten
<1>6. QED
  BY <1>2, <1>4, <1>5 DEF RootInv

-----------------------------------------------------------------------------
(* Records in the folders that their paths say. *)

\* The folders above a folder that has a record have records.
LEMMA RowsAbove ==
  ASSUME NEW d, RowsOK(d), Keyed(d), WellFiled(d), NEW i \in DOMAIN d.folders,
         NEW q \in FolderPaths, IsPrefix(q, d.folders[i].path)
  PROVE  \E j \in DOMAIN d.folders : d.folders[j].path = q
<1> DEFINE L(j) == Len(d.folders[j].path)
           J == {j \in DOMAIN d.folders : IsPrefix(q, d.folders[j].path)}
           S == {L(j) : j \in J}
<1>1. q \in Seq(Names) /\ \A j \in DOMAIN d.folders : d.folders[j].path \in Seq(Names)
  BY PathFacts DEF RowsOK, Folder
<1>2. \A j \in DOMAIN d.folders : L(j) \in Nat
  BY <1>1, LenProperties
<1>3. S \subseteq Nat /\ S # {}
  BY <1>2
<1>4. PICK j \in J : \A k \in J : L(j) <= L(k)
  <2> HIDE DEF S
  <2>1. PICK n \in S : \A m \in S : n <= m
    BY <1>3, LeastNumber
  <2> USE DEF S
  <2>2. PICK j \in J : n = L(j)
    OBVIOUS
  <2>3. \A k \in J : L(k) \in S
    OBVIOUS
  <2> HIDE DEF S, L
  <2>4. QED
    BY <2>1, <2>2, <2>3
<1>5. SUFFICES ASSUME d.folders[j].path # q PROVE FALSE
  BY <1>4
<1> DEFINE p == d.folders[j].path
           k == d.folders[j].parent
<1>6. p \in Seq(Names) /\ IsPrefix(q, p) /\ p # q
  BY <1>1, <1>4, <1>5
<1>7. IsPrefix(q, ParentOf(p)) /\ p # <<>> /\ Len(p) \in Nat
      /\ Len(p) >= 1 /\ Len(ParentOf(p)) = Len(p) - 1
  BY <1>1, <1>6, PrefixOfParent, ParentFacts, LenProperties
<1>8. k \in DOMAIN d.folders /\ d.folders[k].path = ParentOf(p)
  BY <1>4, <1>7 DEF WellFiled, Keyed, Root
<1>9. k \in J /\ L(k) = L(j) - 1
  BY <1>7, <1>8
<1>10. L(j) <= L(k) /\ L(k) \in Nat /\ L(j) \in Nat
  BY <1>2, <1>4, <1>8, <1>9
<1> HIDE DEF L
<1>11. QED
  BY <1>9, <1>10

\* What is above the folder of a record, and deleted, is above its path.
LEMMA RunIsAbove ==
  ASSUME NEW d, RowsOK(d), Keyed(d), WellFiled(d), NEW r, RootRow(d, r),
         NEW i \in DOMAIN d.folders
  PROVE  \A g \in DeletedRun(d, i) :
             g \in DOMAIN d.folders /\ IsPrefix(d.folders[g].path, d.folders[i].path)
<1> DEFINE C == {g \in DOMAIN d.folders : IsPrefix(d.folders[g].path, d.folders[i].path)}
<1>1. \A j \in DOMAIN d.folders : d.folders[j].path \in Seq(Names)
  BY PathFacts DEF RowsOK, Folder
<1>2. i \in C
  BY <1>1, PrefixSelf
<1>3. ASSUME NEW j \in C \cap DOMAIN d.folders, d.folders[j].parent # NoId
      PROVE  d.folders[j].parent \in C
  <2> DEFINE k == d.folders[j].parent
  <2>1. d.folders[j].path # Root
    BY <1>3 DEF RootRow, Keyed
  <2>2. k \in DOMAIN d.folders /\ d.folders[k].path = ParentOf(d.folders[j].path)
    BY <1>3, <2>1 DEF WellFiled, Keyed
  <2>3. IsPrefix(d.folders[k].path, d.folders[j].path)
    BY <1>1, <2>2, ParentFacts
  <2>4. IsPrefix(d.folders[j].path, d.folders[i].path)
    OBVIOUS
  <2>5. IsPrefix(d.folders[k].path, d.folders[i].path)
    BY <1>1, <2>2, <2>3, <2>4, PrefixTrans
  <2>6. QED
    BY <2>2, <2>5
<1>4. \A j \in C \cap DOMAIN d.folders : d.folders[j].parent # NoId => d.folders[j].parent \in C
  BY <1>3
<1> HIDE DEF C
<1>5. DeletedRun(d, i) \subseteq C
  BY <1>2, <1>4, RowsAreFinite, RunWithin DEF Keyed
<1>6. QED
  BY <1>5 DEF C

LEMMA SameRecordsFiled ==
  ASSUME NEW d, NEW e, Keyed(d), SameRecords(d, e)
  PROVE  WellFiled(e) <=> WellFiled(d)
BY DEF WellFiled, SameRecords, Keyed

LEMMA ExtendedIsFiled ==
  ASSUME NEW d, NEW e, NEW M, Keyed(d), Extended(d, e, M)
  PROVE  WellFiled(e) => WellFiled(d)
<1>1. /\ e.images = d.images
      /\ \A i \in DOMAIN d.folders : i \in DOMAIN e.folders /\ e.folders[i] = d.folders[i]
  BY DEF Extended
<1>2. \A i \in DOMAIN d.images : d.images[i].folder \in DOMAIN d.folders
  BY DEF Keyed
<1>3. \A i \in DOMAIN d.folders : d.folders[i].parent \in DOMAIN d.folders \cup {NoId}
  BY DEF Keyed
<1>4. QED
  BY <1>1, <1>2, <1>3 DEF WellFiled

\* New folders that are on disk leave every path settled that was.
LEMMA ExtendedIsSettled ==
  ASSUME NEW d, NEW e, NEW M, M \subseteq dirs, Extended(d, e, M), NEW p, Settled(d, p)
  PROVE  Settled(e, p)
<1>1. ImagesAt(e, p) = ImagesAt(d, p) /\ e.images = d.images
  BY DEF Extended, ImagesAt
<1>2. \A i \in FoldersAt(d, p) : i \in FoldersAt(e, p) /\ e.folders[i] = d.folders[i]
  BY DEF Extended, FoldersAt
<1>3. \A i \in FoldersAt(e, p) : i \in FoldersAt(d, p) \/ p \in dirs
  BY DEF Extended, FoldersAt
<1>4. QED
  BY <1>1, <1>2, <1>3 DEF Settled

\* The folder visited has a record of its own among the new ones.
LEMMA MissingWithItsParents ==
  ASSUME NEW d, RowsOK(d), Keyed(d), WellFiled(d), NEW p \in FolderPaths,
         MissingFolders(d, p) # {}
  PROVE  p \in MissingFolders(d, p)
<1>1. PICK q \in FolderPaths : IsPrefix(q, p) /\ FoldersAt(d, q) = {}
  BY DEF MissingFolders
<1>2. FoldersAt(d, p) = {}
  BY <1>1, RowsAbove DEF FoldersAt
<1>3. IsPrefix(p, p)
  BY PathFacts, PrefixSelf
<1>4. QED
  BY <1>2, <1>3 DEF MissingFolders

LEMMA NoChanges ==
  ASSUME NEW d, NEW p
  PROVE  Settled(Apply(d, {}), p) <=> Settled(d, p)
<1> DEFINE e == Apply(d, {})
<1>1. DOMAIN e.images = DOMAIN d.images /\ DOMAIN e.folders = DOMAIN d.folders
  <2>1. /\ DOMAIN e.images = {i \in DOMAIN d.images : SetImage(i, "row", 0) \notin {}}
        /\ DOMAIN e.folders = {i \in DOMAIN d.folders : SetFolder(i, "row", 0) \notin {}}
    BY ApplyIs
  <2>2. QED
    BY <2>1
<1>2. \A i \in DOMAIN d.images : e.images[i].src = d.images[i].src
                              /\ e.images[i].status = d.images[i].status
  BY <1>1, ApplyIs, FieldIs
<1>3. \A i \in DOMAIN d.folders : e.folders[i].path = d.folders[i].path
                               /\ e.folders[i].status = d.folders[i].status
  BY <1>1, ApplyIs, FieldIs
<1> HIDE DEF e
<1>4. ImagesAt(e, p) = ImagesAt(d, p) /\ FoldersAt(e, p) = FoldersAt(d, p)
  BY <1>1, <1>2, <1>3 DEF ImagesAt, FoldersAt
<1>5. /\ \A i \in ImagesAt(d, p) : e.images[i].status = d.images[i].status
      /\ \A i \in FoldersAt(d, p) : e.folders[i].status = d.folders[i].status
  BY <1>2, <1>3 DEF ImagesAt, FoldersAt
<1>6. Settled(e, p) <=> Settled(d, p)
  BY <1>4, <1>5 DEF Settled
<1>7. QED
  BY <1>6 DEF e

\* Changes of folders are none of the images.
LEMMA FolderChanges ==
  ASSUME NEW d, NEW w, NEW x, \A u \in x : u[1] = "f"
  PROVE  Apply(d, w \cup x).images = Apply(d, w).images
<1>1. \A i, f, old : Field(w \cup x, "i", i, f, old) = Field(w, "i", i, f, old)
  <2> TAKE i, f, old
  <2> DEFINE A == {u \in w \cup x : u[1] = "i" /\ u[2] = i /\ u[3] = f}
             B == {u \in w : u[1] = "i" /\ u[2] = i /\ u[3] = f}
  <2>1. A = B
    OBVIOUS
  <2>2. /\ Field(w \cup x, "i", i, f, old) = IF A = {} THEN old ELSE (CHOOSE u \in A : TRUE)[4]
        /\ Field(w, "i", i, f, old) = IF B = {} THEN old ELSE (CHOOSE u \in B : TRUE)[4]
    BY DEF Field
  <2> HIDE DEF A, B
  <2>3. QED
    BY <2>1, <2>2
<1>2. \A i : SetImage(i, "row", 0) \in w \cup x <=> SetImage(i, "row", 0) \in w
  BY ChangeFacts
<1> DEFINE D(v)    == {i \in DOMAIN d.images : SetImage(i, "row", 0) \notin v}
           R(v, i) == [src    |-> Field(v, "i", i, "src", d.images[i].src),
                       folder |-> Field(v, "i", i, "folder", d.images[i].folder),
                       status |-> Field(v, "i", i, "status", d.images[i].status)]
<1>3. \A v : Apply(d, v).images = [i \in D(v) |-> R(v, i)]
  BY DEF Apply
<1>4. D(w \cup x) = D(w) /\ \A i : R(w \cup x, i) = R(w, i)
  BY <1>1, <1>2
<1> HIDE DEF D, R
<1>5. [i \in D(w \cup x) |-> R(w \cup x, i)] = [i \in D(w) |-> R(w, i)]
  BY <1>4, Zenon
<1>6. QED
  BY <1>5, <1>3

LEMMA ImagesSettle ==
  ASSUME NEW p \in FilePaths, NEW d, NEW e, e.images = d.images, Settled(d, p)
  PROVE  Settled(e, p)
BY PathsAssumption DEF Settled, ImagesAt

-----------------------------------------------------------------------------
(* A round of visits: what each step of a visit leaves of its path. *)

\* What a visit has seen of the disk.
Sees(s) ==
    /\ s.pc \in {"look", "gone", "have", "chain", "insert"} => s.pend = {}
    /\ s.pc = "gone" => s.path \notin DOMAIN files
    /\ s.pc \in {"have", "chain", "insert"} => s.path \in DOMAIN files
    /\ s.pc = "foldergone" => s.path \notin dirs
    /\ s.pc = "folderhave" => s.path \in dirs

\* The visit s of p, with the rows e, will leave p settled.
OnTheWay(e, s, p) ==
    /\ s.pc \in {"look", "gone", "have", "chain", "insert"} => s.path = p
    /\ s.pc \in {"chain", "insert"} => ImagesAt(e, p) = {}
    /\ s.pc = "insert" => s.fid \in DOMAIN e.folders
    /\ s.pc \in AtFolder => \/ s.path = p /\ s.pend = {}
                            \/ p \in FilePaths /\ Settled(Apply(e, s.pend), p)
    /\ s.pc = "commit" => Settled(Apply(e, s.pend), p)

Progress(e, s, p) ==
    /\ s.pc # "idle" => s.op = "sync" /\ Sees(s) /\ \A u \in s.pend : RightChange(e, u)
    /\ WellFiled(e) => IF s.pc = "idle" THEN Settled(e, p) ELSE OnTheWay(e, s, p)

\* The rows e are filed wrongly where the present ones are, and keep what is settled.
Unbroken(e) ==
    WellFiled(e) => WellFiled(db) /\ \A q : Settled(db, q) => Settled(e, q)

Moves(a, p) ==
    \E e, s : /\ db' = e /\ act' = [act EXCEPT ![a] = s] /\ UNCHANGED disk
              /\ Progress(e, s, p) /\ Unbroken(e)

LEMMA SameIsUnbroken == Unbroken(db)
BY DEF Unbroken

LEMMA Proceeds ==
  ASSUME NEW a, NEW p, NEW s, Go(a, s), UNCHANGED disk, NEW e, db' = e, Unbroken(e),
         Progress(e, s, p)
  PROVE  Moves(a, p)
BY DEF Moves, Go

LEMMA Rests ==
  ASSUME NEW a, NEW p, End(a), UNCHANGED disk, NEW e, db' = e, Unbroken(e),
         WellFiled(e) => Settled(e, p)
  PROVE  Moves(a, p)
<1>1. act' = [act EXCEPT ![a] = Idle] /\ Idle.pc = "idle"
  BY DEF End, Idle
<1>2. Progress(e, Idle, p)
  BY <1>1 DEF Progress
<1>3. QED
  BY <1>1, <1>2 DEF Moves

\* To the commit of changes that are right, after which p is settled.
LEMMA Commits ==
  ASSUME NEW a, NEW p, NEW s, DOMAIN s = Fields, s.op = "sync", UNCHANGED disk,
         NEW e, db' = e, Unbroken(e), \A u \in s.pend : RightChange(e, u),
         WellFiled(e) => Settled(Apply(e, s.pend), p),
         ToCommit(a, s) \/ Go(a, [s EXCEPT !.pc = "commit"])
  PROVE  Moves(a, p)
<1>1. ASSUME s.pend = {}, End(a) PROVE Moves(a, p)
  <2>1. WellFiled(e) => Settled(e, p)
    BY <1>1, NoChanges
  <2>2. QED
    BY <1>1, <2>1, Rests
<1>2. ASSUME Go(a, [s EXCEPT !.pc = "commit"]) PROVE Moves(a, p)
  <2> DEFINE t == [s EXCEPT !.pc = "commit"]
  <2>1. t.pc = "commit" /\ t.op = "sync" /\ t.pend = s.pend
    BY DEF Fields
  <2> HIDE DEF t
  <2>2. Progress(e, t, p)
    BY <2>1 DEF Progress, Sees, OnTheWay, AtFolder
  <2>3. Go(a, t)
    BY <1>2 DEF t
  <2>4. QED
    BY <2>2, <2>3, Proceeds
<1>3. QED
  BY <1>1, <1>2 DEF ToCommit

\* A file and a folder on disk have all folders above them.
LEMMA AboveOnDisk ==
  ASSUME DiskInv, NEW p \in dirs \cup DOMAIN files, NEW q \in FolderPaths, IsPrefix(q, p)
  PROVE  q \in dirs
BY DEF DiskInv, Reachable

LEMMA VisitLooks ==
  ASSUME SessionsInv, NEW a \in Threads, NEW p, act[a].op = "sync", Progress(db, act[a], p),
         SyncFileLook(a) \/ FolderLook(a)
  PROVE  Moves(a, p)
<1>0. DOMAIN act[a] = Fields
  BY DEF SessionsInv, Shape
<1>1. CASE SyncFileLook(a)
  <2> DEFINE s == [act[a] EXCEPT !.pc = IF act[a].path \in DOMAIN files THEN "have" ELSE "gone"]
  <2>1. act[a].pc = "look" /\ Go(a, s) /\ db' = db /\ UNCHANGED disk
    BY <1>1 DEF SyncFileLook, Goto, disk
  <2>2. /\ s.pc = (IF act[a].path \in DOMAIN files THEN "have" ELSE "gone")
        /\ s.op = "sync" /\ s.pend = act[a].pend /\ s.path = act[a].path
    BY <1>0 DEF Fields
  <2> HIDE DEF s
  <2>3. Progress(db, s, p)
    BY <2>1, <2>2 DEF Progress, Sees, OnTheWay, AtFolder
  <2>4. QED
    BY <2>1, <2>3, Proceeds, SameIsUnbroken
<1>2. CASE FolderLook(a)
  <2> DEFINE s == [act[a] EXCEPT !.pc =
                       IF act[a].path \in dirs THEN "folderhave" ELSE "foldergone"]
  <2>1. act[a].pc = "folderlook" /\ Go(a, s) /\ db' = db /\ UNCHANGED disk
    BY <1>2 DEF FolderLook, Goto, disk
  <2>2. /\ s.pc = (IF act[a].path \in dirs THEN "folderhave" ELSE "foldergone")
        /\ s.op = "sync" /\ s.pend = act[a].pend /\ s.path = act[a].path
    BY <1>0 DEF Fields
  <2> HIDE DEF s
  <2>3. Progress(db, s, p)
    BY <2>1, <2>2 DEF Progress, Sees, OnTheWay, AtFolder
  <2>4. QED
    BY <2>1, <2>3, Proceeds, SameIsUnbroken
<1>3. QED
  BY <1>1, <1>2

LEMMA FileIsGone ==
  ASSUME RowsInv, SessionsInv, NEW a \in Threads, NEW p, act[a].op = "sync",
         Progress(db, act[a], p), SyncFileGone(a)
  PROVE  Moves(a, p)
<1> DEFINE o == act[a].path
           I == {i \in ImagesAt(db, o) : db.images[i].status = "active"}
           F == {db.images[i].folder : i \in I}
           w == {SetImage(i, "status", "deleted") : i \in I}
           q == db.folders[CHOOSE f \in F : TRUE].path
           s == [act[a] EXCEPT !.pc = "folderlook", !.pend = w, !.path = q]
           t == [act[a] EXCEPT !.pend = w]
<1>0. DOMAIN act[a] = Fields /\ act[a].pc = "gone" /\ o \in FilePaths
      /\ o \notin DOMAIN files /\ (WellFiled(db) => o = p) /\ RowsOK(db)
  BY DEF SessionsInv, Shape, SyncFileGone, Progress, Sees, OnTheWay, AtFile, RowsInv
<1>1. UNCHANGED disk /\ db' = db /\ (Go(a, s) \/ ToCommit(a, t))
  BY DEF SyncFileGone, disk
<1>2. \A u \in w : RightChange(db, u)
  BY <1>0 DEF RightChange, ImagesAt, Statuses
<1>3. Settled(Apply(db, w), o)
  <2> DEFINE e == Apply(db, w)
  <2>1. /\ Righted(db, e)
        /\ \A i \in DOMAIN db.images : \A v \in Statuses : SetImage(i, "status", v) \in w =>
                e.images[i].status = v
    BY <1>0, <1>2, RightingChanges
  <2>2. \A i \in I : i \in DOMAIN db.images /\ SetImage(i, "status", "deleted") \in w
    BY DEF ImagesAt
  <2> HIDE DEF e, w
  <2>3. ASSUME NEW i \in ImagesAt(e, o) PROVE e.images[i].status # "active"
    <3>1. i \in ImagesAt(db, o) /\ i \in DOMAIN db.images /\ db.images[i].src = o
      BY <2>1 DEF ImagesAt, Righted, SameRecords
    <3>2. CASE i \in I
      BY <2>1, <2>2, <3>2 DEF Statuses
    <3>3. CASE i \notin I
      BY <1>0, <2>1, <3>1, <3>3 DEF Righted
    <3>4. QED
      BY <3>2, <3>3
  <2>4. Settled(e, o)
    BY <1>0, <2>3, PathsAssumption DEF Settled
  <2>5. QED
    BY <2>4 DEF e
<1>4. CASE Go(a, s)
  <2>1. s.pc = "folderlook" /\ s.op = "sync" /\ s.pend = w /\ s.path = q
    BY <1>0 DEF Fields
  <2> HIDE DEF s, w, q
  <2>2. Progress(db, s, p)
    BY <1>0, <1>2, <1>3, <2>1 DEF Progress, Sees, OnTheWay, AtFolder
  <2>3. QED
    BY <1>1, <1>4, <2>2, Proceeds, SameIsUnbroken
<1>5. CASE ToCommit(a, t)
  <2>1. DOMAIN t = Fields /\ t.op = "sync" /\ t.pend = w
    BY <1>0 DEF Fields
  <2> HIDE DEF t, w
  <2>2. QED
    BY <1>0, <1>1, <1>2, <1>3, <1>5, <2>1, Commits, SameIsUnbroken
<1>6. QED
  BY <1>1, <1>4, <1>5

LEMMA FileIsThere ==
  ASSUME RowsInv, SessionsInv, DiskInv, Sound(db), NEW r, RootRow(db, r),
         NEW a \in Threads, NEW p, act[a].op = "sync", Progress(db, act[a], p), SyncFileHave(a)
  PROVE  Moves(a, p)
<1> DEFINE o == act[a].path
           I == ImagesAt(db, o)
           i == TheImage(db, o)
           F == DeletedRun(db, db.images[i].folder)
           w == {SetImage(i, "status", "active")} \cup Undelete(F)
           s == [act[a] EXCEPT !.pc = "chain"]
           t == [act[a] EXCEPT !.pend = w]
           c == [act[a] EXCEPT !.pc = "commit", !.pend = w]
<1>0. DOMAIN act[a] = Fields /\ act[a].pc = "have" /\ o \in FilePaths /\ act[a].pend = {}
      /\ o \in DOMAIN files /\ (WellFiled(db) => o = p) /\ RowsOK(db) /\ Keyed(db)
  BY SoundIsKeyed DEF SessionsInv, Shape, SyncFileHave, Progress, Sees, OnTheWay, AtFile, RowsInv
<1>1. UNCHANGED disk /\ db' = db
  BY DEF SyncFileHave, disk
<1>2. I # {} => /\ i \in DOMAIN db.images /\ db.images[i].src = o
                /\ db.images[i].folder \in DOMAIN db.folders
                /\ db.images[i].status \in Statuses
  BY <1>0, ImageFound DEF ImagesAt, Keyed, RowsOK, Image, Statuses
<1>3. \/ I = {} /\ Go(a, s)
      \/ I # {} /\ db.images[i].status = "active" /\ End(a)
      \/ /\ I # {} /\ \A f \in F : db.folders[f].path \in dirs
         /\ Go(a, c)
      \/ /\ I # {} /\ \E f \in F : db.folders[f].path \notin dirs
         /\ End(a)
  BY <1>0 DEF SyncFileHave, Goto
<1>4. CASE I = {} /\ Go(a, s)
  <2>1. s.pc = "chain" /\ s.op = "sync" /\ s.pend = {} /\ s.path = o
    BY <1>0 DEF Fields
  <2> HIDE DEF s
  <2>2. Progress(db, s, p)
    BY <1>0, <1>4, <2>1 DEF Progress, Sees, OnTheWay, AtFolder
  <2>3. QED
    BY <1>1, <1>4, <2>2, Proceeds, SameIsUnbroken
<1>5. CASE I # {} /\ db.images[i].status = "active" /\ End(a)
  <2>1. Settled(db, o)
    BY <1>0, <1>2, <1>5, PathsAssumption DEF Settled, ImagesAt
  <2>2. QED
    BY <1>0, <1>1, <1>5, <2>1, Rests, SameIsUnbroken
<1>6. CASE I # {} /\ (\A f \in F : db.folders[f].path \in dirs) /\ Go(a, c)
  <2>1. F \subseteq DOMAIN db.folders
    BY <1>0, <1>2, <1>6, RunIsDeleted
  <2> HIDE DEF F, i
  <2>2. \A u \in w : RightChange(db, u)
    BY <1>0, <1>2, <1>6, <2>1 DEF RightChange, Undelete, Statuses
  <2> DEFINE e == Apply(db, w)
  <2>3. /\ Righted(db, e)
        /\ \A k \in DOMAIN db.images : \A v \in Statuses : SetImage(k, "status", v) \in w =>
                e.images[k].status = v
    BY <1>0, <2>2, RightingChanges
  <2>4. e.images[i].status = "active" /\ i \in ImagesAt(e, o)
    BY <1>2, <1>6, <2>3 DEF Statuses, Righted, SameRecords, ImagesAt
  <2>5. Settled(e, o)
    BY <1>0, <2>4, PathsAssumption DEF Settled
  <2>6. DOMAIN t = Fields /\ t.op = "sync" /\ t.pend = w /\ c = [t EXCEPT !.pc = "commit"]
    BY <1>0 DEF Fields
  <2> HIDE DEF w
  <2>7. WellFiled(db) => Settled(Apply(db, t.pend), p)
    BY <1>0, <2>5, <2>6
  <2> HIDE DEF t, c, e
  <2>8. QED
    BY <1>1, <1>6, <2>2, <2>6, <2>7, Commits, SameIsUnbroken
<1>7. CASE I # {} /\ (\E f \in F : db.folders[f].path \notin dirs) /\ End(a)
  <2>1. ASSUME WellFiled(db) PROVE FALSE
    <3>1. PICK f \in F : db.folders[f].path \notin dirs
      BY <1>7
    <3> DEFINE h == db.images[i].folder
    <3>2. h \in DOMAIN db.folders /\ db.folders[h].path = ParentOf(o)
      BY <1>2, <1>7, <2>1 DEF WellFiled
    <3> HIDE DEF h
    <3>3. f \in DeletedRun(db, h)
      BY <3>1 DEF h
    <3>4. f \in DOMAIN db.folders /\ IsPrefix(db.folders[f].path, ParentOf(o))
      BY <1>0, <2>1, <3>2, <3>3, RunIsAbove
    <3>5. ParentOf(o) \in dirs /\ db.folders[f].path \in FolderPaths
      BY <1>0, <3>4, ParentsAreThere DEF RowsOK, Folder
    <3>6. QED
      BY <3>1, <3>4, <3>5, AboveOnDisk
  <2>2. QED
    BY <1>1, <1>7, <2>1, Rests, SameIsUnbroken
<1>8. QED
  BY <1>3, <1>4, <1>5, <1>6, <1>7

\* get_or_create_folder for a folder on disk keeps what is settled.
LEMMA FoldersUnbroken ==
  ASSUME RowsInv, DiskInv, Sound(db), NEW d, RowsOK(d), Keyed(d), Righted(db, d),
         \A i \in DOMAIN d.folders : i < next.folder,
         NEW q \in FolderPaths, q \in dirs, HaveFolderIds(d, q)
  PROVE  /\ Unbroken(WithFolders(d, q)) /\ WithFolders(d, q).images = d.images
         /\ Extended(d, WithFolders(d, q), MissingFolders(d, q))
<1> DEFINE e == WithFolders(d, q)
           M == MissingFolders(d, q)
<1>1. Extended(d, e, M)
  BY WithFoldersExtends DEF RowsInv
<1>2. M \subseteq dirs
  BY AboveOnDisk DEF MissingFolders
<1>3. Keyed(db)
  BY SoundIsKeyed DEF RowsInv
<1> HIDE DEF e, M
<1>4. WellFiled(e) => WellFiled(db)
  BY <1>1, <1>3, ExtendedIsFiled, SameRecordsFiled DEF Righted
<1>5. \A p : Settled(db, p) => Settled(e, p)
  BY <1>1, <1>2, ExtendedIsSettled, RightedIsSettled
<1>6. e.images = d.images
  BY <1>1 DEF Extended
<1>7. QED
  BY <1>1, <1>4, <1>5, <1>6 DEF Unbroken, e, M

LEMMA ChainIsMade ==
  ASSUME RowsInv, SessionsInv, DiskInv, Sound(db), NEW a \in Threads, NEW p,
         act[a].op = "sync", Progress(db, act[a], p), CreateFolders(a)
  PROVE  Moves(a, p)
<1> DEFINE o == act[a].path
           q == ParentOf(o)
           e == WithFolders(db, q)
           f == TheFolder(e, q)
           s == [act[a] EXCEPT !.pc = "insert", !.fid = f]
<1>0. DOMAIN act[a] = Fields /\ act[a].pc = "chain" /\ o \in FilePaths /\ act[a].pend = {}
      /\ o \in DOMAIN files /\ (WellFiled(db) => o = p /\ ImagesAt(db, p) = {})
      /\ RowsOK(db) /\ Keyed(db)
  BY SoundIsKeyed DEF SessionsInv, Shape, CreateFolders, Progress, Sees, OnTheWay, AtFile, RowsInv
<1>1. UNCHANGED disk /\ db' = e /\ Go(a, s) /\ HaveFolderIds(db, q)
  BY DEF CreateFolders, disk
<1>2. q \in FolderPaths /\ q \in dirs
  BY <1>0, PathFacts, ParentsAreThere DEF Paths
<1>3. Righted(db, db) /\ \A i \in DOMAIN db.folders : i < next.folder
  BY DEF Righted, SameRecords, RowsInv
<1> HIDE DEF o, q
<1>4. Unbroken(e) /\ e.images = db.images /\ Extended(db, e, MissingFolders(db, q))
  BY <1>0, <1>1, <1>2, <1>3, FoldersUnbroken
<1> HIDE DEF e
<1>5. f \in DOMAIN e.folders
  <2>1. FoldersAt(e, q) # {}
    <3>1. CASE FoldersAt(db, q) = {}
      <4>1. q \in MissingFolders(db, q)
        BY <1>2, <3>1, PathFacts, PrefixSelf DEF MissingFolders
      <4>2. QED
        BY <1>4, <4>1 DEF Extended, FoldersAt
    <3>2. CASE FoldersAt(db, q) # {}
      BY <1>4, <3>2 DEF Extended, FoldersAt
    <3>3. QED
      BY <3>1, <3>2
  <2>2. QED
    BY <2>1, FolderFound
<1> HIDE DEF f
<1>6. s.pc = "insert" /\ s.op = "sync" /\ s.pend = {} /\ s.path = o /\ s.fid = f
  BY <1>0 DEF Fields, o
<1> HIDE DEF s
<1>7. ImagesAt(e, p) = ImagesAt(db, p)
  BY <1>4 DEF ImagesAt
<1>8. Progress(e, s, p)
  BY <1>0, <1>4, <1>5, <1>6, <1>7 DEF Progress, Sees, OnTheWay, AtFolder, Unbroken
<1>9. QED
  BY <1>1, <1>4, <1>8, Proceeds

LEMMA ImageIsInserted ==
  ASSUME RowsInv, SessionsInv, DiskInv, Sound(db), NEW a \in Threads, NEW p,
         act[a].op = "sync", Progress(db, act[a], p), InsertImage(a)
  PROVE  Moves(a, p)
<1> DEFINE o   == act[a].path
           new == [src |-> o, folder |-> act[a].fid, status |-> "active"]
           i   == next.image
           e   == [db EXCEPT !.images = [k \in DOMAIN db.images \cup {i} |->
                       IF k = i THEN new ELSE db.images[k]]]
           s   == [act[a] EXCEPT !.pc = "have", !.again = TRUE]
<1>0. DOMAIN act[a] = Fields /\ act[a].pc = "insert" /\ o \in FilePaths /\ act[a].pend = {}
      /\ o \in DOMAIN files
      /\ (WellFiled(db) => o = p /\ ImagesAt(db, p) = {} /\ act[a].fid \in DOMAIN db.folders)
      /\ RowsOK(db) /\ Keyed(db) /\ i \in Nat /\ i \notin DOMAIN db.images
  BY SoundIsKeyed DEF SessionsInv, Shape, InsertImage, Progress, Sees, OnTheWay, AtFile, RowsInv
<1>1. /\ UNCHANGED disk
      /\ \/ Sound(e) /\ db' = e /\ End(a)
         \/ ~Sound(e) /\ db' = db /\ (Go(a, s) \/ End(a))
  BY <1>0 DEF InsertImage, disk
<1>2. new.src = o /\ new.folder = act[a].fid /\ new.status = "active"
  OBVIOUS
<1> HIDE DEF new
<1>3. /\ e.folders = db.folders /\ DOMAIN e.images = DOMAIN db.images \cup {i}
      /\ e.images[i] = new /\ \A k \in DOMAIN db.images : e.images[k] = db.images[k]
  BY <1>0 DEF RowsOK
<1> HIDE DEF e, i
<1>4. ASSUME WellFiled(db) PROVE Sound(e)
  <2>1. \A x, y \in DOMAIN e.images : e.images[x].src = e.images[y].src => x = y
    <3>1. \A k \in DOMAIN db.images : db.images[k].src # o
      BY <1>0, <1>4 DEF ImagesAt
    <3>2. QED
      BY <1>0, <1>2, <1>3, <3>1 DEF Keyed
  <2>2. IsFiniteSet(DOMAIN e.images)
    BY <1>0, <1>3, RowsAreFinite, FS_AddElement
  <2>3. ASSUME NEW q PROVE Cardinality(ImagesAt(e, q)) <= 1
    <3>1. IsFiniteSet(ImagesAt(e, q))
      BY <2>2, FS_Subset DEF ImagesAt
    <3>2. \A x, y \in ImagesAt(e, q) : x = y
      BY <2>1 DEF ImagesAt
    <3>3. QED
      BY <3>1, <3>2, AtMostOne
  <2>4. \A q : FoldersAt(e, q) = FoldersAt(db, q)
    BY <1>3 DEF FoldersAt
  <2>5. \A k \in DOMAIN e.images : e.images[k].folder \in DOMAIN e.folders
    BY <1>0, <1>2, <1>3, <1>4 DEF Keyed
  <2>6. QED
    BY <1>3, <2>3, <2>4, <2>5 DEF Sound
<1>5. WellFiled(e) => WellFiled(db)
  BY <1>0, <1>3 DEF WellFiled
<1>6. ASSUME NEW q, Settled(db, q) PROVE Settled(e, q)
  <2>1. FoldersAt(e, q) = FoldersAt(db, q)
    BY <1>3 DEF FoldersAt
  <2>2. \A k \in ImagesAt(db, q) : k \in ImagesAt(e, q) /\ e.images[k] = db.images[k]
    BY <1>3 DEF ImagesAt
  <2>3. \A k \in ImagesAt(e, q) : k \in ImagesAt(db, q) \/ q \in DOMAIN files
    BY <1>0, <1>2, <1>3 DEF ImagesAt
  <2>4. QED
    BY <1>3, <1>6, <2>1, <2>2, <2>3 DEF Settled
<1>7. Settled(e, o)
  <2>1. i \in ImagesAt(e, o) /\ e.images[i].status = "active"
    BY <1>2, <1>3 DEF ImagesAt
  <2>2. QED
    BY <1>0, <2>1, PathsAssumption DEF Settled
<1>8. CASE Sound(e) /\ db' = e /\ End(a)
  <2>1. Unbroken(e)
    BY <1>5, <1>6 DEF Unbroken
  <2>2. WellFiled(e) => Settled(e, p)
    BY <1>0, <1>5, <1>7
  <2>3. QED
    BY <1>1, <1>8, <2>1, <2>2, Rests
<1>9. CASE ~Sound(e) /\ db' = db /\ Go(a, s)
  <2>1. s.pc = "have" /\ s.op = "sync" /\ s.pend = {} /\ s.path = o
    BY <1>0 DEF Fields
  <2> HIDE DEF s
  <2>2. Progress(db, s, p)
    BY <1>0, <1>4, <1>9, <2>1 DEF Progress, Sees
  <2>3. QED
    BY <1>1, <1>9, <2>2, Proceeds, SameIsUnbroken
<1>10. CASE ~Sound(e) /\ db' = db /\ End(a)
  <2>1. ~WellFiled(db)
    BY <1>4, <1>10
  <2>2. QED
    BY <1>1, <1>10, <2>1, Rests, SameIsUnbroken
<1>11. QED
  BY <1>1, <1>8, <1>9, <1>10

\* What the session of a visit sees.
LEMMA VisitsView ==
  ASSUME RowsInv, SessionsInv, Sound(db), NEW r, RootRow(db, r), NEW a \in Threads, Leaves(act[a].pend, r),
         \A u \in act[a].pend : RightChange(db, u)
  PROVE  /\ RowsOK(View(a)) /\ Keyed(View(a)) /\ Righted(db, View(a))
         /\ WellFiled(View(a)) <=> WellFiled(db)
         /\ RootRow(View(a), r) /\ CanCommit(act[a].pend)
         /\ \A i \in DOMAIN View(a).folders : i < next.folder
         /\ Unbroken(View(a))
<1>1. RowsOK(db) /\ Keyed(db)
  BY SoundIsKeyed DEF RowsInv
<1>2. RowsOK(View(a)) /\ Righted(db, View(a))
  BY <1>1, RightingChanges DEF View
<1>3. Keyed(View(a)) /\ (WellFiled(View(a)) <=> WellFiled(db))
  BY <1>1, <1>2, RightedIsKeyed, SameRecordsFiled DEF Righted
<1>4. RootRow(View(a), r) /\ CanCommit(act[a].pend)
  BY <1>1, ViewOfRoot, RightCanCommit DEF View
<1>5. \A i \in DOMAIN View(a).folders : i < next.folder
  BY ViewType
<1>6. Unbroken(View(a))
  BY <1>2, <1>3, RightedIsSettled DEF Unbroken
<1>7. QED
  BY <1>2, <1>3, <1>4, <1>5, <1>6

LEMMA VisitCommits ==
  ASSUME RowsInv, SessionsInv, Sound(db), NEW r, RootRow(db, r), NEW a \in Threads, Leaves(act[a].pend, r),
         NEW p, act[a].op = "sync", Progress(db, act[a], p), Commit(a),
         ~Fault
  PROVE  Moves(a, p)
<1>1. act[a].pc = "commit" /\ \A u \in act[a].pend : RightChange(db, u)
  BY DEF Commit, Progress
<1>2. CanCommit(act[a].pend) /\ Unbroken(View(a)) /\ (WellFiled(View(a)) <=> WellFiled(db))
  BY <1>1, VisitsView
<1>3. db' = View(a) /\ End(a) /\ UNCHANGED disk
  BY <1>2 DEF Commit, disk
<1>4. WellFiled(View(a)) => Settled(View(a), p)
  BY <1>1, <1>2 DEF Progress, OnTheWay, View
<1> DEFINE v == View(a)
<1> HIDE DEF v
<1>5. db' = v /\ Unbroken(v) /\ (WellFiled(v) => Settled(v, p))
  BY <1>2, <1>3, <1>4 DEF v
<1>6. QED
  BY <1>3, <1>5, Rests

LEMMA FolderIsGone ==
  ASSUME RowsInv, SessionsInv, DiskInv, Sound(db), NEW a \in Threads,
         NEW p \in Paths, act[a].op = "sync", Progress(db, act[a], p), FolderGone(a)
  PROVE  Moves(a, p)
<1> DEFINE q == act[a].path
           v == View(a)
           F == {f \in FoldersAt(v, q) : v.folders[f].status = "active"}
           x == {SetFolder(f, "status", "deleted") : f \in F}
           w == act[a].pend \cup x
           t == [act[a] EXCEPT !.pend = w]
           c == [act[a] EXCEPT !.pc = "commit", !.pend = w]
<1>0. /\ DOMAIN act[a] = Fields /\ act[a].pc = "foldergone" /\ q \in FolderPaths
      /\ q \notin dirs /\ RowsOK(db)
      /\ (WellFiled(db) => \/ q = p /\ act[a].pend = {}
                           \/ p \in FilePaths /\ Settled(Apply(db, act[a].pend), p))
      /\ \A u \in act[a].pend : RightChange(db, u)
  BY DEF SessionsInv, Shape, FolderGone, Progress, Sees, OnTheWay, AtFolder, RowsInv
<1>1. UNCHANGED disk /\ db' = db /\ (IF w = {} THEN End(a) ELSE Go(a, c))
  BY DEF FolderGone, disk
<1>2. Righted(db, v)
  BY <1>0, RightingChanges DEF View
<1>3. \A f \in F : f \in DOMAIN db.folders /\ db.folders[f].path = q
  BY <1>2 DEF Righted, SameRecords, FoldersAt
<1>4. \A u \in x : RightChange(db, u) /\ u[1] = "f"
  <2> HIDE DEF F
  <2>1. QED
    BY <1>0, <1>3, ChangeFacts DEF RightChange, Statuses
<1>5. \A u \in w : RightChange(db, u)
  BY <1>0, <1>4
<1>6. WellFiled(db) => Settled(Apply(db, w), p)
  <2> DEFINE e == Apply(db, w)
  <2>1. CASE q = p /\ act[a].pend = {}
    <3>0. v = Apply(db, {})
      BY <2>1 DEF View
    <3>1. /\ Righted(db, e)
          /\ \A i \in DOMAIN db.folders : \A k \in Statuses : SetFolder(i, "status", k) \in w =>
                e.folders[i].status = k
      BY <1>0, <1>5, RightingChanges
    <3>2. \A f \in F : SetFolder(f, "status", "deleted") \in w
      OBVIOUS
    <3> HIDE DEF e
    <3>3. \A i \in DOMAIN db.folders : v.folders[i].status = db.folders[i].status
      <4>1. DOMAIN v.folders = DOMAIN db.folders
        BY <1>2 DEF Righted, SameRecords
      <4> HIDE DEF v
      <4>2. \A i \in DOMAIN v.folders :
                v.folders[i].status = Field({}, "f", i, "status", db.folders[i].status)
        BY <3>0, ApplyIs
      <4>3. \A i, old : Field({}, "f", i, "status", old) = old
        BY FieldIs
      <4>4. QED
        BY <4>1, <4>2, <4>3
    <3>4. ASSUME NEW i \in FoldersAt(e, p) PROVE e.folders[i].status # "active"
      <4>1. i \in DOMAIN db.folders /\ db.folders[i].path = q /\ i \in FoldersAt(v, q)
        BY <1>2, <2>1, <3>1 DEF FoldersAt, Righted, SameRecords
      <4>2. CASE i \in F
        BY <3>1, <3>2, <4>1, <4>2 DEF Statuses
      <4>3. CASE i \notin F
        BY <1>0, <3>1, <3>3, <4>1, <4>3 DEF Righted
      <4>4. QED
        BY <4>2, <4>3
    <3>5. Settled(e, p)
      BY <1>0, <2>1, <3>4, PathsAssumption DEF Settled
    <3>6. QED
      BY <3>5 DEF e
  <2>2. CASE p \in FilePaths /\ Settled(Apply(db, act[a].pend), p)
    <3> DEFINE y == act[a].pend
    <3> HIDE DEF x, y
    <3>0. \A u \in x : u[1] = "f"
      BY <1>4
    <3>1. Apply(db, y \cup x).images = Apply(db, y).images
      BY <3>0, FolderChanges
    <3>2. e.images = Apply(db, act[a].pend).images
      BY <3>1 DEF y
    <3> HIDE DEF e
    <3>3. Settled(e, p)
      BY <2>2, <3>2, ImagesSettle
    <3>4. QED
      BY <3>3 DEF e
  <2>3. QED
    BY <1>0, <2>1, <2>2
<1>7. DOMAIN t = Fields /\ t.op = "sync" /\ t.pend = w /\ c = [t EXCEPT !.pc = "commit"]
  BY <1>0 DEF Fields
<1>8. CASE w = {} /\ End(a)
  <2>1. WellFiled(db) => Settled(db, p)
    BY <1>6, <1>8, NoChanges
  <2>2. QED
    BY <1>1, <1>8, <2>1, Rests, SameIsUnbroken
<1> HIDE DEF w, t, c
<1>9. CASE Go(a, c)
  BY <1>1, <1>5, <1>6, <1>7, <1>9, Commits, SameIsUnbroken
<1>10. QED
  BY <1>1, <1>8, <1>9

LEMMA FolderIsThere ==
  ASSUME RowsInv, SessionsInv, DiskInv, Sound(db), NEW r, RootRow(db, r), NEW a \in Threads,
         Leaves(act[a].pend, r), NEW p \in Paths, act[a].op = "sync", Progress(db, act[a], p),
         FolderHave(a)
  PROVE  Moves(a, p)
<1> DEFINE q  == act[a].path
           v  == View(a)
           M  == MissingFolders(v, q)
           f  == TheFolder(v, q)
           F  == DeletedRun(v, f)
           e  == WithFolders(v, q)
           x  == Undelete(F)
           w  == act[a].pend \cup x
           s  == [act[a] EXCEPT !.pend = {}, !.fid = TheFolder(e, q)]
           t  == [act[a] EXCEPT !.fid = f, !.pend = w]
<1>0. /\ DOMAIN act[a] = Fields /\ act[a].pc = "folderhave" /\ q \in FolderPaths
      /\ q \in dirs /\ RowsOK(db) /\ Keyed(db)
      /\ (WellFiled(db) => \/ q = p /\ act[a].pend = {}
                           \/ p \in FilePaths /\ Settled(Apply(db, act[a].pend), p))
      /\ \A u \in act[a].pend : RightChange(db, u)
  BY SoundIsKeyed DEF SessionsInv, Shape, FolderHave, Progress, Sees, OnTheWay, AtFolder, RowsInv
<1>1. /\ RowsOK(v) /\ Keyed(v) /\ Righted(db, v) /\ (WellFiled(v) <=> WellFiled(db))
      /\ RootRow(v, r) /\ CanCommit(act[a].pend) /\ Unbroken(v)
      /\ \A i \in DOMAIN v.folders : i < next.folder
  BY <1>0, VisitsView
<1>2. s.op # "movefile" /\ t.op # "movefile"
  BY <1>0 DEF Fields
<1>3. /\ UNCHANGED disk
      /\ \/ M # {} /\ HaveFolderIds(v, q) /\ db' = e /\ ToCommit(a, s)
         \/ M = {} /\ (\A g \in F : v.folders[g].path \in dirs) /\ ToCommit(a, t) /\ db' = db
         \/ M # {} /\ ~(M \subseteq dirs /\ CanCommit(act[a].pend)) /\ End(a) /\ db' = db
         \/ M = {} /\ (\E g \in F : v.folders[g].path \notin dirs) /\ End(a) /\ db' = db
  BY <1>2 DEF FolderHave, disk
<1>4. CASE M # {} /\ HaveFolderIds(v, q) /\ db' = e /\ ToCommit(a, s)
  <2>1. Unbroken(e) /\ e.images = v.images /\ Extended(v, e, M)
    BY <1>0, <1>1, <1>4, FoldersUnbroken
  <2>2. s.pend = {}
    BY <1>0 DEF Fields
  <2>3. End(a)
    BY <1>4, <2>2 DEF ToCommit
  <2> HIDE DEF e
  <2>4. ASSUME WellFiled(e) PROVE Settled(e, p)
    <3>1. WellFiled(db) /\ WellFiled(v)
      BY <1>1, <2>1, <2>4 DEF Unbroken
    <3>2. CASE q = p
      <4>1. q \in M
        BY <1>0, <1>1, <1>4, <3>1, MissingWithItsParents
      <4>2. \E i \in FoldersAt(e, q) : e.folders[i].status = "active"
        BY <2>1, <4>1 DEF Extended, FoldersAt
      <4>3. QED
        BY <1>0, <3>2, <4>2, PathsAssumption DEF Settled
    <3>3. CASE p \in FilePaths /\ Settled(Apply(db, act[a].pend), p)
      <4>1. Settled(v, p)
        BY <3>3 DEF View
      <4> HIDE DEF v
      <4>2. QED
        BY <2>1, <3>3, <4>1, ImagesSettle
    <3>4. QED
      BY <1>0, <3>1, <3>2, <3>3
  <2>5. QED
    BY <1>3, <1>4, <2>1, <2>3, <2>4, Rests
<1>5. ASSUME M = {}, WellFiled(db), NEW g \in F PROVE v.folders[g].path \in dirs
  <2>1. f \in DOMAIN v.folders /\ v.folders[f].path = q
    <3>1. FoldersAt(v, q) # {}
      BY <1>0, <1>5, PathFacts, PrefixSelf DEF MissingFolders
    <3>2. QED
      BY <3>1, FolderFound
  <2> HIDE DEF f, v
  <2>2. g \in DOMAIN v.folders /\ IsPrefix(v.folders[g].path, q)
    BY <1>1, <1>5, <2>1, RunIsAbove
  <2>3. v.folders[g].path \in FolderPaths
    BY <1>1, <2>2 DEF RowsOK, Folder
  <2>4. QED
    BY <1>0, <2>2, <2>3, AboveOnDisk
<1>6. CASE M = {} /\ (\A g \in F : v.folders[g].path \in dirs) /\ ToCommit(a, t) /\ db' = db
  <2>1. f \in DOMAIN v.folders /\ v.folders[f].path = q
    <3>1. FoldersAt(v, q) # {}
      BY <1>0, <1>6, PathFacts, PrefixSelf DEF MissingFolders
    <3>2. QED
      BY <3>1, FolderFound
  <2>2. /\ F \subseteq {j \in DOMAIN v.folders : v.folders[j].status = "deleted"}
        /\ v.folders[f].status = "deleted" => f \in F
    <3> HIDE DEF f, v
    <3>1. QED
      BY <1>1, <2>1, RunIsDeleted
  <2>3. DOMAIN v.folders = DOMAIN db.folders
        /\ \A i \in DOMAIN db.folders : v.folders[i].path = db.folders[i].path
    BY <1>1 DEF Righted, SameRecords
  <2>4. \A u \in x : RightChange(db, u) /\ u[1] = "f"
    <3> HIDE DEF F
    <3>1. QED
      BY <1>6, <2>2, <2>3, ChangeFacts DEF RightChange, Statuses, Undelete
  <2>5. \A u \in w : RightChange(db, u)
    BY <1>0, <2>4
  <2>6. WellFiled(db) => Settled(Apply(db, w), p)
    <3> DEFINE d == Apply(db, w)
    <3>1. CASE q = p /\ act[a].pend = {}
      <4>1. /\ Righted(db, d)
            /\ \A i \in DOMAIN db.folders : \A k \in Statuses : SetFolder(i, "status", k) \in w =>
                  d.folders[i].status = k
        BY <1>0, <2>5, RightingChanges
      <4>2. f \in F => SetFolder(f, "status", "active") \in w
        BY DEF Undelete
      <4>3. f \in DOMAIN db.folders /\ v.folders[f].status = db.folders[f].status
        <5>1. v = Apply(db, {})
          BY <3>1 DEF View
        <5> HIDE DEF v
        <5>2. v.folders[f].status = Field({}, "f", f, "status", db.folders[f].status)
          BY <2>1, <5>1, ApplyIs
        <5>3. QED
          BY <2>1, <2>3, <5>2, FieldIs
      <4>4. v.folders[f].status \in Statuses
        BY <1>1, <2>1 DEF RowsOK, Folder, Statuses
      <4> HIDE DEF d, f
      <4>5. d.folders[f].status = "active"
        <5>1. CASE f \in F
          BY <4>1, <4>2, <4>3, <5>1 DEF Statuses
        <5>2. CASE f \notin F
          BY <1>0, <2>1, <2>2, <2>3, <4>1, <4>3, <4>4, <5>2 DEF Statuses, Righted
        <5>3. QED
          BY <5>1, <5>2
      <4>6. f \in FoldersAt(d, p)
        BY <2>1, <2>3, <3>1, <4>1, <4>3 DEF FoldersAt, Righted, SameRecords
      <4>7. Settled(d, p)
        BY <1>0, <3>1, <4>5, <4>6, PathsAssumption DEF Settled
      <4>8. QED
        BY <4>7 DEF d
    <3>2. CASE p \in FilePaths /\ Settled(Apply(db, act[a].pend), p)
      <4> DEFINE y == act[a].pend
      <4> HIDE DEF x, y
      <4>0. \A u \in x : u[1] = "f"
        BY <2>4
      <4>1. Apply(db, y \cup x).images = Apply(db, y).images
        BY <4>0, FolderChanges
      <4>2. d.images = Apply(db, act[a].pend).images
        BY <4>1 DEF y
      <4> HIDE DEF d
      <4>3. Settled(d, p)
        BY <3>2, <4>2, ImagesSettle
      <4>4. QED
        BY <4>3 DEF d
    <3>3. QED
      BY <1>0, <3>1, <3>2
  <2>7. DOMAIN t = Fields /\ t.op = "sync" /\ t.pend = w
    BY <1>0 DEF Fields
  <2> HIDE DEF w, t
  <2>8. QED
    BY <1>3, <1>6, <2>5, <2>6, <2>7, Commits, SameIsUnbroken
<1>7. CASE M # {} /\ ~(M \subseteq dirs /\ CanCommit(act[a].pend)) /\ End(a) /\ db' = db
  <2>1. M \subseteq dirs
    BY <1>0, AboveOnDisk DEF MissingFolders
  <2>2. QED
    BY <1>1, <1>7, <2>1
<1>8. CASE M = {} /\ (\E g \in F : v.folders[g].path \notin dirs) /\ End(a) /\ db' = db
  <2>1. ~WellFiled(db)
    BY <1>5, <1>8
  <2>2. QED
    BY <1>3, <1>8, <2>1, Rests, SameIsUnbroken
<1>9. QED
  BY <1>3, <1>4, <1>6, <1>7, <1>8

-----------------------------------------------------------------------------
(* A round of visits as a whole, and the records after it. *)

BudgetInv == budget \in [ops : Nat, outside : Nat, faults : Nat]

LEMMA BudgetChanges ==
  ASSUME [Next]_vars
  PROVE  \/ budget' = budget
         \/ budget' = [budget EXCEPT !.ops = @ + 1]
         \/ budget' = [budget EXCEPT !.outside = @ + 1]
         \/ budget' = [budget EXCEPT !.faults = @ + 1]
<1>1. ASSUME NEW a \in Threads, Step(a)
      PROVE  budget' = budget \/ budget' = [budget EXCEPT !.faults = @ + 1]
  <2>1. CASE \/ SyncFileLook(a) \/ SyncFileGone(a) \/ SyncFileHave(a)
             \/ CreateFolders(a) \/ InsertImage(a) \/ PutId(a)
             \/ FolderLook(a) \/ FolderGone(a) \/ FolderHave(a) \/ DataDelete(a)
    BY <2>1 DEF SyncFileLook, SyncFileGone, SyncFileHave, CreateFolders, InsertImage, PutId,
       FolderLook, FolderGone, FolderHave, DataDelete
  <2>2. CASE \/ Commit(a) \/ MoveFileCheck(a) \/ MoveFileDisk(a) \/ MoveFileRecord(a)
             \/ MoveFileCommit(a) \/ MoveFileBack(a)
    BY <2>2 DEF Commit, MoveFileCheck, MoveFileDisk, MoveFileRecord, MoveFileCommit,
       MoveFileBack, Fault
  <2>3. CASE \/ DeleteFileDisk(a) \/ DeleteFileRecord(a) \/ UploadWrite(a)
             \/ MoveFolderDisk(a) \/ MoveFolderRecord(a)
             \/ DeleteFolderDisk(a) \/ DeleteFolderRecord(a)
    BY <2>3 DEF DeleteFileDisk, DeleteFileRecord, UploadWrite, MoveFolderDisk,
       MoveFolderRecord, DeleteFolderDisk, DeleteFolderRecord
  <2>4. QED
    BY <1>1, <2>1, <2>2, <2>3 DEF Step
<1>2. ASSUME NEW a \in Threads, Start(a) PROVE budget' = [budget EXCEPT !.ops = @ + 1]
  BY <1>2 DEF Start, Lookup, MoveFile, DeleteFile, Upload, CreateFolder, MoveFolder,
     DeleteFolder, Purge, Counted
<1>3. ASSUME NEW a \in Threads, (\E p : Visit(a, p)) \/ (\E f : DeleteData(a, f))
      PROVE  budget' = budget
  BY <1>3 DEF Visit, DeleteData
<1>4. CASE Outside
  BY <1>4 DEF Outside
<1>5. CASE Refuse \/ UNCHANGED vars
  BY <1>5 DEF Refuse, vars
<1>6. QED
  BY <1>1, <1>2, <1>3, <1>4, <1>5 DEF Next

LEMMA BudgetStep ==
  ASSUME BudgetInv, [Next]_vars
  PROVE  BudgetInv'
<1>1. /\ budget.ops \in Nat /\ budget.outside \in Nat /\ budget.faults \in Nat
      /\ budget = [ops |-> budget.ops, outside |-> budget.outside, faults |-> budget.faults]
  BY DEF BudgetInv
<1>2. QED
  BY <1>1, BudgetChanges DEF BudgetInv

\* While nothing but a round of visits goes on: the paths that were visited are
\* settled, and the visit that is under way will leave its path so.
RoundInv == round > 0 =>
    /\ \A a \in Threads : act[a].pc # "idle" => Alone(a) /\ Progress(db, act[a], Walk[round])
    /\ WellFiled(db) => /\ \A n \in 1..(round - 1) : Settled(db, Walk[n])
                        /\ Quiet => Settled(db, Walk[round])

LEMMA SameDisk ==
  ASSUME UNCHANGED disk, NEW e, db' = e
  PROVE  /\ \A s, p : Progress(e, s, p) => Progress(db, s, p)'
         /\ WellFiled(db)' => WellFiled(e)
         /\ \A p : Settled(e, p) => Settled(db, p)'
<1>1. dirs' = dirs /\ files' = files
  BY DEF disk
<1>2. \A d, p : Settled(d, p) <=> Settled(d, p)'
  BY <1>1 DEF Settled
<1>3. \A u : RightChange(e, u) => RightChange(db, u)'
  BY <1>1 DEF RightChange
<1>4. \A s : Sees(s) => Sees(s)'
  BY <1>1 DEF Sees
<1>5. \A s, p : OnTheWay(e, s, p) => OnTheWay(db, s, p)'
  BY <1>2 DEF OnTheWay
<1>6. WellFiled(db)' <=> WellFiled(e)
  BY DEF WellFiled
<1>7. \A p : Settled(e, p) => Settled(db, p)'
  BY <1>2 DEF Settled
<1>8. \A s, p : Progress(e, s, p) => Progress(db, s, p)'
  BY <1>3, <1>4, <1>5, <1>6, <1>7 DEF Progress
<1>9. QED
  BY <1>6, <1>7, <1>8

\* A step of the visit.
LEMMA Onward ==
  ASSUME SessionsInv, RoundInv, round \in 1..Len(Walk), round' = round, NEW a \in Threads,
         act[a].pc # "idle", Moves(a, Walk[round])
  PROVE  RoundInv'
<1> DEFINE p == Walk[round]
<1>1. PICK e, s : /\ db' = e /\ act' = [act EXCEPT ![a] = s] /\ UNCHANGED disk
                  /\ Progress(e, s, p) /\ Unbroken(e)
  BY DEF Moves
<1>2. Alone(a) /\ act'[a] = s /\ DOMAIN act' = Threads
      /\ \A b \in Threads \ {a} : act'[b].pc = "idle"
  BY <1>1 DEF RoundInv, Alone, SessionsInv
<1>3. Progress(db, s, p)' /\ (WellFiled(db)' => WellFiled(e))
      /\ \A q : Settled(e, q) => Settled(db, q)'
  BY <1>1, SameDisk
<1>4. ASSUME NEW b \in Threads, act'[b].pc # "idle"
      PROVE  Alone(b)' /\ Progress(db, act[b], Walk[round])'
  <2>1. b = a
    BY <1>2, <1>4
  <2>2. Alone(a)'
    BY <1>2 DEF Alone
  <2>3. Progress(db, act[a], Walk[round])'
    BY <1>2, <1>3
  <2>4. QED
    BY <2>1, <2>2, <2>3
<1>5. ASSUME WellFiled(db)'
      PROVE  /\ \A n \in 1..(round' - 1) : Settled(db, Walk[n])'
             /\ Quiet' => Settled(db, Walk[round])'
  <2>1. WellFiled(e) /\ WellFiled(db)
    BY <1>1, <1>3, <1>5 DEF Unbroken
  <2>2. \A n \in 1..(round - 1) : Settled(db, Walk[n])
    BY <2>1 DEF RoundInv
  <2>3. \A n \in 1..(round - 1) : Settled(db, Walk[n])'
    BY <1>1, <1>3, <2>1, <2>2 DEF Unbroken
  <2>4. ASSUME Quiet' PROVE Settled(db, p)'
    <3>1. s.pc = "idle"
      BY <1>2, <2>4 DEF Quiet
    <3>2. Settled(e, p)
      BY <1>1, <2>1, <3>1 DEF Progress
    <3>3. QED
      BY <1>3, <3>2
  <2>5. QED
    BY <2>3, <2>4
<1>6. QED
  BY <1>4, <1>5 DEF RoundInv

\* The next visit of the round.
LEMMA NextVisit ==
  ASSUME SessionsInv, RootInv, RoundInv, round \in 0..Len(Walk), NEW a \in Threads,
         NEW p \in Paths \ {Root}, Visit(a, p), Alone(a), round < Len(Walk),
         Walk[round + 1] = p, round' = round + 1
  PROVE  RoundInv'
<1>0. round \in Nat /\ round' - 1 = round
  <2>1. Len(Walk) \in Nat
    BY PathsAssumption, LenProperties
  <2>2. QED
    BY <2>1
<1>1. act[a] = Idle
  BY DEF Visit, Free, RootInv, AllFit, Fit
<1>2. PICK s : s = Sync(a, p)
  OBVIOUS
<1>3. /\ act' = [act EXCEPT ![a] = s] /\ UNCHANGED disk /\ db' = db
      /\ s.op = "sync" /\ s.path = p /\ s.pend = {}
      /\ s.pc = IF p \in FilePaths THEN "look" ELSE "folderlook"
  BY <1>1, <1>2 DEF Visit, Go, Sync, Idle
<1>4. Progress(db, s, p)
  BY <1>3 DEF Progress, Sees, OnTheWay, AtFolder
<1>5. act'[a] = s /\ \A b \in Threads \ {a} : act'[b].pc = "idle"
  BY <1>3 DEF Alone, SessionsInv
<1>6. Progress(db, s, p)' /\ (WellFiled(db)' => WellFiled(db))
      /\ \A q : Settled(db, q) => Settled(db, q)'
  BY <1>3, <1>4, SameDisk
<1>7. s.pc # "idle"
  BY <1>3
<1>8. ASSUME NEW b \in Threads, act'[b].pc # "idle"
      PROVE  Alone(b)' /\ Progress(db, act[b], Walk[round])'
  <2>1. b = a
    BY <1>5, <1>8
  <2>2. Alone(a)'
    BY <1>5 DEF Alone
  <2>3. Progress(db, act[a], Walk[round])'
    <3>1. Progress(db, s, p)' /\ act'[a] = s /\ Walk[round'] = p
      BY <1>5, <1>6
    <3>2. QED
      BY <3>1
  <2>4. QED
    BY <2>1, <2>2, <2>3
<1>9. ~Quiet'
  BY <1>5, <1>7 DEF Quiet
<1>10. ASSUME WellFiled(db)', NEW n \in 1..round PROVE Settled(db, Walk[n])'
  <2>1. Quiet
    BY <1>1 DEF Alone, Quiet, Idle
  <2>2. Settled(db, Walk[n])
    <3>1. n \in 1..(round - 1) \/ n = round
      BY <1>0
    <3>2. round > 0
      BY <1>0
    <3>3. QED
      BY <1>6, <1>10, <2>1, <3>1, <3>2 DEF RoundInv
  <2>3. QED
    BY <1>6, <2>2
<1>11. QED
  BY <1>0, <1>8, <1>9, <1>10 DEF RoundInv

LEMMA RoundContinues ==
  ASSUME RowsInv, SessionsInv, DiskInv, Sound(db), RootInv, BudgetInv, RoundInv,
         round \in 0..Len(Walk), [Next]_vars
  PROVE  RoundInv'
<1>0. round \in Nat /\ Len(Walk) \in Nat
  BY PathsAssumption, LenProperties
<1>1. CASE round' = 0
  BY <1>1 DEF RoundInv
<1>2. ASSUME NEW a \in Threads, NEW p \in Paths \ {Root}, Visit(a, p),
             round' = IF Alone(a) /\ round < Len(Walk) /\ Walk[round + 1] = p
                      THEN round + 1 ELSE 0
      PROVE  RoundInv'
  BY <1>1, <1>2, NextVisit
<1>3. ASSUME NEW a \in Threads, Step(a),
             round' = IF Alone(a) /\ act[a].op = "sync" /\ budget' = budget THEN round ELSE 0
      PROVE  RoundInv'
  <2>1. SUFFICES ASSUME round > 0, round' = round, act[a].op = "sync", budget' = budget
                 PROVE  RoundInv'
    BY <1>0, <1>1, <1>3
  <2>2. PICK r \in FolderIds : RootRow(db, r) /\ AllFit(r)
    BY DEF RootInv
  <2>3. act[a].pc \in SyncPcs /\ Leaves(act[a].pend, r)
    BY <2>1, <2>2 DEF AllFit, Fit
  <2>4. act[a].pc # "idle"
    BY <2>3 DEF SyncPcs
  <2>5. round \in 1..Len(Walk) /\ Walk[round] \in Paths /\ Progress(db, act[a], Walk[round])
    <3>1. round \in 1..Len(Walk)
      BY <1>0, <2>1
    <3>2. Walk[round] \in Paths
      BY <3>1, PathsAssumption, ElementOfSeq DEF Paths
    <3>3. QED
      BY <2>1, <2>4, <3>1, <3>2 DEF RoundInv
  <2>6. ~Fault
    <3>1. budget.faults \in Nat /\ budget'.faults = budget.faults
      BY <2>1 DEF BudgetInv
    <3>2. Fault => budget'.faults = budget.faults + 1
      BY DEF Fault, BudgetInv
    <3>3. QED
      BY <3>1, <3>2
  <2>7. \/ SyncFileLook(a) \/ SyncFileGone(a) \/ SyncFileHave(a)
        \/ CreateFolders(a) \/ InsertImage(a)
        \/ FolderLook(a) \/ FolderGone(a) \/ FolderHave(a) \/ Commit(a)
    BY <1>3, <2>3 DEF Step, SyncPcs, PutId, DataDelete, MoveFileCheck, MoveFileDisk,
       MoveFileRecord, MoveFileCommit, MoveFileBack, DeleteFileDisk, DeleteFileRecord,
       UploadWrite, MoveFolderDisk, MoveFolderRecord, DeleteFolderDisk, DeleteFolderRecord
  <2>8. Moves(a, Walk[round])
    BY <2>1, <2>2, <2>3, <2>5, <2>6, <2>7, VisitLooks, FileIsGone, FileIsThere, ChainIsMade,
       ImageIsInserted, FolderIsGone, FolderIsThere, VisitCommits
  <2>9. QED
    BY <2>1, <2>4, <2>5, <2>8, Onward
<1>4. ASSUME UNCHANGED <<disk, db, act, round>> PROVE RoundInv'
  <2>1. /\ \A s, p : Progress(db, s, p) => Progress(db, s, p)'
        /\ WellFiled(db)' => WellFiled(db)
        /\ \A p : Settled(db, p) => Settled(db, p)'
    BY <1>4, SameDisk
  <2>2. round' = round /\ act' = act
    BY <1>4
  <2>3. QED
    BY <2>1, <2>2 DEF RoundInv, Alone, Quiet
<1>5. CASE Refuse /\ UNCHANGED round
  BY <1>4, <1>5 DEF Refuse, DataRefused
<1>6. CASE UNCHANGED vars
  BY <1>4, <1>6 DEF vars, disk
<1>7. QED
  BY <1>1, <1>2, <1>3, <1>5, <1>6 DEF Next, Paths

-----------------------------------------------------------------------------
(* The invariant of the records *)

RecordsInv == IInv /\ Sound(db) /\ RootInv /\ BudgetInv /\ RoundInv

LEMMA RecordsAtFirst ==
  ASSUME Init
  PROVE  RecordsInv
<1>1. PICK s \in Starts : db = s.db
  BY DEF Init
<1>2. Sound(db) /\ \E i \in DOMAIN db.folders :
          db.folders[i] = [path |-> Root, parent |-> NoId, status |-> "active"]
  BY <1>1, StartsAssumption
<1>3. PICK r \in DOMAIN db.folders :
          db.folders[r] = [path |-> Root, parent |-> NoId, status |-> "active"]
  BY <1>2
<1>4. IInv /\ RowsInv
  BY AtFirst DEF IInv
<1>5. act = [a \in Threads |-> Idle] /\ tasks = {} /\ round = 0
      /\ budget = [ops |-> 0, outside |-> 0, faults |-> 0]
  BY DEF Init
<1>6. RootInv
  <2>1. RootRow(db, r) /\ r \in FolderIds
    BY <1>3, <1>4 DEF RootRow, RowsInv, RowsOK
  <2>2. AllFit(r)
    BY <1>5, IdleFits DEF AllFit
  <2>3. QED
    BY <1>5, <2>1, <2>2 DEF RootInv
<1>7. BudgetInv
  BY <1>5 DEF BudgetInv
<1>8. RoundInv
  BY <1>5 DEF RoundInv
<1>9. QED
  BY <1>2, <1>4, <1>6, <1>7, <1>8 DEF RecordsInv

LEMMA RecordsStep ==
  ASSUME RecordsInv, [Next]_vars
  PROVE  RecordsInv'
<1>1. /\ IInv /\ Sound(db) /\ RootInv /\ BudgetInv /\ RoundInv
      /\ RowsInv /\ SessionsInv /\ DiskInv /\ round \in 0..Len(Walk)
  BY DEF RecordsInv, IInv, DiskSafe
<1>2. IInv' /\ Sound(db)' /\ RootInv' /\ BudgetInv' /\ RoundInv'
  BY <1>1, EachStep, SoundStep, RootStep, BudgetStep, RoundContinues
<1>3. QED
  BY <1>2 DEF RecordsInv

LEMMA RecordsInvariant == Spec => []RecordsInv
<1>1. Init => RecordsInv
  BY RecordsAtFirst
<1>2. RecordsInv /\ [Next]_vars => RecordsInv'
  BY RecordsStep
<1>3. QED
  BY <1>1, <1>2, PTL DEF Spec

LEMMA SettledIsAgreed ==
  ASSUME \A p \in Paths : Settled(db, p)
  PROVE  Agree
BY DEF Agree, Settled, Paths

\* Whatever operations, other programs and faults have done, in any order, the
\* records agree with the disk once auto_sync_file and auto_sync_folder have visited
\* every path with nothing else going on; unless there is a record outside the folder
\* of its path.
THEOREM RoundsHeal == Spec => []ARoundHeals
<1>1. ASSUME RecordsInv, round = Len(Walk), Quiet, WellFiled(db) PROVE Agree
  <2>0. Len(Walk) \in Nat
    BY PathsAssumption, LenProperties
  <2>1. ASSUME NEW n \in 1..Len(Walk) PROVE Settled(db, Walk[n])
    <3>1. round > 0 /\ (n \in 1..(round - 1) \/ n = round)
      BY <1>1, <2>0
    <3>2. QED
      BY <1>1, <3>1 DEF RecordsInv, RoundInv
  <2>2. ASSUME NEW p \in Paths \ {Root} PROVE Settled(db, p)
    <3>1. PICK n \in 1..Len(Walk) : Walk[n] = p
      BY PathsAssumption, LenProperties DEF Paths
    <3>2. QED
      BY <2>1, <3>1
  <2>3. Settled(db, Root)
    <3>1. PICK r \in DOMAIN db.folders : db.folders[r].path = Root /\ db.folders[r].status = "active"
      BY <1>1 DEF RecordsInv, RootInv, RootRow
    <3>2. Root \in dirs /\ Root \notin FilePaths
      BY <1>1, PathsAssumption DEF RecordsInv, IInv, DiskSafe, DiskInv
    <3>3. QED
      BY <3>1, <3>2 DEF Settled, FoldersAt
  <2>4. QED
    BY <2>2, <2>3, SettledIsAgreed
<1>2. RecordsInv => ARoundHeals
  BY <1>1 DEF ARoundHeals
<1>3. QED
  BY <1>2, RecordsInvariant, PTL
=============================================================================
