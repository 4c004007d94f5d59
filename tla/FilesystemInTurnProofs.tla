---------------------- MODULE FilesystemInTurnProofs ----------------------
(***************************************************************************)
(* Single operations of FilesystemSync keep records and disk in step, for  *)
(* any paths, trees and numbers of operations.  What the rows are at each  *)
(* step of an operation is Stage; the operations follow one by one.        *)
(***************************************************************************)
EXTENDS FilesystemSyncProofs

-----------------------------------------------------------------------------
(* Trees and chains in rows that are filed by their paths: the tree of a     *)
(* folder is what its path is above of.                                      *)

\* The folders of a tree that grows no further: as many rounds as there are rows.
LEMMA TreeIsClosed ==
  ASSUME NEW d, IsFiniteSet(DOMAIN d.folders), NEW i \in DOMAIN d.folders,
         NEW S, S \subseteq DOMAIN d.folders,
         NEW j \in S, d.folders[j].parent \in Tree(d, i, S)
  PROVE  j \in Tree(d, i, S)
<1>0. PICK N, f : TreeBy(d, i, S, N, f)
  BY TreeGrows
<1>1. /\ N \in Nat /\ N = Cardinality(DOMAIN d.folders) /\ Tree(d, i, S) = f[N] /\ f[0] = {i}
      /\ \A n \in 1..N : f[n] = f[n - 1] \cup {k \in S : d.folders[k].parent \in f[n - 1]}
  BY <1>0 DEF TreeBy
<1> SUFFICES ASSUME j \notin f[N] PROVE FALSE
  BY <1>1
<1> DEFINE Big(n) == f[n] \subseteq DOMAIN d.folders /\ Cardinality(f[n]) >= n + 1
           B == {n \in 0..N : ~Big(n)}
           \* What a round adds nothing to stays.
           Stays(m, n) == m <= n => f[n] = f[m]
<1>2. ASSUME NEW n \in 1..N, f[n] = f[n - 1] PROVE FALSE
  <2> DEFINE C == {k \in n..N : f[k] # f[n - 1]}
  <2>1. C = {}
    <3> SUFFICES ASSUME C # {} PROVE FALSE
      OBVIOUS
    <3>1. C \in SUBSET Nat
      BY <1>1
    <3> HIDE DEF C
    <3>2. PICK k \in C : \A m \in C : k <= m
      BY <3>1, LeastNumber
    <3> USE DEF C
    <3>3. k # n /\ k \in 1..N /\ k - 1 \in n..N /\ ~(k <= k - 1)
      BY <1>1, <1>2
    <3>4. f[k - 1] = f[n - 1]
      BY <3>2, <3>3
    <3>5. f[k] = f[k - 1] \cup {x \in S : d.folders[x].parent \in f[k - 1]}
      BY <1>1, <3>3
    <3>6. f[n] = f[n - 1] \cup {x \in S : d.folders[x].parent \in f[n - 1]}
      BY <1>1
    <3>7. f[k] = f[n - 1] \cup {x \in S : d.folders[x].parent \in f[n - 1]}
      BY <3>4, <3>5
    <3>8. f[k] = f[n - 1]
      BY <1>2, <3>6, <3>7
    <3>9. QED
      BY <3>2, <3>8
  <2>2. N \in n..N
    BY <1>1
  <2>3. f[N] = f[n - 1]
    BY <2>1, <2>2
  <2>4. f[n] = f[n - 1] \cup {x \in S : d.folders[x].parent \in f[n - 1]}
    BY <1>1
  <2>5. QED
    BY <1>1, <1>2, <2>3, <2>4
<1>3. B = {}
  <2> SUFFICES ASSUME B # {} PROVE FALSE
    OBVIOUS
  <2>1. B \in SUBSET Nat
    OBVIOUS
  <2> HIDE DEF B
  <2>2. PICK n \in B : \A m \in B : n <= m
    BY <2>1, LeastNumber
  <2> USE DEF B
  <2>3. CASE n = 0
    <3>1. f[n] = {i} /\ f[n] \subseteq DOMAIN d.folders
      BY <1>1, <2>3
    <3>2. Cardinality(f[n]) = 1
      BY <3>1, FS_Singleton
    <3>3. 1 >= 0 + 1
      OBVIOUS
    <3>4. Big(n)
      BY <2>3, <3>1, <3>2, <3>3
    <3>5. QED
      BY <2>2, <3>4
  <2>4. CASE n # 0
    <3>1. n \in 1..N /\ n - 1 \in 0..N /\ ~(n <= n - 1)
      BY <1>1, <2>4
    <3>2. Big(n - 1)
      BY <2>2, <3>1
    <3>3. f[n] = f[n - 1] \cup {k \in S : d.folders[k].parent \in f[n - 1]}
      BY <1>1, <3>1
    <3>4. f[n - 1] \subseteq f[n] /\ f[n] \subseteq DOMAIN d.folders
      BY <3>2, <3>3
    <3>5. f[n] # f[n - 1]
      BY <1>2, <3>1
    <3>6. IsFiniteSet(f[n]) /\ IsFiniteSet(f[n - 1])
      BY <3>4, FS_Subset
    <3>7. /\ Cardinality(f[n]) \in Nat /\ Cardinality(f[n - 1]) \in Nat
          /\ Cardinality(f[n - 1]) <= Cardinality(f[n])
          /\ Cardinality(f[n - 1]) # Cardinality(f[n])
      BY <3>4, <3>5, <3>6, FS_Subset, FS_CardinalityType
    <3>8. Cardinality(f[n]) >= n + 1
      BY <3>1, <3>2, <3>7
    <3>9. QED
      BY <2>2, <3>4, <3>8
  <2>5. QED
    BY <2>3, <2>4
<1>4. N \in 0..N
  BY <1>1
<1>5. Big(N)
  BY <1>3, <1>4
<1>6. Cardinality(f[N]) <= N
  BY <1>1, <1>5, FS_Subset
<1>7. Cardinality(f[N]) \in Nat
  BY <1>5, FS_Subset, FS_CardinalityType
<1>8. QED
  BY <1>1, <1>5, <1>6, <1>7

\* Rows that are filed by their paths, under the root's.
Filed(d, r) == RowsOK(d) /\ Keyed(d) /\ WellFiled(d) /\ RootRow(d, r)

LEMMA ParentRow ==
  ASSUME NEW d, NEW r, Filed(d, r), NEW j \in DOMAIN d.folders
  PROVE  /\ d.folders[j].path \in FolderPaths /\ d.folders[j].path \in Seq(Names)
         /\ Len(d.folders[j].path) \in Nat
         /\ j = r <=> d.folders[j].path = Root
         /\ j = r <=> d.folders[j].parent = NoId
         /\ j # r =>
                /\ d.folders[j].parent \in DOMAIN d.folders
                /\ d.folders[d.folders[j].parent].path = ParentOf(d.folders[j].path)
                /\ IsPrefix(d.folders[d.folders[j].parent].path, d.folders[j].path)
                /\ Len(d.folders[d.folders[j].parent].path) = Len(d.folders[j].path) - 1
<1>1. d.folders[j].path \in FolderPaths /\ d.folders[j].path \in Seq(Names)
  BY PathFacts DEF Filed, RowsOK, Folder
<1>2. Len(d.folders[j].path) \in Nat
  BY <1>1, LenProperties
<1>3. j = r <=> d.folders[j].path = Root
  BY DEF Filed, Keyed, RootRow
<1>4. ASSUME j # r
      PROVE /\ d.folders[j].parent \in DOMAIN d.folders
            /\ d.folders[d.folders[j].parent].path = ParentOf(d.folders[j].path)
  BY <1>3, <1>4 DEF Filed, WellFiled, Keyed
<1>5. j = r => d.folders[j].parent = NoId
  BY DEF Filed, RootRow
<1>6. NoId \notin DOMAIN d.folders
  BY RowsAreFinite DEF Filed
<1>7. QED
  BY <1>1, <1>2, <1>3, <1>4, <1>5, <1>6, ParentFacts DEF Root

\* The deleted folders above a deleted folder are all in the run.
LEMMA RunIsClosed ==
  ASSUME NEW d, NEW r, Filed(d, r), NEW i \in DOMAIN d.folders, NEW j \in DeletedRun(d, i),
         d.folders[j].parent # NoId, d.folders[d.folders[j].parent].status = "deleted"
  PROVE  d.folders[j].parent \in DeletedRun(d, i)
<1>1. IsFiniteSet(DOMAIN d.folders) /\ NoId \notin DOMAIN d.folders
      /\ \A k \in DOMAIN d.folders : d.folders[k].parent \in DOMAIN d.folders \cup {NoId}
  BY RowsAreFinite DEF Filed, Keyed
<1>2. PICK N, f : RunBy(d, i, N, f)
  BY <1>1, RunClimbs
<1> DEFINE Deleted(n) == f[n] # NoId /\ d.folders[f[n]].status = "deleted"
           Climbs(n) == \A m \in 0..n : Deleted(m)
           L(n) == Len(d.folders[f[n]].path)
<1>3. /\ N \in Nat /\ N = Cardinality(DOMAIN d.folders) /\ f[0] = i
      /\ \A n \in 1..N : f[n] = IF f[n - 1] = NoId THEN NoId ELSE d.folders[f[n - 1]].parent
      /\ DeletedRun(d, i) = {f[n] : n \in {n \in 0..N : Climbs(n)}}
  BY <1>2 DEF RunBy
<1>4. PICK n \in 0..N : j = f[n] /\ Climbs(n)
  BY <1>3
<1>5. CASE n < N
  <2>1. n + 1 \in 1..N /\ n + 1 \in 0..N /\ (n + 1) - 1 = n
    BY <1>3, <1>5
  <2>2. f[n + 1] = d.folders[j].parent
    BY <1>3, <1>4, <2>1, n \in 0..N, 0 <= n
  <2>3. Climbs(n + 1)
    <3>1. \A m \in 0..(n + 1) : m \in 0..n \/ m = n + 1
      BY <1>3
    <3>2. QED
      BY <1>4, <2>2, <3>1
  <2>4. QED
    BY <1>3, <2>1, <2>2, <2>3
<1>6. CASE n = N
  <2> DEFINE Path(m) == f[m] \in DOMAIN d.folders /\ L(m) = L(0) - m
             B == {m \in 0..N : ~Path(m)}
  <2>1. B = {}
    <3> SUFFICES ASSUME B # {} PROVE FALSE
      OBVIOUS
    <3>1. B \in SUBSET Nat
      OBVIOUS
    <3> HIDE DEF B
    <3>2. PICK m \in B : \A k \in B : m <= k
      BY <3>1, LeastNumber
    <3> USE DEF B
    <3>3. CASE m = 0
      <4>1. L(0) \in Nat
        BY <1>3, ParentRow
      <4>2. Path(0)
        BY <1>3, <4>1
      <4>3. QED
        BY <3>2, <3>3, <4>2
    <3>4. CASE m # 0
      <4>1. m \in 1..N /\ m - 1 \in 0..N /\ ~(m <= m - 1)
        BY <1>3, <3>4
      <4>2. Path(m - 1) /\ Deleted(m - 1)
        BY <1>4, <1>6, <3>2, <4>1
      <4>3. f[m] = d.folders[f[m - 1]].parent
        BY <1>3, <4>1, <4>2
      <4>4. f[m - 1] # r
        BY <4>2 DEF Filed, RootRow
      <4>5. f[m] \in DOMAIN d.folders /\ L(m) = L(m - 1) - 1 /\ L(m - 1) \in Nat
        <5>1. \A q \in DOMAIN d.folders : q # r =>
                  /\ d.folders[q].parent \in DOMAIN d.folders /\ Len(d.folders[q].path) \in Nat
                  /\ Len(d.folders[d.folders[q].parent].path) = Len(d.folders[q].path) - 1
          BY ParentRow
        <5>2. f[m - 1] \in DOMAIN d.folders
          BY <4>2
        <5>3. QED
          BY <4>3, <4>4, <5>1, <5>2
      <4>6. L(0) \in Nat
        BY <1>3, ParentRow
      <4>7. L(m - 1) = L(0) - (m - 1)
        BY <4>2
      <4>7a. \A x, y, z \in Int : x = z - (m - 1) /\ y = x - 1 => y = z - m
        BY <1>3
      <4>8. L(m) = L(0) - m
        <5>1. L(m - 1) \in Int /\ L(0) \in Int /\ L(m) \in Int
          BY <4>5, <4>6
        <5> HIDE DEF L
        <5>2. QED
          BY <4>5, <4>7, <4>7a, <5>1
      <4>9. Path(m)
        BY <4>5, <4>8
      <4> HIDE DEF Path
      <4>10. QED
        BY <3>2, <4>9
    <3>5. QED
      BY <3>3, <3>4
  <2> DEFINE g == [m \in 0..N |-> f[m]]
  <2>2. \A m \in 0..N : Path(m)
    BY <2>1
  <2>3. L(0) \in Nat
    BY <1>3, ParentRow
  <2> HIDE DEF L
  <2>4. g \in [0..N -> DOMAIN d.folders]
    BY <2>2
  <2>5. \A x, y \in 0..N : x # y => g[x] # g[y]
    <3> SUFFICES ASSUME NEW x \in 0..N, NEW y \in 0..N, f[x] = f[y] PROVE x = y
      OBVIOUS
    <3>1. L(x) = L(y)
      BY DEF L
    <3>2. L(x) = L(0) - x /\ L(y) = L(0) - y
      BY <2>2
    <3>3. \A z \in Nat : z - x = z - y => x = y
      BY <1>3
    <3>4. L(0) - x = L(0) - y
      BY <3>1, <3>2
    <3>5. QED
      BY <2>3, <3>3, <3>4
  <2> HIDE DEF g
  <2>6. g \in Injection(0..N, DOMAIN d.folders)
    BY <2>4, <2>5 DEF Injection, IsInjective
  <2>7. Cardinality(0..N) <= Cardinality(DOMAIN d.folders)
    BY <1>1, <2>6, FS_Injection DEF ExistsInjection
  <2>8. Cardinality(0..N) = N - 0 + 1
    BY <1>3, FS_Interval
  <2>9. QED
    BY <1>3, <2>7, <2>8
<1>7. QED
  BY <1>3, <1>5, <1>6

\* The least of some folders, in the length of its path.
LEMMA ShortestRow ==
  ASSUME NEW d, NEW r, Filed(d, r), NEW J, J \subseteq DOMAIN d.folders, J # {}
  PROVE  \E j \in J : \A k \in J : Len(d.folders[j].path) <= Len(d.folders[k].path)
<1> DEFINE L(j) == Len(d.folders[j].path)
           S == {L(j) : j \in J}
<1>0. \A j \in J : L(j) \in Nat
  BY ParentRow
<1>1. S \in SUBSET Nat /\ S # {}
  <2> HIDE DEF L
  <2>1. QED
    BY <1>0
<1>2. \A k \in J : L(k) \in S
  OBVIOUS
<1> HIDE DEF S
<1>3. PICK n \in S : \A m \in S : n <= m
  BY <1>1, LeastNumber
<1> USE DEF S
<1>4. PICK j \in J : n = L(j)
  OBVIOUS
<1> HIDE DEF S
<1>5. \A k \in J : L(j) <= L(k)
  BY <1>2, <1>3, <1>4
<1>6. QED
  BY <1>5

IsBelow(d, i, j) == IsPrefix(d.folders[i].path, d.folders[j].path)

LEMMA BelowByParents ==
  ASSUME NEW d, NEW r, Filed(d, r), NEW i \in DOMAIN d.folders, NEW j \in DOMAIN d.folders
  PROVE  /\ IsBelow(d, i, i)
         /\ IsBelow(d, i, j) <=> \/ i = j
                                 \/ j # r /\ IsBelow(d, i, d.folders[j].parent)
<1> DEFINE p == d.folders[i].path
           q == d.folders[j].path
           k == d.folders[j].parent
<1>1. p \in Seq(Names) /\ q \in Seq(Names) /\ p \in FolderPaths /\ q \in FolderPaths
  BY ParentRow
<1>2. IsPrefix(p, p)
  BY <1>1, PrefixSelf
<1>3. ASSUME IsPrefix(p, q), i # j PROVE j # r /\ IsPrefix(p, d.folders[k].path)
  <2>1. p # q
    BY <1>3 DEF Filed, Keyed
  <2>2. IsPrefix(p, ParentOf(q)) /\ q # <<>>
    BY <1>1, <1>3, <2>1, PrefixOfParent
  <2>3. j # r
    BY <2>2, ParentRow DEF Root
  <2>4. QED
    BY <2>2, <2>3, ParentRow
<1>4. ASSUME j # r, IsPrefix(p, d.folders[k].path) PROVE IsPrefix(p, q)
  <2>1. k \in DOMAIN d.folders /\ IsPrefix(d.folders[k].path, q)
    BY <1>4, ParentRow
  <2>2. d.folders[k].path \in Seq(Names)
    BY <2>1, ParentRow
  <2>3. QED
    BY <1>1, <1>4, <2>1, <2>2, PrefixTrans
<1>5. QED
  BY <1>2, <1>3, <1>4 DEF IsBelow

\* A tree of some of the folders: what is in it is below its top; its top is in it,
\* and so is what is among the folders and below, if all between is among them.
LEMMA TreesAreBelow ==
  ASSUME NEW d, NEW r, Filed(d, r), NEW i \in DOMAIN d.folders, NEW S, S \subseteq DOMAIN d.folders
  PROVE  /\ Tree(d, i, S) \subseteq {j \in DOMAIN d.folders : IsBelow(d, i, j)}
         /\ i \in Tree(d, i, S)
         /\ \A j \in S : d.folders[j].parent \in Tree(d, i, S) => j \in Tree(d, i, S)
         /\ (\A j \in S : j # r => d.folders[j].parent \in S) =>
                {j \in S : IsBelow(d, i, j)} \subseteq Tree(d, i, S)
<1> DEFINE T == Tree(d, i, S)
           C == {j \in DOMAIN d.folders : IsBelow(d, i, j)}
<1>0. IsFiniteSet(DOMAIN d.folders) /\ NoId \notin DOMAIN d.folders
  BY RowsAreFinite DEF Filed
<1>1. T \subseteq C
  <2>1. i \in C
    BY BelowByParents
  <2>2. \A j \in S : d.folders[j].parent \in C => j \in C
    <3> SUFFICES ASSUME NEW j \in S, d.folders[j].parent \in C PROVE j \in C
      OBVIOUS
    <3>1. j # r
      BY <1>0, ParentRow
    <3>2. QED
      BY <3>1, BelowByParents
  <2> HIDE DEF C
  <2>3. QED
    BY <1>0, <2>1, <2>2, TreeWithin
<1>2. i \in T
  BY <1>0, TreeHasItsTop
<1>3. \A j \in S : d.folders[j].parent \in T => j \in T
  BY <1>0, TreeIsClosed
<1>4. ASSUME \A j \in S : j # r => d.folders[j].parent \in S
      PROVE  {j \in S : IsBelow(d, i, j)} \subseteq T
  <2> DEFINE J == {j \in S : IsBelow(d, i, j) /\ j \notin T}
  <2> HIDE DEF T
  <2> SUFFICES ASSUME J # {} PROVE FALSE
    OBVIOUS
  <2>1. J \subseteq DOMAIN d.folders
    OBVIOUS
  <2> HIDE DEF J
  <2>2. PICK j \in J : \A k \in J : Len(d.folders[j].path) <= Len(d.folders[k].path)
    BY <2>1, ShortestRow
  <2> USE DEF J
  <2> DEFINE k == d.folders[j].parent
  <2>3. j \in DOMAIN d.folders /\ j # i
    BY <1>2
  <2>4. j # r /\ IsBelow(d, i, k)
    BY <2>3, BelowByParents
  <2>5. k \in S /\ k \notin T
    BY <1>3, <1>4, <2>4
  <2>6. k \in J
    BY <2>4, <2>5
  <2>7. /\ Len(d.folders[j].path) \in Nat
        /\ Len(d.folders[k].path) = Len(d.folders[j].path) - 1
    BY <2>3, <2>4, ParentRow
  <2>8. Len(d.folders[j].path) <= Len(d.folders[k].path)
    BY <2>2, <2>6
  <2>9. QED
    BY <2>7, <2>8
<1>5. QED
  BY <1>1, <1>2, <1>3, <1>4

LEMMA WholeTreeIsBelow ==
  ASSUME NEW d, NEW r, Filed(d, r), NEW i \in DOMAIN d.folders
  PROVE  WholeTree(d, i) = {j \in DOMAIN d.folders : IsBelow(d, i, j)}
<1> DEFINE S == DOMAIN d.folders
<1>1. \A j \in S : j # r => d.folders[j].parent \in S
  BY ParentRow
<1>2. Tree(d, i, S) \subseteq {j \in S : IsBelow(d, i, j)}
  BY TreesAreBelow
<1>3. {j \in S : IsBelow(d, i, j)} \subseteq Tree(d, i, S)
  BY <1>1, TreesAreBelow
<1>4. QED
  BY <1>2, <1>3 DEF WholeTree

\* Below a deleted folder nothing is active; the folders that delete_folder looks
\* into are the top and the active ones below.
LEMMA ActiveAbove ==
  ASSUME NEW d, NEW r, Filed(d, r), Nested(d), NEW i \in DOMAIN d.folders,
         NEW j \in DOMAIN d.folders, d.folders[j].status = "active", IsBelow(d, i, j)
  PROVE  d.folders[i].status = "active"
<1> DEFINE J == {k \in DOMAIN d.folders : d.folders[k].status = "active" /\ IsBelow(d, i, k)}
<1>1. J \subseteq DOMAIN d.folders /\ J # {}
  OBVIOUS
<1> HIDE DEF J
<1>2. PICK k \in J : \A x \in J : Len(d.folders[k].path) <= Len(d.folders[x].path)
  BY <1>1, ShortestRow
<1> USE DEF J
<1>3. CASE k = i
  BY <1>3
<1>4. CASE k # i
  <2> DEFINE x == d.folders[k].parent
  <2>1. k # r /\ IsBelow(d, i, x)
    BY <1>4, BelowByParents
  <2>2. x \in DOMAIN d.folders /\ x # NoId
    BY <2>1, ParentRow
  <2>3. d.folders[x].status = "active"
    BY <2>2 DEF Nested
  <2>4. x \in J
    BY <2>1, <2>2, <2>3
  <2>5. Len(d.folders[k].path) <= Len(d.folders[x].path)
    BY <1>2, <2>4
  <2>6. /\ Len(d.folders[k].path) \in Nat
        /\ Len(d.folders[x].path) = Len(d.folders[k].path) - 1
    BY <2>1, ParentRow
  <2>7. QED
    BY <2>5, <2>6
<1>5. QED
  BY <1>3, <1>4

LEMMA UndeletedBelow ==
  ASSUME NEW d, NEW r, Filed(d, r), Nested(d), NEW i \in DOMAIN d.folders
  PROVE  /\ UndeletedTree(d, i) \subseteq {j \in DOMAIN d.folders : IsBelow(d, i, j)}
         /\ i \in UndeletedTree(d, i)
         /\ \A j \in DOMAIN d.folders : d.folders[j].status = "active" =>
                /\ IsBelow(d, i, j) => j \in UndeletedTree(d, i)
                /\ d.folders[j].parent \in UndeletedTree(d, i) => j \in UndeletedTree(d, i)
<1> DEFINE S == {j \in DOMAIN d.folders : d.folders[j].status # "deleted"}
           T == Tree(d, i, S)
<1>1. S \subseteq DOMAIN d.folders /\ \A j \in DOMAIN d.folders :
          d.folders[j].status = "active" <=> j \in S
  BY DEF Filed, RowsOK, Folder
<1>2. \A j \in S : j # r => d.folders[j].parent \in S
  <2> SUFFICES ASSUME NEW j \in S, j # r PROVE d.folders[j].parent \in S
    OBVIOUS
  <2>1. d.folders[j].parent \in DOMAIN d.folders /\ d.folders[j].parent # NoId
    BY ParentRow
  <2>2. d.folders[d.folders[j].parent].status = "active"
    BY <1>1, <2>1 DEF Nested
  <2>3. QED
    BY <1>1, <2>1, <2>2
<1>3. UndeletedTree(d, i) = T
  BY DEF UndeletedTree
<1> HIDE DEF S
<1>4. /\ T \subseteq {j \in DOMAIN d.folders : IsBelow(d, i, j)} /\ i \in T
      /\ \A j \in S : d.folders[j].parent \in T => j \in T
      /\ {j \in S : IsBelow(d, i, j)} \subseteq T
  BY <1>1, <1>2, TreesAreBelow
<1>5. QED
  BY <1>1, <1>3, <1>4

-----------------------------------------------------------------------------
(* Operations one at a time: what the rows are at each of their steps.       *)

Tidy(D, P, d) == InStep(D, P, d) /\ WellFiled(d) /\ Nested(d)

Accepted(d, w) ==
    /\ \A u \in w : u[3] # "row" =>
           IF u[1] = "i" THEN u[2] \in DOMAIN d.images ELSE u[2] \in DOMAIN d.folders
    /\ Sound(Apply(d, w))

\* The active rows of e that were in the same folder in d are in an active folder;
\* and so are the others.
HeldNested(d, e) ==
    /\ \A i \in DOMAIN e.images \cap DOMAIN d.images :
           e.images[i].status = "active" /\ e.images[i].folder = d.images[i].folder =>
               e.folders[e.images[i].folder].status = "active"
    /\ \A i \in DOMAIN e.folders \cap DOMAIN d.folders :
           /\ e.folders[i].status = "active" /\ e.folders[i].parent = d.folders[i].parent
           /\ e.folders[i].parent # NoId
           => e.folders[e.folders[i].parent].status = "active"
Shown(d, e) ==
    /\ \A i \in DOMAIN e.images : 
           /\ i \notin DOMAIN d.images \/ e.images[i].folder # d.images[i].folder
           /\ e.images[i].status = "active"
           => e.folders[e.images[i].folder].status = "active"
    /\ \A i \in DOMAIN e.folders : 
           /\ i \notin DOMAIN d.folders \/ e.folders[i].parent # d.folders[i].parent
           /\ e.folders[i].status = "active" /\ e.folders[i].parent # NoId
           => e.folders[e.folders[i].parent].status = "active"

LEMMA ShownIsNested ==
  ASSUME NEW d, NEW e, HeldNested(d, e), Shown(d, e)
  PROVE  Nested(e)
BY DEF HeldNested, Shown, Nested

\* Whether the database takes the changes or not, the records are in step.
EndsTidy(w, D, P, d) ==
    IF Accepted(d, w)
    THEN InStep(D, P, Apply(d, w)) /\ WellFiled(Apply(d, w)) /\ HeldNested(d, Apply(d, w))
    ELSE Tidy(D, P, d)

NewPath(p, from, to) == IF IsPrefix(from, p) THEN Rebase(p, from, to) ELSE p

\* The disk after the move of a folder that the rows d do not know of.
Displaced(D, P, d, from, to) ==
    /\ \A k \in DOMAIN d.images :
           d.images[k].status = "active" <=> /\ ~IsPrefix(to, d.images[k].src)
                                             /\ NewPath(d.images[k].src, from, to) \in P
    /\ \A j \in DOMAIN d.folders : d.folders[j].status = "active" =>
           /\ ~IsPrefix(to, d.folders[j].path)
           /\ NewPath(d.folders[j].path, from, to) \in D

Loaded(s, d) == s.id \in DOMAIN d.images /\ s.rec = d.images[s.id]
\* The rows that a move of a file has for its target folder.
Ready(s, D, P, d) ==
    LET e == Apply(d, s.pend)
    IN  /\ Tidy(D, P, e) /\ Keyed(e)
        /\ s.fid \in DOMAIN e.folders /\ e.folders[s.fid].path = ParentOf(s.to)
        /\ e.folders[s.fid].status = "active"
        /\ \A u \in s.pend : u[1] = "i" => u[2] # s.id
\* The files before the rename.
Back(s, P) == (P \ {s.to}) \cup {s.rec.src}

MovesTree(s, d) ==
    /\ s.fid \in DOMAIN d.folders /\ d.folders[s.fid].path = s.path
    /\ ~IsPrefix(s.path, s.to) /\ ~IsPrefix(s.to, s.path)
    /\ \A S \in {FolderPaths, FilePaths} : \A p \in S :
           IsPrefix(s.path, p) => Rebase(p, s.path, s.to) \in S
    /\ s.pend = IF FoldersAt(d, s.to) = {} THEN {} ELSE PurgeTree(d, TheFolder(d, s.to))

\* The disk after the deletion of a folder.
Cut(D, P, d, p) ==
    /\ \A x \in D \cup P : ~IsPrefix(p, x)
    /\ \A i \in DOMAIN d.images : ~IsPrefix(p, d.images[i].src) =>
           (d.images[i].status = "active" <=> d.images[i].src \in P)
    /\ \A i \in DOMAIN d.folders : ~IsPrefix(p, d.folders[i].path) =>
           (d.folders[i].status = "active" => d.folders[i].path \in D)

AtRest == {"put", "folderlook", "foldergone", "folderhave", "write", "rm", "rmf", "mvf_disk",
           "mv_check", "mv_disk", "chain", "insert"}

Stage(s, D, P, d) ==
    /\ s.pc # "data"
    /\ s.op = "movefile" => Loaded(s, d) /\ s.to # s.rec.src /\ s.path = ParentOf(s.to)
    /\ s.pc \in AtRest => Tidy(D, P, d)
    \* An upload visits the file that it has written.
    /\ s.pc \in {"look", "gone", "have"} =>
           \/ Tidy(D, P, d)
           \/ s.op # "lookup" /\ s.path \in P /\ Tidy(D, P \ {s.path}, d)
    /\ s.pc = "gone" => s.path \notin P
    /\ s.pc = "have" /\ s.op # "lookup" => s.path \in P
    /\ s.pc \in {"chain", "insert"} => s.path \in P /\ ImagesAt(d, s.path) = {}
    /\ s.pc = "insert" => s.fid \in DOMAIN d.folders /\ d.folders[s.fid].path = ParentOf(s.path)
    /\ s.pc \in AtFolder => s.pend = {}
    /\ s.pc = "foldergone" => s.path \notin D
    /\ s.pc = "folderhave" => s.path \in D
    /\ s.pc = "write" => s.op # "lookup"
    /\ s.pc \in {"mv_check", "mv_disk"} => Ready(s, D, P, d)
    /\ s.pc = "mv_disk" => s.to \notin P /\ ImagesAt(Apply(d, s.pend), s.to) = {}
    /\ s.pc \in {"mv_record", "mv_commit", "mv_back"} =>
           s.rec.src \notin P /\ s.to \in P /\ Tidy(D, Back(s, P), d)
    /\ s.pc = "mv_record" => Ready(s, D, Back(s, P), d) /\ ImagesAt(Apply(d, s.pend), s.to) = {}
    /\ s.pc = "mv_commit" => Tidy(D, P, Apply(d, s.pend))
    /\ s.pc \in {"rm", "rm_record"} => Loaded(s, d)
    /\ s.pc = "rm_record" =>
           IF s.rec.status = "active" THEN s.rec.src \notin P /\ Tidy(D, P \cup {s.rec.src}, d)
                                      ELSE Tidy(D, P, d)
    /\ s.pc \in {"rmf", "rmf_record"} =>
           /\ s.fid \in DOMAIN d.folders /\ d.folders[s.fid].path = s.path
           /\ s.saw <=> d.folders[s.fid].status = "active"
    /\ s.pc = "rmf_record" => WellFiled(d) /\ Nested(d) /\ Cut(D, P, d, s.path)
    /\ s.pc \in {"mvf_disk", "mvf_record"} => MovesTree(s, d)
    /\ s.pc = "mvf_disk" => s.to \notin D
    /\ s.pc = "mvf_record" =>
           /\ WellFiled(d) /\ Nested(d) /\ Displaced(D, P, d, s.path, s.to)
           /\ Above(ParentOf(s.to)) \subseteq D
    /\ s.pc = "commit" => EndsTidy(s.pend, D, P, d)

\* A step of a leads on to such rows.
Leads(a) == \E s, D, P, e :
    /\ act' = [act EXCEPT ![a] = s] /\ dirs' = D /\ DOMAIN files' = P /\ db' = e
    /\ Shown(db, e) => IF s.pc = "idle" THEN Tidy(D, P, e) ELSE Stage(s, D, P, e)

LEMMA LeadsOn ==
  ASSUME NEW a, NEW s, Go(a, s), s.pc # "idle",
         NEW D, NEW P, NEW e, dirs' = D, DOMAIN files' = P, db' = e,
         Shown(db, e) => Stage(s, D, P, e)
  PROVE  Leads(a)
BY DEF Leads, Go

LEMMA LeadsToRest ==
  ASSUME NEW a, End(a),
         NEW D, NEW P, NEW e, dirs' = D, DOMAIN files' = P, db' = e,
         Shown(db, e) => Tidy(D, P, e)
  PROVE  Leads(a)
<1>1. Idle.pc = "idle"
  BY DEF Idle
<1>2. act' = [act EXCEPT ![a] = Idle]
  BY DEF End
<1> QED
  BY <1>1, <1>2 DEF Leads

LEMMA LeadsToCommit ==
  ASSUME NEW a, NEW s, DOMAIN s = Fields,
         s.op = "movefile" => Loaded(s, db) /\ s.to # s.rec.src /\ s.path = ParentOf(s.to),
         NEW D, NEW P, dirs' = D, DOMAIN files' = P, db' = db,
         \/ ToCommit(a, s) /\ (s.pend = {} => Tidy(D, P, db))
                           /\ (s.pend # {} => EndsTidy(s.pend, D, P, db))
         \/ Go(a, [s EXCEPT !.pc = "commit"]) /\ EndsTidy(s.pend, D, P, db)
  PROVE  Leads(a)
<1>1. CASE ToCommit(a, s) /\ s.pend = {} /\ Tidy(D, P, db)
  BY <1>1, LeadsToRest DEF ToCommit
<1>2. CASE Go(a, [s EXCEPT !.pc = "commit"]) /\ EndsTidy(s.pend, D, P, db)
  <2> DEFINE c == [s EXCEPT !.pc = "commit"]
  <2>1. /\ c.pc = "commit" /\ c.op = s.op /\ c.pend = s.pend /\ c.id = s.id
        /\ c.rec = s.rec /\ c.to = s.to /\ c.path = s.path
    BY DEF Fields
  <2>2. Go(a, c)
    BY <1>2
  <2> HIDE DEF c
  <2>3. Stage(c, D, P, db)
    BY <1>2, <2>1 DEF Stage, AtRest, AtFolder, Loaded
  <2>4. QED
    BY <2>1, <2>2, <2>3, LeadsOn
<1>3. QED
  BY <1>1, <1>2 DEF ToCommit

-----------------------------------------------------------------------------
(* What the changes of the statuses of some rows leave. *)

Marks(I, F, v) == {SetImage(i, "status", v) : i \in I} \cup {SetFolder(j, "status", v) : j \in F}

\* e has the status v for the images I and the folders F, and is otherwise like d.
IsMarked(d, I, F, v, e) ==
    /\ RowsOK(e) /\ Keyed(e) /\ SameRecords(d, e)
    /\ \A k \in DOMAIN d.images :
           e.images[k].status = IF k \in I THEN v ELSE d.images[k].status
    /\ \A k \in DOMAIN d.folders :
           e.folders[k].status = IF k \in F THEN v ELSE d.folders[k].status

LEMMA Marked ==
  ASSUME NEW d, RowsOK(d), Keyed(d), NEW I, I \subseteq DOMAIN d.images,
         NEW F, F \subseteq DOMAIN d.folders, NEW v \in Statuses
  PROVE  IsMarked(d, I, F, v, Apply(d, Marks(I, F, v))) /\ Accepted(d, Marks(I, F, v))
<1> DEFINE w == Marks(I, F, v)
           e == Apply(d, w)
<1>1. \A u \in w : /\ u[3] = "status" /\ u[4] = v /\ GoodChange(u)
                   /\ u[1] = "i" => u[2] \in I
                   /\ u[1] # "i" => u[1] = "f" /\ u[2] \in F
  BY ChangeFacts, GoodChanges DEF Marks
<1>2. /\ \A k \in I : \E u \in w : u[1] = "i" /\ u[2] = k /\ u[3] = "status"
      /\ \A k \in F : \E u \in w : u[1] = "f" /\ u[2] = k /\ u[3] = "status"
  BY ChangeFacts DEF Marks
<1> HIDE DEF w
<1>3. RowsOK(e) /\ SameRecords(d, e)
  BY <1>1, ApplyType, StatusChanges
<1>4. Keyed(e)
  BY <1>3, RightedIsKeyed
<1>5. Accepted(d, w)
  BY <1>1, <1>3, <1>4, SoundIsKeyed DEF Accepted
<1>6. ASSUME NEW k \in DOMAIN d.images
      PROVE  e.images[k].status = IF k \in I THEN v ELSE d.images[k].status
  <2>1. e.images[k].status = Field(w, "i", k, "status", d.images[k].status)
    BY <1>3, ApplyIs DEF SameRecords
  <2>2. CASE k \in I
    BY <1>1, <1>2, <2>1, <2>2, FieldIs
  <2>3. CASE k \notin I
    <3>1. \A u \in w : ~(u[1] = "i" /\ u[2] = k /\ u[3] = "status")
      BY <1>1, <2>3
    <3>2. QED
      BY <2>1, <2>3, <3>1, FieldIs
  <2>4. QED
    BY <2>2, <2>3
<1>7. ASSUME NEW k \in DOMAIN d.folders
      PROVE  e.folders[k].status = IF k \in F THEN v ELSE d.folders[k].status
  <2>1. e.folders[k].status = Field(w, "f", k, "status", d.folders[k].status)
    BY <1>3, ApplyIs DEF SameRecords
  <2>2. CASE k \in F
    BY <1>1, <1>2, <2>1, <2>2, FieldIs
  <2>3. CASE k \notin F
    <3>1. \A u \in w : ~(u[1] = "f" /\ u[2] = k /\ u[3] = "status")
      BY <1>1, <2>3
    <3>2. QED
      BY <2>1, <2>3, <3>1, FieldIs
  <2>4. QED
    BY <2>2, <2>3
<1> HIDE DEF e
<1>8. IsMarked(d, I, F, v, e)
  BY <1>3, <1>4, <1>6, <1>7 DEF IsMarked
<1>9. QED
  BY <1>5, <1>8 DEF e, w

\* Deleted folders that are undeleted up to the first active one.
Climbing(d, F) ==
    /\ F \subseteq DOMAIN d.folders
    /\ \A j \in F : /\ d.folders[j].parent # NoId
                    /\ d.folders[d.folders[j].parent].status = "deleted"
                    => d.folders[j].parent \in F

LEMMA Undeleted ==
  ASSUME NEW d, RowsOK(d), Keyed(d), NEW P, NEW D, Nested(d), WellFiled(d),
         NEW I, I \subseteq DOMAIN d.images, NEW F, Climbing(d, F),
         \A i \in I : d.images[i].folder \in F
                      \/ d.folders[d.images[i].folder].status = "active",
         \A i \in I : d.images[i].src \in P,
         \A i \in DOMAIN d.images \ I : d.images[i].status = "active" <=> d.images[i].src \in P,
         \A j \in F : d.folders[j].path \in D,
         \A j \in DOMAIN d.folders : d.folders[j].status = "active" => d.folders[j].path \in D
  PROVE  Accepted(d, Marks(I, F, "active")) /\ Tidy(D, P, Apply(d, Marks(I, F, "active")))
<1> DEFINE e == Apply(d, Marks(I, F, "active"))
<1>1. /\ RowsOK(e) /\ Keyed(e) /\ SameRecords(d, e) /\ Accepted(d, Marks(I, F, "active"))
      /\ \A k \in DOMAIN d.images :
             e.images[k].status = IF k \in I THEN "active" ELSE d.images[k].status
      /\ \A k \in DOMAIN d.folders :
             e.folders[k].status = IF k \in F THEN "active" ELSE d.folders[k].status
  <2>1. F \subseteq DOMAIN d.folders /\ "active" \in Statuses
    BY DEF Climbing, Statuses
  <2>2. IsMarked(d, I, F, "active", e) /\ Accepted(d, Marks(I, F, "active"))
    BY <2>1, Marked
  <2> HIDE DEF e
  <2>3. QED
    BY <2>2 DEF IsMarked
<1> HIDE DEF e
<1>2. InStep(D, P, e)
  BY <1>1 DEF InStep, SameRecords
<1>3. WellFiled(e)
  BY <1>1, SameRecordsFiled
<1>4. ASSUME NEW k \in DOMAIN e.images, e.images[k].status = "active"
      PROVE  e.folders[e.images[k].folder].status = "active"
  <2>1. k \in DOMAIN d.images /\ e.images[k].folder = d.images[k].folder
        /\ d.images[k].folder \in DOMAIN d.folders
    BY <1>1 DEF SameRecords, Keyed
  <2>2. d.images[k].folder \in F \/ d.folders[d.images[k].folder].status = "active"
    BY <1>1, <1>4, <2>1 DEF Nested
  <2>3. QED
    BY <1>1, <2>1, <2>2
<1>5. ASSUME NEW k \in DOMAIN e.folders, e.folders[k].status = "active", e.folders[k].parent # NoId
      PROVE  e.folders[e.folders[k].parent].status = "active"
  <2> DEFINE j == d.folders[k].parent
  <2>1. k \in DOMAIN d.folders /\ e.folders[k].parent = j /\ j \in DOMAIN d.folders
        /\ d.folders[j].status \in Statuses
    BY <1>1, <1>5 DEF SameRecords, Keyed, RowsOK, Folder, Statuses
  <2>2. j \in F \/ d.folders[j].status = "active"
    BY <1>1, <1>5, <2>1 DEF Nested, Climbing, Statuses
  <2>3. QED
    BY <1>1, <2>1, <2>2
<1>6. Nested(e)
  BY <1>4, <1>5 DEF Nested
<1>7. QED
  BY <1>1, <1>2, <1>3, <1>6 DEF Tidy, e

LEMMA TidyEnds ==
  ASSUME NEW d, NEW w, NEW D, NEW P, Tidy(D, P, Apply(d, w)), Accepted(d, w)
  PROVE  EndsTidy(w, D, P, d)
BY DEF EndsTidy, Tidy, Nested, HeldNested

\* The rows are the same.
Alike(d, e) ==
    /\ DOMAIN e.images = DOMAIN d.images /\ DOMAIN e.folders = DOMAIN d.folders
    /\ \A i \in DOMAIN d.images : e.images[i] = d.images[i]
    /\ \A i \in DOMAIN d.folders : e.folders[i] = d.folders[i]

LEMMA NothingApplied ==
  ASSUME NEW d, RowsOK(d)
  PROVE  RowsOK(Apply(d, {})) /\ Alike(d, Apply(d, {}))
<1> DEFINE e == Apply(d, {})
<1>1. RowsOK(e)
  BY ApplyType
<1>2. /\ DOMAIN e.images = DOMAIN d.images /\ DOMAIN e.folders = DOMAIN d.folders
      /\ \A i \in DOMAIN d.images : /\ e.images[i].src = d.images[i].src
                                    /\ e.images[i].folder = d.images[i].folder
                                    /\ e.images[i].status = d.images[i].status
      /\ \A i \in DOMAIN d.folders : /\ e.folders[i].path = d.folders[i].path
                                     /\ e.folders[i].parent = d.folders[i].parent
                                     /\ e.folders[i].status = d.folders[i].status
  <2>1. \A t, i, f, old : Field({}, t, i, f, old) = old
    BY FieldIs
  <2>2. DOMAIN e.images = DOMAIN d.images /\ DOMAIN e.folders = DOMAIN d.folders
    <3>1. /\ DOMAIN e.images = {i \in DOMAIN d.images : SetImage(i, "row", 0) \notin {}}
          /\ DOMAIN e.folders = {i \in DOMAIN d.folders : SetFolder(i, "row", 0) \notin {}}
      BY ApplyIs
    <3> HIDE DEF e
    <3>2. QED
      BY <3>1
  <2>3. /\ \A i \in DOMAIN e.images :
               /\ e.images[i].src = Field({}, "i", i, "src", d.images[i].src)
               /\ e.images[i].folder = Field({}, "i", i, "folder", d.images[i].folder)
               /\ e.images[i].status = Field({}, "i", i, "status", d.images[i].status)
        /\ \A i \in DOMAIN e.folders :
               /\ e.folders[i].path = Field({}, "f", i, "path", d.folders[i].path)
               /\ e.folders[i].parent = Field({}, "f", i, "parent", d.folders[i].parent)
               /\ e.folders[i].status = Field({}, "f", i, "status", d.folders[i].status)
    BY ApplyIs
  <2> HIDE DEF e
  <2>4. ASSUME NEW i \in DOMAIN d.images
        PROVE  /\ e.images[i].src = d.images[i].src
               /\ e.images[i].folder = d.images[i].folder
               /\ e.images[i].status = d.images[i].status
    BY <2>1, <2>2, <2>3
  <2>5. ASSUME NEW i \in DOMAIN d.folders
        PROVE  /\ e.folders[i].path = d.folders[i].path
               /\ e.folders[i].parent = d.folders[i].parent
               /\ e.folders[i].status = d.folders[i].status
    BY <2>1, <2>2, <2>3
  <2>6. QED
    BY <2>2, <2>4, <2>5
<1> HIDE DEF e
<1>3. \A i \in DOMAIN d.images : e.images[i] = d.images[i]
  <2>1. \A i \in DOMAIN d.images : e.images[i] \in Image /\ d.images[i] \in Image
    BY <1>1, <1>2 DEF RowsOK
  <2>2. QED
    BY <1>2, <2>1 DEF Image
<1>4. \A i \in DOMAIN d.folders : e.folders[i] = d.folders[i]
  <2>1. \A i \in DOMAIN d.folders : e.folders[i] \in Folder /\ d.folders[i] \in Folder
    BY <1>1, <1>2 DEF RowsOK
  <2>2. QED
    BY <1>2, <2>1 DEF Folder
<1>5. QED
  BY <1>1, <1>2, <1>3, <1>4 DEF Alike, e

LEMMA AlikeRows ==
  ASSUME NEW d, NEW e, Alike(d, e), Keyed(d)
  PROVE  /\ Keyed(e) /\ (WellFiled(d) => WellFiled(e)) /\ (Nested(d) => Nested(e))
         /\ \A D, P : InStep(D, P, d) => InStep(D, P, e)
         /\ \A r : RootRow(d, r) => RootRow(e, r)
         /\ \A p : ImagesAt(e, p) = ImagesAt(d, p) /\ FoldersAt(e, p) = FoldersAt(d, p)
<1>1. Keyed(e)
  BY DEF Alike, Keyed
<1>2. WellFiled(d) => WellFiled(e)
  BY DEF Alike, Keyed, WellFiled
<1>3. Nested(d) => Nested(e)
  BY DEF Alike, Keyed, Nested
<1>4. \A D, P : InStep(D, P, d) => InStep(D, P, e)
  BY DEF Alike, InStep
<1>5. \A r : RootRow(d, r) => RootRow(e, r)
  BY DEF Alike, RootRow
<1>6. \A p : ImagesAt(e, p) = ImagesAt(d, p) /\ FoldersAt(e, p) = FoldersAt(d, p)
  BY DEF Alike, ImagesAt, FoldersAt
<1>7. QED
  BY <1>1, <1>2, <1>3, <1>4, <1>5, <1>6

LEMMA ExtendedIsNested ==
  ASSUME NEW d, NEW e, NEW M, RowsOK(d), Keyed(d), Extended(d, e, M),
         WellFiled(d), Nested(d), Shown(d, e)
  PROVE  WellFiled(e) /\ Nested(e)
<1>0. NoId \notin DOMAIN e.folders
  BY RowsAreFinite DEF Extended
<1>2. WellFiled(e)
  <2>1. ASSUME NEW i \in DOMAIN e.images
        PROVE e.folders[e.images[i].folder].path = ParentOf(e.images[i].src)
    BY DEF WellFiled, Extended, Keyed
  <2>2. ASSUME NEW i \in DOMAIN e.folders, e.folders[i].path # Root
        PROVE  /\ e.folders[i].parent # NoId
               /\ e.folders[e.folders[i].parent].path = ParentOf(e.folders[i].path)
    <3>1. CASE i \in DOMAIN d.folders
      BY <2>2, <3>1 DEF WellFiled, Extended, Keyed
    <3>2. CASE i \notin DOMAIN d.folders
      BY <1>0, <2>2, <3>2 DEF Extended
    <3>3. QED
      BY <3>1, <3>2
  <2>3. QED
    BY <2>1, <2>2 DEF WellFiled
<1>3. HeldNested(d, e)
  <2>1. ASSUME NEW i \in DOMAIN e.images \cap DOMAIN d.images, e.images[i].status = "active"
        PROVE  e.folders[e.images[i].folder].status = "active"
    BY <2>1 DEF Nested, Extended, Keyed
  <2>2. ASSUME NEW i \in DOMAIN e.folders \cap DOMAIN d.folders, e.folders[i].status = "active",
               e.folders[i].parent # NoId
        PROVE  e.folders[e.folders[i].parent].status = "active"
    BY <2>2 DEF Nested, Extended, Keyed
  <2>3. QED
    BY <2>1, <2>2 DEF HeldNested
<1>4. QED
  BY <1>2, <1>3, ShownIsNested

\* New folders, for a path that is on disk.
LEMMA ExtendedIsTidy ==
  ASSUME NEW d, NEW e, NEW D, NEW P, NEW M, RowsOK(d), Keyed(d), Extended(d, e, M),
         Tidy(D, P, d), \A q \in M : q \in D, Shown(d, e)
  PROVE  Tidy(D, P, e)
<1>1. InStep(D, P, e)
  BY DEF Tidy, InStep, Extended
<1>2. WellFiled(e) /\ Nested(e)
  BY ExtendedIsNested DEF Tidy
<1>3. QED
  BY <1>1, <1>2 DEF Tidy

-----------------------------------------------------------------------------
(* The steps of a visit, of an ID lookup and of an upload's visit.           *)

Here(r) == RowsInv /\ SessionsInv /\ DiskInv /\ Sound(db) /\ RootRow(db, r)
Stands(a) == Stage(act[a], dirs, DOMAIN files, db)

LEMMA RowsHere ==
  ASSUME NEW r, Here(r)
  PROVE  /\ RowsOK(db) /\ Keyed(db) /\ RootRow(db, r)
         /\ WellFiled(db) => Filed(db, r)
         /\ \A i \in DOMAIN db.images : /\ db.images[i].src \in FilePaths
                                        /\ db.images[i].status \in Statuses
                                        /\ db.images[i].folder \in DOMAIN db.folders
         /\ \A i \in DOMAIN db.folders : db.folders[i].status \in Statuses
         /\ \A a \in Threads : DOMAIN act[a] = Fields
BY SoundIsKeyed DEF Here, RowsInv, Keyed, RowsOK, Image, Folder, Statuses, Filed, SessionsInv, Shape

LEMMA LooksLead ==
  ASSUME NEW r, Here(r), NEW a \in Threads, Stands(a), SyncFileLook(a) \/ FolderLook(a)
  PROVE  Leads(a)
<1>0. DOMAIN act[a] = Fields
  BY RowsHere
<1>1. CASE SyncFileLook(a)
  <2> DEFINE s == [act[a] EXCEPT !.pc = IF act[a].path \in DOMAIN files THEN "have" ELSE "gone"]
  <2>1. /\ s.pc = IF act[a].path \in DOMAIN files THEN "have" ELSE "gone"
        /\ s.op = act[a].op /\ s.path = act[a].path /\ s.id = act[a].id /\ s.rec = act[a].rec
        /\ s.to = act[a].to
    BY <1>0 DEF Fields
  <2>2. Go(a, s) /\ UNCHANGED <<dirs, files, db>> /\ act[a].pc = "look"
    BY <1>1 DEF SyncFileLook, Goto, disk
  <2> HIDE DEF s
  <2>3. s.pc = "gone" => DOMAIN files \ {s.path} = DOMAIN files
    BY <2>1
  <2>4. Stage(s, dirs, DOMAIN files, db)
    BY <2>1, <2>2, <2>3 DEF Stands, Stage, AtRest, AtFolder, Loaded
  <2>5. s.pc # "idle"
    BY <2>1
  <2>6. QED
    BY <2>2, <2>4, <2>5, LeadsOn
<1>2. CASE FolderLook(a)
  <2> DEFINE s == [act[a] EXCEPT !.pc = IF act[a].path \in dirs THEN "folderhave" ELSE "foldergone"]
  <2>1. /\ s.pc = IF act[a].path \in dirs THEN "folderhave" ELSE "foldergone"
        /\ s.op = act[a].op /\ s.path = act[a].path /\ s.id = act[a].id /\ s.rec = act[a].rec
        /\ s.to = act[a].to /\ s.pend = act[a].pend
    BY <1>0 DEF Fields
  <2>2. Go(a, s) /\ UNCHANGED <<dirs, files, db>> /\ act[a].pc = "folderlook"
    BY <1>2 DEF FolderLook, Goto, disk
  <2> HIDE DEF s
  <2>3. Stage(s, dirs, DOMAIN files, db)
    BY <2>1, <2>2 DEF Stands, Stage, AtRest, AtFolder, Loaded
  <2>4. s.pc # "idle"
    BY <2>1
  <2>5. QED
    BY <2>2, <2>3, <2>4, LeadsOn
<1>3. QED
  BY <1>1, <1>2

\* The record of a file that is not there is deleted already.
LEMMA GoneLeads ==
  ASSUME NEW r, Here(r), NEW a \in Threads, Stands(a), SyncFileGone(a)
  PROVE  Leads(a)
<1> DEFINE p == act[a].path
           I == {i \in ImagesAt(db, p) : db.images[i].status = "active"}
           F == {db.images[i].folder : i \in I}
           w == {SetImage(i, "status", "deleted") : i \in I}
           s == [act[a] EXCEPT !.pend = w]
<1>0. DOMAIN act[a] = Fields /\ act[a].pc = "gone" /\ UNCHANGED <<dirs, files, db>>
  BY RowsHere DEF SyncFileGone, disk
<1>1. p \notin DOMAIN files /\ Tidy(dirs, DOMAIN files, db)
  BY <1>0 DEF Stands, Stage
<1>2. I = {}
  BY <1>1 DEF Tidy, InStep, ImagesAt
<1>3. F = {} /\ w = {}
  BY <1>2
<1>4. ToCommit(a, s)
  BY <1>3 DEF SyncFileGone
<1>5. s.pend = {}
  BY <1>0, <1>3 DEF Fields
<1>6. End(a)
  BY <1>4, <1>5 DEF ToCommit
<1>7. QED
  BY <1>0, <1>1, <1>6, LeadsToRest

LEMMA HaveLeads ==
  ASSUME NEW r, Here(r), NEW a \in Threads, Stands(a), SyncFileHave(a)
  PROVE  Leads(a)
<1> DEFINE p == act[a].path
           P == DOMAIN files
           I == ImagesAt(db, p)
           i == TheImage(db, p)
           F == DeletedRun(db, db.images[i].folder)
           w == {SetImage(i, "status", "active")} \cup Undelete(F)
           s == [act[a] EXCEPT !.pc = "chain"]
           t == [act[a] EXCEPT !.pc = "put", !.id = i]
           u == [act[a] EXCEPT !.pend = w]
           c == [act[a] EXCEPT !.pc = "commit", !.pend = w]
<1>0. /\ DOMAIN act[a] = Fields /\ act[a].pc = "have" /\ UNCHANGED <<dirs, files, db>>
      /\ RowsOK(db) /\ Keyed(db)
  BY RowsHere DEF SyncFileHave, disk
<1>1. /\ Tidy(dirs, P, db) \/ (act[a].op # "lookup" /\ p \in P /\ Tidy(dirs, P \ {p}, db))
      /\ act[a].op # "lookup" => p \in P
      /\ act[a].op = "movefile" => Loaded(act[a], db) /\ act[a].to # act[a].rec.src
                                   /\ p = ParentOf(act[a].to)
  BY <1>0 DEF Stands, Stage
<1>2. I # {} => i \in I
  BY ImageFound
<1>3. \A k \in I : k \in DOMAIN db.images /\ db.images[k].src = p
                   /\ db.images[k].folder \in DOMAIN db.folders
                   /\ \A j \in DOMAIN db.images : db.images[j].src = p => j = k
  BY <1>0 DEF ImagesAt, Keyed
<1>4. \/ I = {} /\ p \in P /\ Go(a, s)
      \/ I # {} /\ db.images[i].status = "active" /\ act[a].op = "lookup" /\ Go(a, t)
      \/ I # {} /\ db.images[i].status = "active" /\ act[a].op # "lookup" /\ End(a)
      \/ /\ I # {} /\ db.images[i].status = "deleted" /\ act[a].op # "lookup" /\ p \in P
         /\ \A f \in F : db.folders[f].path \in dirs
         /\ Go(a, c)
      \/ /\ \/ I = {} /\ p \notin P
            \/ /\ I # {} /\ db.images[i].status = "deleted"
               /\ \/ act[a].op = "lookup"
                  \/ p \notin P
                  \/ p \in P /\ \E f \in F : db.folders[f].path \notin dirs
         /\ End(a)
  BY DEF SyncFileHave, Goto
<1> HIDE DEF i, F
<1>5. CASE I = {} /\ p \in P /\ Go(a, s)
  <2>1. Tidy(dirs, P, db)
    <3>1. ASSUME Tidy(dirs, P \ {p}, db) PROVE InStep(dirs, P, db)
      BY <1>5, <3>1 DEF Tidy, InStep, ImagesAt
    <3>2. QED
      BY <1>1, <3>1 DEF Tidy
  <2>2. s.pc = "chain" /\ s.op = act[a].op /\ s.path = p /\ s.id = act[a].id
        /\ s.rec = act[a].rec /\ s.to = act[a].to
    BY <1>0 DEF Fields
  <2> HIDE DEF s
  <2>3. Stage(s, dirs, P, db)
    BY <1>1, <1>5, <2>1, <2>2 DEF Stage, AtRest, AtFolder, Loaded
  <2>4. QED
    BY <1>0, <1>5, <2>2, <2>3, LeadsOn
<1>6. CASE act[a].op = "lookup" /\ I # {} /\ Go(a, t)
  <2>1. t.pc = "put" /\ t.op = "lookup"
    BY <1>0, <1>6 DEF Fields
  <2> HIDE DEF t
  <2>2. Stage(t, dirs, P, db)
    BY <1>1, <1>6, <2>1 DEF Stage, AtRest, AtFolder
  <2>3. QED
    BY <1>0, <1>6, <2>1, <2>2, LeadsOn
<1>7. CASE I # {} /\ db.images[i].status = "active" /\ act[a].op # "lookup" /\ End(a)
  <2>1. Tidy(dirs, P, db)
    <3>1. ASSUME Tidy(dirs, P \ {p}, db) PROVE FALSE
      BY <1>2, <1>3, <1>7, <3>1 DEF Tidy, InStep
    <3>2. QED
      BY <1>1, <3>1
  <2>2. QED
    BY <1>0, <1>7, <2>1, LeadsToRest
<1>8. CASE /\ I # {} /\ db.images[i].status = "deleted" /\ act[a].op # "lookup" /\ p \in P
           /\ \A f \in F : db.folders[f].path \in dirs
           /\ Go(a, c)
  <2>1. Tidy(dirs, P \ {p}, db)
    <3>1. ASSUME Tidy(dirs, P, db) PROVE FALSE
      BY <1>2, <1>3, <1>8, <3>1 DEF Tidy, InStep
    <3>2. QED
      BY <1>1, <3>1
  <2>2. Filed(db, r)
    BY <2>1, RowsHere DEF Tidy
  <2>3. F \subseteq DOMAIN db.folders
        /\ (db.folders[db.images[i].folder].status = "deleted" => db.images[i].folder \in F)
    BY <1>0, <1>2, <1>3, <1>8, RunIsDeleted DEF F
  <2>4. Climbing(db, F)
    BY <1>2, <1>3, <1>8, <2>2, <2>3, RunIsClosed DEF F, Climbing
  <2>5. w = Marks({i}, F, "active")
    BY DEF Marks, Undelete
  <2>6. Accepted(db, w) /\ Tidy(dirs, P, Apply(db, w))
    <3> DEFINE J == {i}
    <3>1. J \subseteq DOMAIN db.images /\ RowsOK(db) /\ Keyed(db) /\ Nested(db) /\ WellFiled(db)
      BY <1>0, <1>2, <1>3, <1>8, <2>1 DEF Tidy
    <3>2. \A k \in J : \/ db.images[k].folder \in F
                       \/ db.folders[db.images[k].folder].status = "active"
      BY <1>2, <1>3, <1>8, <2>3, RowsHere DEF Statuses
    <3>3. \A k \in J : db.images[k].src \in P
      BY <1>2, <1>3, <1>8
    <3>4. \A k \in DOMAIN db.images \ J : db.images[k].status = "active" <=> db.images[k].src \in P
      BY <1>2, <1>3, <1>8, <2>1 DEF Tidy, InStep
    <3>5. \A j \in DOMAIN db.folders : db.folders[j].status = "active" => db.folders[j].path \in dirs
      BY <2>1 DEF Tidy, InStep
    <3> HIDE DEF J
    <3>6. Accepted(db, Marks(J, F, "active")) /\ Tidy(dirs, P, Apply(db, Marks(J, F, "active")))
      BY <1>8, <2>4, <3>1, <3>2, <3>3, <3>4, <3>5, Undeleted
    <3>7. QED
      BY <2>5, <3>6 DEF J
  <2>7. EndsTidy(w, dirs, P, db)
    BY <2>6, TidyEnds
  <2> HIDE DEF w
  <2>8. c.pc = "commit" /\ c.pend = w /\ c.op = act[a].op /\ c.id = act[a].id
        /\ c.rec = act[a].rec /\ c.to = act[a].to /\ c.path = p
    BY <1>0 DEF Fields
  <2> HIDE DEF c
  <2>9. Stage(c, dirs, P, db)
    BY <1>1, <2>7, <2>8 DEF Stage, AtRest, AtFolder, Loaded
  <2>10. QED
    BY <1>0, <1>8, <2>8, <2>9, LeadsOn
<1>9. CASE /\ \/ I = {} /\ p \notin P
              \/ /\ I # {} /\ db.images[i].status = "deleted"
                 /\ \/ act[a].op = "lookup"
                    \/ p \notin P
                    \/ p \in P /\ \E f \in F : db.folders[f].path \notin dirs
           /\ End(a)
  <2>1. CASE act[a].op = "lookup" \/ p \notin P
    <3>1. Tidy(dirs, P, db)
      BY <1>1, <2>1
    <3>2. QED
      BY <1>0, <1>9, <3>1, LeadsToRest
  <2>2. CASE I # {} /\ p \in P /\ \E f \in F : db.folders[f].path \notin dirs
    <3>1. Filed(db, r)
      BY <1>1, RowsHere DEF Tidy
    <3> DEFINE g == db.images[i].folder
    <3>2. g \in DOMAIN db.folders /\ db.folders[g].path = ParentOf(p)
      BY <1>2, <1>3, <2>2, <3>1 DEF Filed, WellFiled
    <3>3. \A f \in F : f \in DOMAIN db.folders /\ IsPrefix(db.folders[f].path, ParentOf(p))
      BY <3>1, <3>2, RunIsAbove DEF F, Filed
    <3>4. p \in Paths /\ DiskInv
      BY <2>2 DEF Here, DiskInv, Paths
    <3>5. p \in Seq(Names) /\ ParentOf(p) \in Seq(Names) /\ IsPrefix(ParentOf(p), p)
      BY <3>4, PathFacts, ParentFacts
    <3>6. ASSUME NEW f \in F PROVE db.folders[f].path \in dirs
      <4>1. db.folders[f].path \in FolderPaths /\ db.folders[f].path \in Seq(Names)
        BY <3>1, <3>3, <3>6, ParentRow
      <4>2. IsPrefix(db.folders[f].path, p)
        BY <3>3, <3>5, <3>6, <4>1, PrefixTrans
      <4>3. QED
        BY <2>2, <3>4, <4>1, <4>2, AboveOnDisk
    <3>7. QED
      BY <2>2, <3>6
  <2>3. QED
    BY <1>9, <2>1, <2>2
<1>10. QED
  BY <1>4, <1>5, <1>6, <1>7, <1>8, <1>9

LEMMA AboveOf ==
  ASSUME NEW d, RowsOK(d), NEW p \in FolderPaths, NEW e, Extended(d, e, MissingFolders(d, p))
  PROVE  /\ FoldersAt(e, p) # {}
         /\ TheFolder(e, p) \in DOMAIN e.folders /\ e.folders[TheFolder(e, p)].path = p
         /\ \A q \in MissingFolders(d, p) : q \in FolderPaths /\ IsPrefix(q, p)
<1>1. FoldersAt(e, p) # {}
  <2>1. CASE p \in MissingFolders(d, p)
    BY <2>1 DEF Extended, FoldersAt
  <2>2. CASE p \notin MissingFolders(d, p)
    <3>1. FoldersAt(d, p) # {}
      BY <2>2, PathFacts, PrefixSelf DEF MissingFolders
    <3>2. QED
      BY <3>1 DEF Extended, FoldersAt
  <2>3. QED
    BY <2>1, <2>2
<1>2. QED
  BY <1>1, FolderFound DEF MissingFolders

LEMMA ChainLeads ==
  ASSUME NEW r, Here(r), NEW a \in Threads, Stands(a), CreateFolders(a)
  PROVE  Leads(a)
<1> DEFINE o == act[a].path
           p == ParentOf(o)
           e == WithFolders(db, p)
           P == DOMAIN files
           s == [act[a] EXCEPT !.pc = "insert", !.fid = TheFolder(e, p)]
<1>0. /\ DOMAIN act[a] = Fields /\ act[a].pc = "chain" /\ UNCHANGED <<dirs, files>>
      /\ RowsOK(db) /\ Keyed(db) /\ db' = e /\ HaveFolderIds(db, p) /\ Go(a, s)
      /\ o \in FilePaths
  BY RowsHere DEF CreateFolders, disk, Here, SessionsInv, Shape, AtFile
<1>1. /\ Tidy(dirs, P, db) /\ o \in P /\ ImagesAt(db, o) = {}
      /\ act[a].op = "movefile" => Loaded(act[a], db) /\ act[a].to # act[a].rec.src
                                   /\ o = ParentOf(act[a].to)
  BY <1>0 DEF Stands, Stage, AtRest
<1>2. p \in FolderPaths /\ o \in Seq(Names) /\ p \in Seq(Names) /\ IsPrefix(p, o)
  BY <1>0, PathFacts, ParentFacts DEF Paths
<1>3. Extended(db, e, MissingFolders(db, p)) /\ e.images = db.images
  <2>1. Extended(db, e, MissingFolders(db, p))
    BY <1>0, <1>2, WithFoldersExtends DEF Here, RowsInv
  <2>2. QED
    BY <2>1 DEF Extended
<1>4. \A q \in MissingFolders(db, p) : q \in dirs
  <2> SUFFICES ASSUME NEW q \in MissingFolders(db, p) PROVE q \in dirs
    OBVIOUS
  <2>1. q \in FolderPaths /\ IsPrefix(q, p) /\ q \in Seq(Names)
    BY PathFacts DEF MissingFolders
  <2>2. IsPrefix(q, o)
    BY <1>2, <2>1, PrefixTrans
  <2>3. QED
    BY <1>1, <2>1, <2>2, AboveOnDisk DEF Here
<1> HIDE DEF e
<1>5. TheFolder(e, p) \in DOMAIN e.folders /\ e.folders[TheFolder(e, p)].path = p
  BY <1>0, <1>2, <1>3, AboveOf
<1>6. ASSUME Shown(db, e) PROVE Stage(s, dirs, P, e)
  <2>1. Tidy(dirs, P, e)
    BY <1>0, <1>1, <1>3, <1>4, <1>6, ExtendedIsTidy
  <2>2. ImagesAt(e, o) = {}
    BY <1>1, <1>3 DEF ImagesAt
  <2>3. s.pc = "insert" /\ s.op = act[a].op /\ s.path = o /\ s.fid = TheFolder(e, p)
        /\ s.id = act[a].id /\ s.rec = act[a].rec /\ s.to = act[a].to
    BY <1>0 DEF Fields
  <2> HIDE DEF s
  <2>4. QED
    BY <1>1, <1>3, <1>5, <2>1, <2>2, <2>3 DEF Stage, AtRest, AtFolder, Loaded
<1>7. s.pc # "idle"
  BY <1>0 DEF Fields
<1>8. QED
  BY <1>0, <1>6, <1>7, LeadsOn

LEMMA InsertLeads ==
  ASSUME NEW r, Here(r), NEW a \in Threads, Stands(a), InsertImage(a)
  PROVE  Leads(a)
<1> DEFINE o   == act[a].path
           P   == DOMAIN files
           new == [src |-> o, folder |-> act[a].fid, status |-> "active"]
           i   == next.image
           e   == [db EXCEPT !.images = [k \in DOMAIN db.images \cup {i} |->
                       IF k = i THEN new ELSE db.images[k]]]
           s   == [act[a] EXCEPT !.pc = "have", !.again = TRUE]
           t   == [act[a] EXCEPT !.pc = "put", !.id = i]
<1>0. /\ DOMAIN act[a] = Fields /\ act[a].pc = "insert" /\ UNCHANGED <<dirs, files>>
      /\ RowsOK(db) /\ Keyed(db) /\ i \notin DOMAIN db.images
  BY RowsHere DEF InsertImage, disk, Here, RowsInv
<1>1. /\ Tidy(dirs, P, db) /\ o \in P /\ ImagesAt(db, o) = {}
      /\ act[a].fid \in DOMAIN db.folders /\ db.folders[act[a].fid].path = ParentOf(o)
      /\ act[a].op = "movefile" => Loaded(act[a], db) /\ act[a].to # act[a].rec.src
                                   /\ o = ParentOf(act[a].to)
  BY <1>0 DEF Stands, Stage, AtRest
<1>2. \/ db' = e /\ act[a].op = "lookup" /\ Go(a, t)
      \/ db' = e /\ End(a)
      \/ db' = db /\ Go(a, s)
      \/ db' = db /\ End(a)
  BY DEF InsertImage
<1>3. new.src = o /\ new.folder = act[a].fid /\ new.status = "active"
  OBVIOUS
<1> HIDE DEF new
<1>4. /\ e.folders = db.folders /\ DOMAIN e.images = DOMAIN db.images \cup {i}
      /\ e.images[i] = new /\ \A k \in DOMAIN db.images : e.images[k] = db.images[k]
  BY <1>0 DEF RowsOK
<1> HIDE DEF e, i
<1>5. ASSUME Shown(db, e) PROVE Tidy(dirs, P, e)
  <2>1. InStep(dirs, P, e)
    BY <1>0, <1>1, <1>3, <1>4 DEF Tidy, InStep
  <2>2. WellFiled(e)
    BY <1>0, <1>1, <1>3, <1>4 DEF Tidy, WellFiled
  <2>3. HeldNested(db, e)
    BY <1>0, <1>1, <1>3, <1>4 DEF Tidy, Nested, HeldNested
  <2>4. QED
    BY <1>5, <2>1, <2>2, <2>3, ShownIsNested DEF Tidy
<1>6. CASE db' = e /\ act[a].op = "lookup" /\ Go(a, t)
  <2>1. t.pc = "put" /\ t.op = "lookup"
    BY <1>0, <1>6 DEF Fields
  <2> HIDE DEF t
  <2>2. Shown(db, e) => Stage(t, dirs, P, e)
    BY <1>5, <2>1 DEF Stage, AtRest, AtFolder
  <2>3. QED
    BY <1>0, <1>6, <2>1, <2>2, LeadsOn
<1>7. CASE db' = e /\ End(a)
  BY <1>0, <1>5, <1>7, LeadsToRest
<1>8. CASE db' = db /\ Go(a, s)
  <2>1. s.pc = "have" /\ s.op = act[a].op /\ s.path = o
        /\ s.id = act[a].id /\ s.rec = act[a].rec /\ s.to = act[a].to
    BY <1>0 DEF Fields
  <2> HIDE DEF s
  <2>2. Stage(s, dirs, P, db)
    BY <1>1, <2>1 DEF Stage, AtRest, AtFolder, Loaded
  <2>3. QED
    BY <1>0, <1>8, <2>1, <2>2, LeadsOn
<1>9. CASE db' = db /\ End(a)
  BY <1>0, <1>1, <1>9, LeadsToRest
<1>10. QED
  BY <1>2, <1>6, <1>7, <1>8, <1>9

LEMMA PutLeads ==
  ASSUME NEW a \in Threads, Stands(a), PutId(a)
  PROVE  Leads(a)
<1>1. act[a].pc = "put" /\ End(a) /\ UNCHANGED <<dirs, files, db>>
  BY DEF PutId, disk
<1>2. Tidy(dirs, DOMAIN files, db)
  BY <1>1 DEF Stands, Stage, AtRest
<1>3. QED
  BY <1>1, <1>2, LeadsToRest

-----------------------------------------------------------------------------
(* The steps of auto_sync_folder, and the commit. *)

\* A folder that is not there has no active record.
LEMMA NoFolderToDelete ==
  ASSUME NEW r, Here(r), NEW a \in Threads, Stands(a), FolderGone(a)
  PROVE  {f \in FoldersAt(View(a), act[a].path) : View(a).folders[f].status = "active"} = {}
<1>1. act[a].pc = "foldergone" /\ RowsOK(db)
  BY RowsHere DEF FolderGone
<1>2. act[a].pend = {} /\ act[a].path \notin dirs /\ Tidy(dirs, DOMAIN files, db)
  BY <1>1 DEF Stands, Stage, AtRest, AtFolder
<1>3. Alike(db, View(a))
  BY <1>1, <1>2, NothingApplied DEF View
<1>4. QED
  BY <1>2, <1>3 DEF Alike, FoldersAt, Tidy, InStep

LEMMA FolderGoneLeads ==
  ASSUME NEW r, Here(r), NEW a \in Threads, Stands(a), FolderGone(a)
  PROVE  Leads(a)
<1> DEFINE F == {f \in FoldersAt(View(a), act[a].path) : View(a).folders[f].status = "active"}
           x == {SetFolder(f, "status", "deleted") : f \in F}
<1>1. act[a].pc = "foldergone" /\ UNCHANGED <<dirs, files, db>>
  BY DEF FolderGone, disk
<1>2. act[a].pend = {} /\ Tidy(dirs, DOMAIN files, db)
  BY <1>1 DEF Stands, Stage, AtRest, AtFolder
<1>3. F = {}
  BY NoFolderToDelete
<1>4. act[a].pend \cup x = {} => End(a)
  BY DEF FolderGone
<1> HIDE DEF F
<1>5. End(a)
  BY <1>2, <1>3, <1>4
<1>6. QED
  BY <1>1, <1>2, <1>5, LeadsToRest

LEMMA CommitLeads ==
  ASSUME NEW r, Here(r), NEW a \in Threads, Stands(a), Commit(a), ~Fault
  PROVE  Leads(a)
<1> DEFINE w == act[a].pend
           e == Apply(db, w)
<1>1. /\ act[a].pc = "commit" /\ UNCHANGED <<dirs, files>> /\ End(a)
      /\ db' = IF Accepted(db, w) THEN e ELSE db
  BY DEF Commit, disk, CanCommit, Accepted, View
<1>2. EndsTidy(w, dirs, DOMAIN files, db)
  BY <1>1 DEF Stands, Stage
<1> HIDE DEF w
<1>3. CASE Accepted(db, w)
  <2>1. db' = e
    BY <1>1, <1>3
  <2> HIDE DEF e
  <2>2. InStep(dirs, DOMAIN files, e) /\ WellFiled(e) /\ HeldNested(db, e)
    BY <1>2, <1>3 DEF EndsTidy, e
  <2>3. Shown(db, e) => Tidy(dirs, DOMAIN files, e)
    BY <2>2, ShownIsNested DEF Tidy
  <2>4. QED
    BY <1>1, <2>1, <2>3, LeadsToRest
<1>4. CASE ~Accepted(db, w)
  BY <1>1, <1>2, <1>4, LeadsToRest DEF EndsTidy
<1>5. QED
  BY <1>3, <1>4

LEMMA ReadyForTarget ==
  ASSUME NEW d, RowsOK(d), NEW s, NEW D, NEW P, s.pend = {}, Tidy(D, P, d), Keyed(d),
         s.fid \in DOMAIN d.folders, d.folders[s.fid].path = ParentOf(s.to),
         d.folders[s.fid].status = "active"
  PROVE  Ready(s, D, P, d)
<1> DEFINE e == Apply(d, s.pend)
<1>1. Alike(d, e)
  BY NothingApplied
<1> HIDE DEF e
<1>2. Tidy(D, P, e) /\ Keyed(e)
  BY <1>1, AlikeRows DEF Tidy
<1>3. s.fid \in DOMAIN e.folders /\ e.folders[s.fid].path = ParentOf(s.to)
      /\ e.folders[s.fid].status = "active"
  BY <1>1 DEF Alike
<1>4. QED
  BY <1>2, <1>3 DEF Ready, e

LEMMA AlikeShown ==
  ASSUME NEW d, NEW v, NEW e, Alike(d, v), Shown(d, e)
  PROVE  Shown(v, e)
BY DEF Alike, Shown

\* The folder of a row, and the deleted ones above it, are undeleted.
LEMMA FolderUndeleted ==
  ASSUME NEW d, RowsOK(d), Keyed(d), NEW r, RootRow(d, r), NEW D, NEW P, Tidy(D, P, d),
         NEW v, RowsOK(v), Alike(d, v), NEW f \in DOMAIN v.folders,
         \A g \in DeletedRun(v, f) : v.folders[g].path \in D
  PROVE  LET e == Apply(d, Undelete(DeletedRun(v, f)))
         IN  /\ Accepted(d, Undelete(DeletedRun(v, f))) /\ Tidy(D, P, e) /\ Keyed(e)
             /\ f \in DOMAIN e.folders /\ e.folders[f].path = v.folders[f].path
             /\ e.folders[f].status = "active"
<1> DEFINE F == DeletedRun(v, f)
           w == Undelete(F)
           e == Apply(d, w)
           I == {i \in DOMAIN d.images : FALSE}
<1>1. /\ Keyed(v) /\ WellFiled(v) /\ RootRow(v, r) /\ Filed(v, r)
      /\ \A j \in DOMAIN v.folders : v.folders[j].status \in Statuses
  <2>1. Keyed(v) /\ WellFiled(v) /\ RootRow(v, r)
    BY AlikeRows DEF Tidy
  <2>2. QED
    BY <2>1 DEF Filed, RowsOK, Folder, Statuses
<1>2. /\ F \subseteq DOMAIN v.folders
      /\ v.folders[f].status = "deleted" => f \in F
  BY <1>1, RunIsDeleted
<1>3. Climbing(v, F)
  BY <1>1, <1>2, RunIsClosed DEF Climbing
<1> HIDE DEF F
<1>4. Climbing(d, F) /\ F \subseteq DOMAIN d.folders
  <2>1. F \subseteq DOMAIN d.folders
    BY <1>2 DEF Alike
  <2>2. ASSUME NEW j \in F, d.folders[j].parent # NoId, 
               d.folders[d.folders[j].parent].status = "deleted"
        PROVE  d.folders[j].parent \in F
    <3>1. j \in DOMAIN d.folders /\ d.folders[j].parent \in DOMAIN d.folders
      BY <2>1, <2>2 DEF Keyed
    <3>2. v.folders[j].parent = d.folders[j].parent
          /\ v.folders[v.folders[j].parent].status = "deleted"
      BY <2>2, <3>1 DEF Alike
    <3>3. QED
      BY <1>3, <2>2, <3>2 DEF Climbing
  <2>3. QED
    BY <2>1, <2>2 DEF Climbing
<1>5. w = Marks(I, F, "active")
  BY DEF Marks, Undelete
<1>6. Accepted(d, w) /\ Tidy(D, P, e)
  <2>1. /\ I \subseteq DOMAIN d.images /\ \A i \in I : FALSE
        /\ \A i \in DOMAIN d.images \ I : d.images[i].status = "active" <=> d.images[i].src \in P
        /\ \A j \in DOMAIN d.folders : d.folders[j].status = "active" => d.folders[j].path \in D
    BY DEF Tidy, InStep
  <2>2. \A j \in F : d.folders[j].path \in D
    BY <1>4 DEF Alike, F
  <2> HIDE DEF I
  <2>3. Accepted(d, Marks(I, F, "active")) /\ Tidy(D, P, Apply(d, Marks(I, F, "active")))
    <3>1. Nested(d) /\ WellFiled(d)
      BY DEF Tidy
    <3>2. QED
      BY <1>4, <2>1, <2>2, <3>1, Undeleted
  <2>4. QED
    BY <1>5, <2>3
<1>7. IsMarked(d, I, F, "active", e)
  <2>1. I \subseteq DOMAIN d.images /\ "active" \in Statuses
    BY DEF Statuses
  <2> HIDE DEF I
  <2>2. QED
    BY <1>4, <1>5, <2>1, Marked
<1>8. f \in DOMAIN d.folders /\ d.folders[f] = v.folders[f]
  BY DEF Alike
<1> HIDE DEF e
<1>9. f \in DOMAIN e.folders /\ e.folders[f].path = v.folders[f].path
      /\ e.folders[f].status = "active" /\ Keyed(e)
  BY <1>1, <1>2, <1>7, <1>8 DEF IsMarked, SameRecords, Statuses
<1>10. QED
  BY <1>6, <1>9 DEF e, w, F

LEMMA FolderHaveLeads ==
  ASSUME NEW r, Here(r), NEW a \in Threads, Stands(a), FolderHave(a)
  PROVE  Leads(a)
<1> DEFINE p  == act[a].path
           P  == DOMAIN files
           v  == View(a)
           M  == MissingFolders(v, p)
           f  == TheFolder(v, p)
           F  == DeletedRun(v, f)
           e  == WithFolders(v, p)
           w  == Undelete(F)
           moves == act[a].op = "movefile"
           s  == [act[a] EXCEPT !.pend = {}, !.fid = TheFolder(e, p)]
           t  == [act[a] EXCEPT !.fid = f, !.pend = act[a].pend \cup w]
           x  == [s EXCEPT !.pc = "mv_check"]
           y  == [t EXCEPT !.pc = "mv_check"]
<1>0. /\ DOMAIN act[a] = Fields /\ act[a].pc = "folderhave" /\ UNCHANGED <<dirs, files>>
      /\ RowsOK(db) /\ Keyed(db) /\ RootRow(db, r) /\ p \in FolderPaths
  BY RowsHere DEF FolderHave, disk, Here, SessionsInv, Shape, AtFolder
<1>1. /\ Tidy(dirs, P, db) /\ act[a].pend = {} /\ p \in dirs
      /\ moves => Loaded(act[a], db) /\ act[a].to # act[a].rec.src /\ p = ParentOf(act[a].to)
  BY <1>0 DEF Stands, Stage, AtRest, AtFolder
<1>2. RowsOK(v) /\ Alike(db, v)
  BY <1>0, <1>1, NothingApplied DEF View
<1>3. Keyed(v) /\ Tidy(dirs, P, v) /\ RootRow(v, r)
  BY <1>0, <1>1, <1>2, AlikeRows DEF Tidy
<1>4. s.op = act[a].op /\ t.op = act[a].op
  BY <1>0 DEF Fields
<1>5. \/ M # {} /\ M \subseteq dirs /\ HaveFolderIds(v, p) /\ db' = e
         /\ IF moves THEN Go(a, x) ELSE ToCommit(a, s)
      \/ M = {} /\ (\A g \in F : v.folders[g].path \in dirs) /\ db' = db
         /\ IF moves THEN Go(a, y) ELSE ToCommit(a, t)
      \/ End(a) /\ db' = db
  BY <1>4 DEF FolderHave
<1>6. CASE M # {} /\ M \subseteq dirs /\ HaveFolderIds(v, p) /\ db' = e
           /\ IF moves THEN Go(a, x) ELSE ToCommit(a, s)
  <2>1. Extended(v, e, M)
    <3>1. next.folder \in Nat \ {0} /\ DOMAIN next = {"image", "folder"}
          /\ \A i \in DOMAIN v.folders : i < next.folder
      BY <1>2 DEF Here, RowsInv, Alike
    <3> HIDE DEF v
    <3>2. QED
      BY <1>0, <1>2, <1>6, <3>1, WithFoldersExtends
  <2>2. p \in M
    BY <1>0, <1>2, <1>3, <1>6, MissingWithItsParents DEF Tidy
  <2>3. FoldersAt(e, p) # {} /\ TheFolder(e, p) \in DOMAIN e.folders
        /\ e.folders[TheFolder(e, p)].path = p
    <3> HIDE DEF v, e
    <3>1. QED
      BY <1>0, <1>2, <2>1, AboveOf
  <2>4. e.folders[TheFolder(e, p)].status = "active"
    <3> HIDE DEF e
    <3>1. Keyed(e)
      BY <1>2, <1>3, <2>1, ExtendedIsKeyed
    <3>2. PICK i \in DOMAIN e.folders : e.folders[i].path = p /\ e.folders[i].status = "active"
      BY <2>1, <2>2 DEF Extended
    <3>3. QED
      BY <2>3, <3>1, <3>2 DEF Keyed
  <2>5. Shown(db, e) => Tidy(dirs, P, e)
    <3> HIDE DEF v, e
    <3>1. \A q \in M : q \in dirs
      BY <1>6
    <3>2. Shown(db, e) => Shown(v, e)
      BY <1>2, AlikeShown
    <3>3. QED
      BY <1>2, <1>3, <2>1, <3>1, <3>2, ExtendedIsTidy
  <2>6. CASE ~moves
    <3>1. s.pend = {}
      BY <1>0 DEF Fields
    <3>2. End(a)
      BY <1>6, <2>6, <3>1 DEF ToCommit
    <3> HIDE DEF e
    <3>3. QED
      BY <1>0, <1>6, <2>5, <3>2, LeadsToRest
  <2>7. CASE moves
    <3>1. /\ x.pc = "mv_check" /\ x.op = "movefile" /\ x.path = p /\ x.fid = TheFolder(e, p)
          /\ x.id = act[a].id /\ x.rec = act[a].rec /\ x.to = act[a].to /\ x.pend = {}
      BY <1>0, <2>7 DEF Fields
    <3>2. e.images = v.images /\ RowsOK(e)
      BY <2>1 DEF Extended
    <3>3. Keyed(e)
      BY <1>2, <1>3, <2>1, ExtendedIsKeyed
    <3>4. Go(a, x)
      BY <1>6, <2>7
    <3> HIDE DEF x, e, v
    <3>5. Loaded(x, e)
      BY <1>1, <1>2, <2>7, <3>1, <3>2 DEF Loaded, Alike
    <3>6. ASSUME Shown(db, e) PROVE Stage(x, dirs, P, e)
      <4>1. Tidy(dirs, P, e)
        BY <2>5, <3>6
      <4>2. x.fid \in DOMAIN e.folders /\ e.folders[x.fid].path = ParentOf(x.to)
            /\ e.folders[x.fid].status = "active"
        BY <1>1, <2>3, <2>4, <2>7, <3>1
      <4>3. Ready(x, dirs, P, e)
        BY <3>1, <3>2, <3>3, <4>1, <4>2, ReadyForTarget
      <4>4. QED
        BY <1>1, <2>7, <3>1, <3>5, <4>1, <4>3 DEF Stage, AtRest, AtFolder
    <3>7. QED
      BY <1>0, <1>6, <3>1, <3>4, <3>6, LeadsOn
  <2>8. QED
    BY <2>6, <2>7
<1>7. CASE M = {} /\ (\A g \in F : v.folders[g].path \in dirs) /\ db' = db
           /\ IF moves THEN Go(a, y) ELSE ToCommit(a, t)
  <2>1. f \in DOMAIN v.folders /\ v.folders[f].path = p
    <3>1. FoldersAt(v, p) # {}
      BY <1>0, <1>7, PathFacts, PrefixSelf DEF MissingFolders
    <3>2. QED
      BY <3>1, FolderFound
  <2> DEFINE d == Apply(db, w)
  <2>2. /\ Accepted(db, w) /\ Tidy(dirs, P, d) /\ Keyed(d)
        /\ f \in DOMAIN d.folders /\ d.folders[f].path = v.folders[f].path
        /\ d.folders[f].status = "active"
    <3> HIDE DEF f, v
    <3>1. QED
      BY <1>0, <1>1, <1>2, <1>7, <2>1, FolderUndeleted
  <2>3. t.pend = w /\ t.fid = f
    BY <1>0, <1>1 DEF Fields
  <2>4. \A u \in w : u[1] # "i"
    BY ChangeFacts DEF Undelete
  <2>5. DOMAIN t = Fields
    BY <1>0 DEF Fields
  <2>6. EndsTidy(w, dirs, P, db)
    BY <2>2, TidyEnds
  <2>7. CASE ~moves
    <3>1. ToCommit(a, t)
      BY <1>7, <2>7
    <3>2. t.op # "movefile"
      BY <1>4, <2>7
    <3>3. /\ t.pend = {} => Tidy(dirs, P, db)
          /\ t.pend # {} => EndsTidy(t.pend, dirs, P, db)
      BY <1>1, <2>3, <2>6
    <3> HIDE DEF t
    <3>4. QED
      BY <1>0, <1>7, <2>5, <3>1, <3>2, <3>3, LeadsToCommit
  <2>8. CASE moves
    <3>1. /\ y.pc = "mv_check" /\ y.op = "movefile" /\ y.path = p /\ y.fid = f
          /\ y.id = act[a].id /\ y.rec = act[a].rec /\ y.to = act[a].to /\ y.pend = w
      BY <1>0, <2>8, <2>3 DEF Fields
    <3>2. Go(a, y)
      BY <1>7, <2>8
    <3> HIDE DEF y, f, w, v, t
    <3>3. Loaded(y, db)
      BY <1>1, <2>8, <3>1 DEF Loaded
    <3>4. Ready(y, dirs, P, db)
      BY <1>1, <2>1, <2>2, <2>4, <2>8, <3>1 DEF Ready
    <3>5. Stage(y, dirs, P, db)
      BY <1>1, <2>8, <3>1, <3>3, <3>4 DEF Stage, AtRest, AtFolder
    <3>6. QED
      BY <1>0, <1>7, <3>1, <3>2, <3>5, LeadsOn
  <2>9. QED
    BY <2>7, <2>8
<1>8. CASE End(a) /\ db' = db
  BY <1>0, <1>1, <1>8, LeadsToRest
<1>9. QED
  BY <1>5, <1>6, <1>7, <1>8

-----------------------------------------------------------------------------
(* The steps of move_file.                                                   *)

\* x has the rows of e without the images J.
Without(e, x, J) ==
    /\ DOMAIN x.images = DOMAIN e.images \ J /\ DOMAIN x.folders = DOMAIN e.folders
    /\ \A i \in DOMAIN x.images : /\ x.images[i].src = e.images[i].src
                                  /\ x.images[i].folder = e.images[i].folder
                                  /\ x.images[i].status = e.images[i].status
    /\ \A i \in DOMAIN x.folders : /\ x.folders[i].path = e.folders[i].path
                                   /\ x.folders[i].parent = e.folders[i].parent
                                   /\ x.folders[i].status = e.folders[i].status

LEMMA FieldSame ==
  ASSUME NEW v, NEW w, NEW t, NEW i, NEW f, NEW old,
         \A u : u[1] = t /\ u[2] = i /\ u[3] = f => (u \in v <=> u \in w)
  PROVE  Field(v, t, i, f, old) = Field(w, t, i, f, old)
<1> DEFINE A == {u \in v : u[1] = t /\ u[2] = i /\ u[3] = f}
           B == {u \in w : u[1] = t /\ u[2] = i /\ u[3] = f}
<1>1. Field(v, t, i, f, old) = IF A = {} THEN old ELSE (CHOOSE u \in A : TRUE)[4]
  BY DEF Field
<1>2. Field(w, t, i, f, old) = IF B = {} THEN old ELSE (CHOOSE u \in B : TRUE)[4]
  BY DEF Field
<1>3. A = B
  OBVIOUS
<1> HIDE DEF A, B
<1>4. QED
  BY <1>1, <1>2, <1>3

LEMMA ImagesPurged ==
  ASSUME NEW d, NEW w, NEW J
  PROVE  Without(Apply(d, w), Apply(d, w \cup PurgeImages(J)), J)
<1> DEFINE z == PurgeImages(J)
           e == Apply(d, w)
           x == Apply(d, w \cup z)
<1>1. /\ \A u \in z : u[3] = "row" /\ u[1] = "i" /\ u[2] \in J
      /\ \A i \in J : SetImage(i, "row", 0) \in z
  BY ChangeFacts DEF PurgeImages
<1>2. \A i : SetImage(i, "row", 0) \in z => i \in J
  BY <1>1, ChangeFacts
<1>3. \A i : SetFolder(i, "row", 0) \notin z
  BY <1>1, ChangeFacts
<1> HIDE DEF z
<1>4. ASSUME NEW t, NEW i, NEW f, f # "row", NEW old
      PROVE  Field(w \cup z, t, i, f, old) = Field(w, t, i, f, old)
  <2>1. \A u : u[1] = t /\ u[2] = i /\ u[3] = f => (u \in w \cup z <=> u \in w)
    BY <1>1, <1>4
  <2>2. QED
    BY <2>1, FieldSame
<1>5. /\ DOMAIN e.images = {i \in DOMAIN d.images : SetImage(i, "row", 0) \notin w}
      /\ DOMAIN x.images = {i \in DOMAIN d.images : SetImage(i, "row", 0) \notin w \cup z}
      /\ DOMAIN e.folders = {i \in DOMAIN d.folders : SetFolder(i, "row", 0) \notin w}
      /\ DOMAIN x.folders = {i \in DOMAIN d.folders : SetFolder(i, "row", 0) \notin w \cup z}
  BY ApplyIs
<1>6. /\ \A i \in DOMAIN e.images :
             /\ e.images[i].src = Field(w, "i", i, "src", d.images[i].src)
             /\ e.images[i].folder = Field(w, "i", i, "folder", d.images[i].folder)
             /\ e.images[i].status = Field(w, "i", i, "status", d.images[i].status)
      /\ \A i \in DOMAIN e.folders :
             /\ e.folders[i].path = Field(w, "f", i, "path", d.folders[i].path)
             /\ e.folders[i].parent = Field(w, "f", i, "parent", d.folders[i].parent)
             /\ e.folders[i].status = Field(w, "f", i, "status", d.folders[i].status)
  BY ApplyIs
<1>7. /\ \A i \in DOMAIN x.images :
             /\ x.images[i].src = Field(w \cup z, "i", i, "src", d.images[i].src)
             /\ x.images[i].folder = Field(w \cup z, "i", i, "folder", d.images[i].folder)
             /\ x.images[i].status = Field(w \cup z, "i", i, "status", d.images[i].status)
      /\ \A i \in DOMAIN x.folders :
             /\ x.folders[i].path = Field(w \cup z, "f", i, "path", d.folders[i].path)
             /\ x.folders[i].parent = Field(w \cup z, "f", i, "parent", d.folders[i].parent)
             /\ x.folders[i].status = Field(w \cup z, "f", i, "status", d.folders[i].status)
  BY ApplyIs
<1> HIDE DEF e, x
<1>8. DOMAIN x.images = DOMAIN e.images \ J /\ DOMAIN x.folders = DOMAIN e.folders
  BY <1>1, <1>2, <1>3, <1>5
<1>9. ASSUME NEW i \in DOMAIN x.images
      PROVE  /\ x.images[i].src = e.images[i].src
             /\ x.images[i].folder = e.images[i].folder
             /\ x.images[i].status = e.images[i].status
  <2>1. \A old : /\ Field(w \cup z, "i", i, "src", old) = Field(w, "i", i, "src", old)
                 /\ Field(w \cup z, "i", i, "folder", old) = Field(w, "i", i, "folder", old)
                 /\ Field(w \cup z, "i", i, "status", old) = Field(w, "i", i, "status", old)
    BY <1>4
  <2>2. /\ x.images[i].src = Field(w \cup z, "i", i, "src", d.images[i].src)
        /\ x.images[i].folder = Field(w \cup z, "i", i, "folder", d.images[i].folder)
        /\ x.images[i].status = Field(w \cup z, "i", i, "status", d.images[i].status)
    BY <1>7
  <2>3. i \in DOMAIN e.images
    BY <1>8
  <2>4. /\ e.images[i].src = Field(w, "i", i, "src", d.images[i].src)
        /\ e.images[i].folder = Field(w, "i", i, "folder", d.images[i].folder)
        /\ e.images[i].status = Field(w, "i", i, "status", d.images[i].status)
    BY <1>6, <2>3
  <2>5. QED
    BY <2>1, <2>2, <2>4
<1>10. ASSUME NEW i \in DOMAIN x.folders
       PROVE  /\ x.folders[i].path = e.folders[i].path
              /\ x.folders[i].parent = e.folders[i].parent
              /\ x.folders[i].status = e.folders[i].status
  <2>1. \A old : /\ Field(w \cup z, "f", i, "path", old) = Field(w, "f", i, "path", old)
                 /\ Field(w \cup z, "f", i, "parent", old) = Field(w, "f", i, "parent", old)
                 /\ Field(w \cup z, "f", i, "status", old) = Field(w, "f", i, "status", old)
    BY <1>4
  <2>2. /\ x.folders[i].path = Field(w \cup z, "f", i, "path", d.folders[i].path)
        /\ x.folders[i].parent = Field(w \cup z, "f", i, "parent", d.folders[i].parent)
        /\ x.folders[i].status = Field(w \cup z, "f", i, "status", d.folders[i].status)
    BY <1>7
  <2>3. i \in DOMAIN e.folders
    BY <1>8
  <2>4. /\ e.folders[i].path = Field(w, "f", i, "path", d.folders[i].path)
        /\ e.folders[i].parent = Field(w, "f", i, "parent", d.folders[i].parent)
        /\ e.folders[i].status = Field(w, "f", i, "status", d.folders[i].status)
    BY <1>6, <2>3
  <2>5. QED
    BY <2>1, <2>2, <2>4
<1>11. Without(e, x, J)
  BY <1>8, <1>9, <1>10 DEF Without
<1>12. QED
  BY <1>11 DEF e, x, z

LEMMA WithoutIsTidy ==
  ASSUME NEW e, NEW x, NEW J, Without(e, x, J), Keyed(e)
  PROVE  Keyed(x) /\ \A D, P : Tidy(D, P, e) => Tidy(D, P, x)
<1>1. Keyed(x)
  BY DEF Without, Keyed
<1>2. ASSUME NEW D, NEW P, Tidy(D, P, e) PROVE Tidy(D, P, x)
  <2>1. InStep(D, P, x)
    BY <1>2 DEF Without, Tidy, InStep
  <2>2. WellFiled(x)
    BY <1>1, <1>2 DEF Without, Tidy, WellFiled, Keyed
  <2>3. Nested(x)
    BY <1>1, <1>2 DEF Without, Tidy, Nested, Keyed
  <2>4. QED
    BY <2>1, <2>2, <2>3 DEF Tidy
<1>3. QED
  BY <1>1, <1>2

\* The row that is moved is not one of those that have changed.
LEMMA LoadedIsThere ==
  ASSUME NEW d, NEW s, Loaded(s, d), \A u \in s.pend : u[1] = "i" => u[2] # s.id,
         NEW e, e = Apply(d, s.pend)
  PROVE  /\ s.id \in DOMAIN e.images /\ e.images[s.id].src = s.rec.src
         /\ e.images[s.id].status = s.rec.status
<1>1. ~Touches(s.pend, s.id)
  BY DEF Touches
<1>2. s.id \in DOMAIN d.images /\ s.rec = d.images[s.id]
  BY DEF Loaded
<1>3. QED
  BY <1>1, <1>2, Untouched

LEMMA MoveCheckLeads ==
  ASSUME NEW r, Here(r), NEW a \in Threads, Stands(a), MoveFileCheck(a)
  PROVE  Leads(a)
<1> DEFINE P  == DOMAIN files
           to == act[a].to
           e  == Apply(db, act[a].pend)
           J  == ImagesAt(e, to)
           w  == act[a].pend \cup PurgeImages(J)
           x  == Apply(db, w)
           s  == [act[a] EXCEPT !.pc = "mv_disk", !.saw = to \in P, !.pend = w]
<1>0. /\ DOMAIN act[a] = Fields /\ act[a].pc = "mv_check" /\ UNCHANGED <<dirs, files, db>>
      /\ act[a].op = "movefile"
  BY RowsHere DEF MoveFileCheck, disk, Here, SessionsInv, Shape, Moving
<1>1. /\ Tidy(dirs, P, db) /\ Ready(act[a], dirs, P, db) /\ Loaded(act[a], db)
      /\ to # act[a].rec.src /\ act[a].path = ParentOf(to)
  BY <1>0 DEF Stands, Stage, AtRest
<1>2. \/ act[a].rec.src \in P /\ to \notin P /\ Go(a, s)
      \/ End(a)
  BY DEF MoveFileCheck, View
<1>3. CASE to \notin P /\ Go(a, s)
  <2>1. /\ s.pc = "mv_disk" /\ s.op = "movefile" /\ s.path = act[a].path /\ s.fid = act[a].fid
        /\ s.id = act[a].id /\ s.rec = act[a].rec /\ s.to = to /\ s.pend = w
    BY <1>0 DEF Fields
  <2>2. Without(e, x, J)
    BY ImagesPurged
  <2>3. /\ Keyed(e) /\ Tidy(dirs, P, e) /\ s.fid \in DOMAIN e.folders
        /\ e.folders[s.fid].path = ParentOf(to) /\ e.folders[s.fid].status = "active"
        /\ \A u \in act[a].pend : u[1] = "i" => u[2] # act[a].id
    BY <1>1, <2>1 DEF Ready
  <2>4. act[a].id \in DOMAIN e.images /\ e.images[act[a].id].src = act[a].rec.src
    BY <1>1, <2>3, LoadedIsThere
  <2>5. \A u \in w : u[1] = "i" => u[2] # act[a].id
    <3>1. act[a].id \notin J
      BY <1>1, <2>4 DEF ImagesAt
    <3> HIDE DEF J
    <3>2. \A u \in PurgeImages(J) : u[2] \in J
      BY ChangeFacts DEF PurgeImages
    <3>3. QED
      BY <2>3, <3>1, <3>2
  <2>6. ImagesAt(x, to) = {}
    <3> HIDE DEF x, e
    <3>1. QED
      BY <2>2 DEF Without, ImagesAt
  <2>7. Keyed(x) /\ Tidy(dirs, P, x)
    <3> HIDE DEF x, e, J
    <3>1. QED
      BY <2>2, <2>3, WithoutIsTidy
  <2>8. s.fid \in DOMAIN x.folders /\ x.folders[s.fid].path = ParentOf(to)
        /\ x.folders[s.fid].status = "active"
    <3> HIDE DEF x, e, J
    <3>1. QED
      BY <2>2, <2>3 DEF Without
  <2> HIDE DEF w, s
  <2>9. Ready(s, dirs, P, db)
    BY <2>1, <2>5, <2>7, <2>8 DEF Ready
  <2>10. Stage(s, dirs, P, db)
    BY <1>1, <1>3, <2>1, <2>6, <2>9 DEF Stage, AtRest, AtFolder, Loaded
  <2>11. QED
    BY <1>0, <1>3, <2>1, <2>10, LeadsOn
<1>4. CASE End(a)
  BY <1>0, <1>1, <1>4, LeadsToRest
<1>5. QED
  BY <1>2, <1>3, <1>4

LEMMA MoveDiskLeads ==
  ASSUME NEW r, Here(r), NEW a \in Threads, Stands(a), MoveFileDisk(a), ~Fault
  PROVE  Leads(a)
<1> DEFINE P    == DOMAIN files
           from == act[a].rec.src
           to   == act[a].to
           Q    == (P \ {from}) \cup {to}
           s    == [act[a] EXCEPT !.pc = "mv_record"]
<1>0. /\ DOMAIN act[a] = Fields /\ act[a].pc = "mv_disk" /\ UNCHANGED <<dirs, db>>
      /\ act[a].op = "movefile"
  BY RowsHere DEF MoveFileDisk, disk, Here, SessionsInv, Shape, Moving
<1>1. /\ Tidy(dirs, P, db) /\ Ready(act[a], dirs, P, db) /\ Loaded(act[a], db)
      /\ to # from /\ act[a].path = ParentOf(to) /\ to \notin P
      /\ ImagesAt(Apply(db, act[a].pend), to) = {}
  BY <1>0 DEF Stands, Stage, AtRest
<1>2. \/ from \in P /\ files' = Moved(from, to) /\ Go(a, s)
      \/ End(a) /\ UNCHANGED files
  BY DEF MoveFileDisk, Goto
<1>3. CASE from \in P /\ files' = Moved(from, to) /\ Go(a, s)
  <2>1. /\ s.pc = "mv_record" /\ s.op = "movefile" /\ s.path = act[a].path /\ s.fid = act[a].fid
        /\ s.id = act[a].id /\ s.rec = act[a].rec /\ s.to = to /\ s.pend = act[a].pend
    BY <1>0 DEF Fields
  <2>2. DOMAIN files' = Q
    BY <1>3 DEF Moved
  <2> HIDE DEF s
  <2>3. Back(s, Q) = P /\ from \notin Q /\ to \in Q
    BY <1>1, <1>3, <2>1 DEF Back
  <2>4. Ready(s, dirs, P, db)
    BY <1>1, <2>1 DEF Ready
  <2> HIDE DEF Q
  <2>5. Stage(s, dirs, Q, db)
    BY <1>1, <2>1, <2>3, <2>4 DEF Stage, AtRest, AtFolder, Loaded
  <2>6. QED
    BY <1>0, <1>3, <2>1, <2>2, <2>5, LeadsOn
<1>4. CASE End(a) /\ UNCHANGED files
  BY <1>0, <1>1, <1>4, LeadsToRest
<1>5. QED
  BY <1>2, <1>3, <1>4

\* The row i of e has moved to the path to and the folder f.
Relocated(e, x, i, to, f) ==
    /\ DOMAIN x.images = DOMAIN e.images /\ DOMAIN x.folders = DOMAIN e.folders
    /\ \A k \in DOMAIN x.images \ {i} : /\ x.images[k].src = e.images[k].src
                                        /\ x.images[k].folder = e.images[k].folder
                                        /\ x.images[k].status = e.images[k].status
    /\ x.images[i].src = to /\ x.images[i].folder = f /\ x.images[i].status = "active"
    /\ \A k \in DOMAIN x.folders : /\ x.folders[k].path = e.folders[k].path
                                   /\ x.folders[k].parent = e.folders[k].parent
                                   /\ x.folders[k].status = e.folders[k].status

LEMMA RowRelocated ==
  ASSUME NEW d, NEW w, NEW i \in DOMAIN d.images, \A u \in w : u[1] = "i" => u[2] # i,
         NEW to, NEW f, NEW z,
         \/ z = {SetImage(i, "src", to), SetImage(i, "folder", f)}
            /\ d.images[i].status = "active"
         \/ z = {SetImage(i, "src", to), SetImage(i, "folder", f), SetImage(i, "status", "active")}
  PROVE  Relocated(Apply(d, w), Apply(d, w \cup z), i, to, f)
<1> DEFINE e == Apply(d, w)
           x == Apply(d, w \cup z)
<1>1. /\ \A u \in z : /\ u[1] = "i" /\ u[2] = i /\ u[3] # "row"
                      /\ u[3] = "src" => u[4] = to
                      /\ u[3] = "folder" => u[4] = f
                      /\ u[3] = "status" => u[4] = "active"
      /\ SetImage(i, "src", to) \in z /\ SetImage(i, "folder", f) \in z
      /\ SetImage(i, "status", "active") \in z \/ d.images[i].status = "active"
  BY ChangeFacts
<1>2. \A k : SetImage(k, "row", 0) \notin z /\ SetFolder(k, "row", 0) \notin z
  BY <1>1, ChangeFacts
<1>3. ASSUME NEW t, NEW k, NEW g, NEW old, ~(t = "i" /\ k = i)
      PROVE  Field(w \cup z, t, k, g, old) = Field(w, t, k, g, old)
  <2>1. \A u : u[1] = t /\ u[2] = k /\ u[3] = g => (u \in w \cup z <=> u \in w)
    BY <1>1, <1>3
  <2>2. QED
    BY <2>1, FieldSame
<1>4. /\ Field(w \cup z, "i", i, "src", d.images[i].src) = to
      /\ Field(w \cup z, "i", i, "folder", d.images[i].folder) = f
      /\ Field(w \cup z, "i", i, "status", d.images[i].status) = "active"
  <2>1. \A u \in w \cup z : u[1] = "i" /\ u[2] = i => u \in z
    OBVIOUS
  <2>2. Field(w \cup z, "i", i, "src", d.images[i].src) = to
    BY <1>1, <2>1, ChangeFacts, FieldIs
  <2>3. Field(w \cup z, "i", i, "folder", d.images[i].folder) = f
    BY <1>1, <2>1, ChangeFacts, FieldIs
  <2>4. Field(w \cup z, "i", i, "status", d.images[i].status) = "active"
    <3>1. CASE SetImage(i, "status", "active") \in z
      BY <1>1, <2>1, <3>1, ChangeFacts, FieldIs
    <3>2. CASE d.images[i].status = "active"
      <4>1. CASE \E u \in w \cup z : u[1] = "i" /\ u[2] = i /\ u[3] = "status"
        BY <1>1, <2>1, <4>1, FieldIs
      <4>2. CASE \A u \in w \cup z : ~(u[1] = "i" /\ u[2] = i /\ u[3] = "status")
        BY <3>2, <4>2, FieldIs
      <4>3. QED
        BY <4>1, <4>2
    <3>3. QED
      BY <1>1, <3>1, <3>2
  <2>5. QED
    BY <2>2, <2>3, <2>4
<1>5. /\ DOMAIN e.images = {k \in DOMAIN d.images : SetImage(k, "row", 0) \notin w}
      /\ DOMAIN x.images = {k \in DOMAIN d.images : SetImage(k, "row", 0) \notin w \cup z}
      /\ DOMAIN e.folders = {k \in DOMAIN d.folders : SetFolder(k, "row", 0) \notin w}
      /\ DOMAIN x.folders = {k \in DOMAIN d.folders : SetFolder(k, "row", 0) \notin w \cup z}
  BY ApplyIs
<1>6. /\ \A k \in DOMAIN e.images :
             /\ e.images[k].src = Field(w, "i", k, "src", d.images[k].src)
             /\ e.images[k].folder = Field(w, "i", k, "folder", d.images[k].folder)
             /\ e.images[k].status = Field(w, "i", k, "status", d.images[k].status)
      /\ \A k \in DOMAIN e.folders :
             /\ e.folders[k].path = Field(w, "f", k, "path", d.folders[k].path)
             /\ e.folders[k].parent = Field(w, "f", k, "parent", d.folders[k].parent)
             /\ e.folders[k].status = Field(w, "f", k, "status", d.folders[k].status)
  BY ApplyIs
<1>7. /\ \A k \in DOMAIN x.images :
             /\ x.images[k].src = Field(w \cup z, "i", k, "src", d.images[k].src)
             /\ x.images[k].folder = Field(w \cup z, "i", k, "folder", d.images[k].folder)
             /\ x.images[k].status = Field(w \cup z, "i", k, "status", d.images[k].status)
      /\ \A k \in DOMAIN x.folders :
             /\ x.folders[k].path = Field(w \cup z, "f", k, "path", d.folders[k].path)
             /\ x.folders[k].parent = Field(w \cup z, "f", k, "parent", d.folders[k].parent)
             /\ x.folders[k].status = Field(w \cup z, "f", k, "status", d.folders[k].status)
  BY ApplyIs
<1> HIDE DEF e, x
<1>8. DOMAIN x.images = DOMAIN e.images /\ DOMAIN x.folders = DOMAIN e.folders
  BY <1>2, <1>5
<1>9. ASSUME NEW k \in DOMAIN x.images \ {i}
      PROVE  /\ x.images[k].src = e.images[k].src
             /\ x.images[k].folder = e.images[k].folder
             /\ x.images[k].status = e.images[k].status
  <2>1. \A old : /\ Field(w \cup z, "i", k, "src", old) = Field(w, "i", k, "src", old)
                 /\ Field(w \cup z, "i", k, "folder", old) = Field(w, "i", k, "folder", old)
                 /\ Field(w \cup z, "i", k, "status", old) = Field(w, "i", k, "status", old)
    BY <1>3, <1>9
  <2>2. /\ x.images[k].src = Field(w \cup z, "i", k, "src", d.images[k].src)
        /\ x.images[k].folder = Field(w \cup z, "i", k, "folder", d.images[k].folder)
        /\ x.images[k].status = Field(w \cup z, "i", k, "status", d.images[k].status)
    BY <1>7, <1>9
  <2>3. k \in DOMAIN e.images
    BY <1>8, <1>9
  <2>4. /\ e.images[k].src = Field(w, "i", k, "src", d.images[k].src)
        /\ e.images[k].folder = Field(w, "i", k, "folder", d.images[k].folder)
        /\ e.images[k].status = Field(w, "i", k, "status", d.images[k].status)
    BY <1>6, <2>3
  <2>5. QED
    BY <2>1, <2>2, <2>4
<1>10. ASSUME NEW k \in DOMAIN x.folders
       PROVE  /\ x.folders[k].path = e.folders[k].path
              /\ x.folders[k].parent = e.folders[k].parent
              /\ x.folders[k].status = e.folders[k].status
  <2>1. \A old : /\ Field(w \cup z, "f", k, "path", old) = Field(w, "f", k, "path", old)
                 /\ Field(w \cup z, "f", k, "parent", old) = Field(w, "f", k, "parent", old)
                 /\ Field(w \cup z, "f", k, "status", old) = Field(w, "f", k, "status", old)
    BY <1>3
  <2>2. /\ x.folders[k].path = Field(w \cup z, "f", k, "path", d.folders[k].path)
        /\ x.folders[k].parent = Field(w \cup z, "f", k, "parent", d.folders[k].parent)
        /\ x.folders[k].status = Field(w \cup z, "f", k, "status", d.folders[k].status)
    BY <1>7
  <2>3. k \in DOMAIN e.folders
    BY <1>8
  <2>4. /\ e.folders[k].path = Field(w, "f", k, "path", d.folders[k].path)
        /\ e.folders[k].parent = Field(w, "f", k, "parent", d.folders[k].parent)
        /\ e.folders[k].status = Field(w, "f", k, "status", d.folders[k].status)
    BY <1>6, <2>3
  <2>5. QED
    BY <2>1, <2>2, <2>4
<1>11. i \in DOMAIN x.images
  BY <1>2, <1>5, ChangeFacts
<1>12. Relocated(e, x, i, to, f)
  BY <1>4, <1>7, <1>8, <1>9, <1>10, <1>11 DEF Relocated
<1>13. QED
  BY <1>12 DEF e, x

LEMMA MoveRecordLeads ==
  ASSUME NEW r, Here(r), NEW a \in Threads, Stands(a), MoveFileRecord(a)
  PROVE  Leads(a)
<1> DEFINE P    == DOMAIN files
           i    == act[a].id
           from == act[a].rec.src
           to   == act[a].to
           f    == act[a].fid
           e    == Apply(db, act[a].pend)
           z    == {SetImage(i, "src", to), SetImage(i, "folder", f)} \cup
                   (IF act[a].rec.status = "active" THEN {} ELSE {SetImage(i, "status", "active")})
           w    == act[a].pend \cup z
           x    == Apply(db, w)
           s    == [act[a] EXCEPT !.pc = "mv_commit", !.pend = w]
           B    == (P \ {to}) \cup {from}
<1>0. /\ DOMAIN act[a] = Fields /\ act[a].pc = "mv_record" /\ UNCHANGED <<dirs, files, db>>
      /\ act[a].op = "movefile"
  BY RowsHere DEF MoveFileRecord, disk, Here, SessionsInv, Shape, Moving
<1>1. /\ Back(act[a], P) = B /\ from \notin P /\ to \in P
      /\ Tidy(dirs, B, db) /\ Ready(act[a], dirs, B, db) /\ Loaded(act[a], db)
      /\ to # from /\ act[a].path = ParentOf(to)
      /\ ImagesAt(e, to) = {}
  BY <1>0 DEF Stands, Stage, AtRest, Back
<1>2. Go(a, s)
  <2>1. w = act[a].pend \cup {SetImage(i, "src", to), SetImage(i, "folder", f)} \cup
                (IF act[a].rec.status = "active" THEN {} ELSE {SetImage(i, "status", "active")})
    OBVIOUS
  <2> HIDE DEF w
  <2>2. QED
    BY <2>1 DEF MoveFileRecord
<1>3. /\ s.pc = "mv_commit" /\ s.op = "movefile" /\ s.path = act[a].path
      /\ s.id = i /\ s.rec = act[a].rec /\ s.to = to /\ s.pend = w
  <2> HIDE DEF w
  <2>1. QED
    BY <1>0 DEF Fields
<1>4. /\ Keyed(e) /\ Tidy(dirs, B, e) /\ f \in DOMAIN e.folders
      /\ e.folders[f].path = ParentOf(to) /\ e.folders[f].status = "active"
      /\ \A u \in act[a].pend : u[1] = "i" => u[2] # i
  BY <1>1 DEF Ready
<1>5. i \in DOMAIN e.images /\ e.images[i].src = from
  BY <1>1, <1>4, LoadedIsThere
<1>6. Relocated(e, x, i, to, f)
  <2>1. i \in DOMAIN db.images /\ db.images[i].status = act[a].rec.status
    BY <1>1 DEF Loaded
  <2>2. \/ z = {SetImage(i, "src", to), SetImage(i, "folder", f)}
           /\ db.images[i].status = "active"
        \/ z = {SetImage(i, "src", to), SetImage(i, "folder", f), SetImage(i, "status", "active")}
    BY <2>1
  <2> HIDE DEF z
  <2>3. QED
    BY <1>4, <2>1, <2>2, RowRelocated
<1> HIDE DEF w, s
<1>7. Tidy(dirs, P, x)
  <2> HIDE DEF x, e
  <2>1. ASSUME NEW k \in DOMAIN x.images
        PROVE  x.images[k].status = "active" <=> x.images[k].src \in P
    <3>1. CASE k = i
      BY <1>1, <1>6, <3>1 DEF Relocated
    <3>2. CASE k # i
      <4>1. k \in DOMAIN e.images /\ e.images[k].src # from /\ e.images[k].src # to
        BY <1>1, <1>4, <1>5, <1>6, <3>2 DEF Relocated, Keyed, ImagesAt
      <4>2. e.images[k].status = "active" <=> e.images[k].src \in B
        BY <1>4, <4>1 DEF Tidy, InStep
      <4>3. QED
        BY <1>6, <3>2, <4>1, <4>2 DEF Relocated
    <3>3. QED
      BY <3>1, <3>2
  <2>2. InStep(dirs, P, x)
    BY <1>4, <1>6, <2>1 DEF Tidy, InStep, Relocated
  <2>3. WellFiled(x)
    BY <1>4, <1>6 DEF Tidy, WellFiled, Relocated, Keyed
  <2>4. Nested(x)
    BY <1>4, <1>6 DEF Tidy, Nested, Relocated, Keyed
  <2>5. QED
    BY <2>2, <2>3, <2>4 DEF Tidy
<1>8. Back(s, P) = B
  BY <1>3 DEF Back
<1> HIDE DEF B
<1>9. Stage(s, dirs, P, db)
  BY <1>1, <1>3, <1>7, <1>8 DEF Stage, AtRest, AtFolder, Loaded
<1>10. QED
  BY <1>0, <1>2, <1>3, <1>9, LeadsOn

LEMMA MoveCommitLeads ==
  ASSUME NEW r, Here(r), NEW a \in Threads, Stands(a), MoveFileCommit(a), ~Fault
  PROVE  Leads(a)
<1> DEFINE P == DOMAIN files
           e == Apply(db, act[a].pend)
           s == [act[a] EXCEPT !.pc = "mv_back"]
<1>0. /\ DOMAIN act[a] = Fields /\ act[a].pc = "mv_commit" /\ UNCHANGED <<dirs, files>>
      /\ act[a].op = "movefile"
  BY RowsHere DEF MoveFileCommit, disk, Here, SessionsInv, Shape, Moving
<1>1. /\ act[a].rec.src \notin P /\ act[a].to \in P /\ Tidy(dirs, Back(act[a], P), db)
      /\ Tidy(dirs, P, e) /\ Loaded(act[a], db) /\ act[a].to # act[a].rec.src
      /\ act[a].path = ParentOf(act[a].to)
  BY <1>0 DEF Stands, Stage
<1>2. \/ db' = e /\ End(a)
      \/ db' = db /\ Go(a, s)
  BY DEF MoveFileCommit, Goto, View
<1>3. CASE db' = e /\ End(a)
  <2> HIDE DEF e
  <2>1. QED
    BY <1>0, <1>1, <1>3, LeadsToRest
<1>4. CASE db' = db /\ Go(a, s)
  <2>1. /\ s.pc = "mv_back" /\ s.op = "movefile" /\ s.path = act[a].path
        /\ s.id = act[a].id /\ s.rec = act[a].rec /\ s.to = act[a].to
    BY <1>0 DEF Fields
  <2> HIDE DEF s
  <2>2. Back(s, P) = Back(act[a], P)
    BY <2>1 DEF Back
  <2>3. Stage(s, dirs, P, db)
    BY <1>1, <2>1, <2>2 DEF Stage, AtRest, AtFolder, Loaded
  <2>4. QED
    BY <1>0, <1>4, <2>1, <2>3, LeadsOn
<1>5. QED
  BY <1>2, <1>3, <1>4

\* The folder of an active record is on disk: the file can be put back.
LEMMA MoveBackLeads ==
  ASSUME NEW r, Here(r), NEW a \in Threads, Stands(a), MoveFileBack(a)
  PROVE  Leads(a)
<1> DEFINE P    == DOMAIN files
           from == act[a].rec.src
           to   == act[a].to
           B    == Back(act[a], P)
           i    == act[a].id
           f    == db.images[i].folder
<1>0. /\ act[a].pc = "mv_back" /\ UNCHANGED <<dirs, db>> /\ act[a].op = "movefile" /\ End(a)
  BY DEF MoveFileBack, Here, SessionsInv, Shape, Moving
<1>1. from \notin P /\ to \in P /\ Tidy(dirs, B, db) /\ Loaded(act[a], db) /\ to # from
  BY <1>0 DEF Stands, Stage
<1>2. B = (P \ {to}) \cup {from}
  BY DEF Back
<1> HIDE DEF B
<1>3. i \in DOMAIN db.images /\ db.images[i].src = from
  BY <1>1 DEF Loaded
<1>4. f \in DOMAIN db.folders
  BY <1>3, RowsHere
<1>5. db.folders[f].path = ParentOf(from)
  BY <1>1, <1>3 DEF Tidy, WellFiled
<1>6. db.images[i].status = "active"
  BY <1>1, <1>2, <1>3 DEF Tidy, InStep
<1>7. db.folders[f].status = "active"
  BY <1>1, <1>3, <1>6 DEF Tidy, Nested
<1>8. ParentOf(from) \in dirs
  BY <1>1, <1>4, <1>5, <1>7 DEF Tidy, InStep
<1>9. files' = Moved(to, from)
  BY <1>1, <1>8 DEF MoveFileBack
<1>10. DOMAIN files' = B
  BY <1>2, <1>9 DEF Moved
<1>11. QED
  BY <1>0, <1>1, <1>10, LeadsToRest

-----------------------------------------------------------------------------
(* The steps of delete_file, delete_folder and of an upload.                 *)

LEMMA DeleteDiskLeads ==
  ASSUME NEW r, Here(r), NEW a \in Threads, Stands(a), DeleteFileDisk(a)
  PROVE  Leads(a)
<1> DEFINE P == DOMAIN files
           p == act[a].rec.src
           Q == P \ {p}
           s == [act[a] EXCEPT !.pc = "rm_record"]
<1>0. /\ DOMAIN act[a] = Fields /\ act[a].pc = "rm" /\ UNCHANGED <<dirs, db>> /\ Go(a, s)
      /\ DOMAIN files' = Q
  BY RowsHere DEF DeleteFileDisk, RemoveFiles, Goto
<1>1. /\ Tidy(dirs, P, db) /\ Loaded(act[a], db)
      /\ act[a].op = "movefile" => act[a].to # p /\ act[a].path = ParentOf(act[a].to)
  BY <1>0 DEF Stands, Stage, AtRest
<1>2. act[a].rec.status = "active" <=> p \in P
  BY <1>1 DEF Tidy, InStep, Loaded
<1>3. /\ s.pc = "rm_record" /\ s.op = act[a].op /\ s.path = act[a].path
      /\ s.id = act[a].id /\ s.rec = act[a].rec /\ s.to = act[a].to
  BY <1>0 DEF Fields
<1> HIDE DEF s
<1>4. IF s.rec.status = "active" THEN p \notin Q /\ Tidy(dirs, Q \cup {p}, db)
                                 ELSE Tidy(dirs, Q, db)
  <2>1. CASE p \in P
    <3>1. Q \cup {p} = P
      BY <2>1
    <3>2. QED
      BY <1>1, <1>2, <1>3, <2>1, <3>1
  <2>2. CASE p \notin P
    <3>1. Q = P
      BY <2>2
    <3>2. QED
      BY <1>1, <1>2, <1>3, <2>2, <3>1
  <2>3. QED
    BY <2>1, <2>2
<1> HIDE DEF Q
<1>5. Stage(s, dirs, Q, db)
  BY <1>1, <1>3, <1>4 DEF Stage, AtRest, AtFolder, Loaded
<1>6. QED
  BY <1>0, <1>3, <1>5, LeadsOn

LEMMA DeleteRecordLeads ==
  ASSUME NEW r, Here(r), NEW a \in Threads, Stands(a), DeleteFileRecord(a)
  PROVE  Leads(a)
<1> DEFINE P == DOMAIN files
           i == act[a].id
           p == act[a].rec.src
           active == act[a].rec.status = "active"
           w == IF active THEN {SetImage(i, "status", "deleted")} ELSE {}
           s == [act[a] EXCEPT !.pend = w]
<1>0. /\ DOMAIN act[a] = Fields /\ act[a].pc = "rm_record" /\ UNCHANGED <<dirs, files, db>>
      /\ ToCommit(a, s) /\ RowsOK(db) /\ Keyed(db)
  BY RowsHere DEF DeleteFileRecord, disk
<1>1. /\ Loaded(act[a], db)
      /\ act[a].op = "movefile" => act[a].to # p /\ act[a].path = ParentOf(act[a].to)
      /\ IF active THEN p \notin P /\ Tidy(dirs, P \cup {p}, db) ELSE Tidy(dirs, P, db)
  BY <1>0 DEF Stands, Stage
<1>2. i \in DOMAIN db.images /\ db.images[i].src = p
  BY <1>1 DEF Loaded
<1>3. active => EndsTidy(w, dirs, P, db) /\ w # {}
  <2> SUFFICES ASSUME active PROVE EndsTidy(w, dirs, P, db) /\ w # {}
    OBVIOUS
  <2> DEFINE I == {i}
             F == {j \in DOMAIN db.folders : FALSE}
             e == Apply(db, w)
  <2>1. w = Marks(I, F, "deleted")
    BY DEF Marks
  <2>2. I \subseteq DOMAIN db.images /\ F \subseteq DOMAIN db.folders /\ "deleted" \in Statuses
    BY <1>2 DEF Statuses
  <2>3. IsMarked(db, I, F, "deleted", e) /\ Accepted(db, w)
    <3> HIDE DEF w, I, F
    <3>1. QED
      BY <1>0, <2>1, <2>2, Marked
  <2>4. w # {}
    OBVIOUS
  <2> HIDE DEF w, e
  <2>5. InStep(dirs, P, e)
    BY <1>0, <1>1, <1>2, <2>3 DEF IsMarked, SameRecords, Tidy, InStep, Keyed
  <2>6. WellFiled(e)
    BY <1>0, <1>1, <2>3, SameRecordsFiled DEF IsMarked, Tidy
  <2>7. Nested(e)
    BY <1>0, <1>1, <2>3 DEF IsMarked, SameRecords, Tidy, Nested, Keyed
  <2>8. EndsTidy(w, dirs, P, db)
    BY <2>3, <2>5, <2>6, <2>7, TidyEnds DEF Tidy, e
  <2>9. QED
    BY <2>4, <2>8
<1>4. /\ s.op = act[a].op /\ s.path = act[a].path /\ s.pend = w /\ DOMAIN s = Fields
      /\ s.id = act[a].id /\ s.rec = act[a].rec /\ s.to = act[a].to
  <2> HIDE DEF w
  <2>1. QED
    BY <1>0 DEF Fields
<1>5. ~active => w = {} /\ Tidy(dirs, P, db)
  BY <1>1
<1> HIDE DEF s, w
<1>6. /\ s.pend = {} => Tidy(dirs, P, db)
      /\ s.pend # {} => EndsTidy(s.pend, dirs, P, db)
  BY <1>3, <1>4, <1>5
<1>7. s.op = "movefile" => Loaded(s, db) /\ s.to # s.rec.src /\ s.path = ParentOf(s.to)
  BY <1>1, <1>4 DEF Loaded
<1>8. QED
  BY <1>0, <1>4, <1>6, <1>7, LeadsToCommit

\* The file is in step with its record when it has been visited.
LEMMA WriteLeads ==
  ASSUME NEW r, Here(r), NEW a \in Threads, Stands(a), UploadWrite(a)
  PROVE  Leads(a)
<1> DEFINE P == DOMAIN files
           p == act[a].path
           Q == P \cup {p}
           s == [act[a] EXCEPT !.pc = "look"]
<1>0. DOMAIN act[a] = Fields /\ act[a].pc = "write" /\ UNCHANGED <<dirs, db>>
  BY RowsHere DEF UploadWrite
<1>1. /\ Tidy(dirs, P, db) /\ act[a].op # "lookup"
      /\ act[a].op = "movefile" => Loaded(act[a], db) /\ act[a].to # act[a].rec.src
                                   /\ p = ParentOf(act[a].to)
  BY <1>0 DEF Stands, Stage, AtRest
<1>2. \/ DOMAIN files' = Q /\ Go(a, s)
      \/ End(a) /\ UNCHANGED files
  BY DEF UploadWrite, Goto
<1>3. CASE DOMAIN files' = Q /\ Go(a, s)
  <2>1. /\ s.pc = "look" /\ s.op = act[a].op /\ s.path = p
        /\ s.id = act[a].id /\ s.rec = act[a].rec /\ s.to = act[a].to
    BY <1>0 DEF Fields
  <2>2. Q = P \/ Q \ {p} = P
    OBVIOUS
  <2> HIDE DEF s
  <2>3. Tidy(dirs, Q, db) \/ (s.op # "lookup" /\ s.path \in Q /\ Tidy(dirs, Q \ {s.path}, db))
    BY <1>1, <2>1, <2>2
  <2> HIDE DEF Q
  <2>4. Stage(s, dirs, Q, db)
    BY <1>1, <2>1, <2>3 DEF Stage, AtRest, AtFolder, Loaded
  <2>5. QED
    BY <1>0, <1>3, <2>1, <2>4, LeadsOn
<1>4. CASE End(a) /\ UNCHANGED files
  BY <1>0, <1>1, <1>4, LeadsToRest
<1>5. QED
  BY <1>2, <1>3, <1>4

LEMMA DeleteFolderDiskLeads ==
  ASSUME NEW r, Here(r), NEW a \in Threads, Stands(a), DeleteFolderDisk(a)
  PROVE  Leads(a)
<1> DEFINE p == act[a].path
           P == DOMAIN files
           D == {d \in dirs : ~IsPrefix(p, d)}
           Q == P \ {q \in FilePaths : IsPrefix(p, q)}
           s == [act[a] EXCEPT !.pc = "rmf_record"]
<1>0. /\ DOMAIN act[a] = Fields /\ act[a].pc = "rmf" /\ UNCHANGED db /\ Go(a, s)
      /\ dirs' = D /\ DOMAIN files' = Q
  BY RowsHere DEF DeleteFolderDisk, RemoveFiles, Goto
<1>1. /\ Tidy(dirs, P, db) /\ act[a].fid \in DOMAIN db.folders
      /\ db.folders[act[a].fid].path = p
      /\ act[a].saw <=> db.folders[act[a].fid].status = "active"
      /\ act[a].op = "movefile" => Loaded(act[a], db) /\ act[a].to # act[a].rec.src
                                   /\ p = ParentOf(act[a].to)
  BY <1>0 DEF Stands, Stage, AtRest
<1>2. P \subseteq FilePaths
  BY DEF Here, DiskInv
<1>3. Cut(D, Q, db, p)
  BY <1>1, <1>2 DEF Cut, Tidy, InStep
<1>4. /\ s.pc = "rmf_record" /\ s.op = act[a].op /\ s.path = p /\ s.fid = act[a].fid
      /\ s.saw = act[a].saw
      /\ s.id = act[a].id /\ s.rec = act[a].rec /\ s.to = act[a].to
  BY <1>0 DEF Fields
<1> HIDE DEF s, D, Q
<1>5. Stage(s, D, Q, db)
  BY <1>1, <1>3, <1>4 DEF Stage, AtRest, AtFolder, Loaded, Tidy
<1>6. QED
  BY <1>0, <1>4, <1>5, LeadsOn

\* The path of a record says in which folders its image is.
LEMMA ImageBelow ==
  ASSUME NEW d, NEW r, Filed(d, r), NEW i \in DOMAIN d.folders, NEW k \in DOMAIN d.images
  PROVE  /\ d.images[k].folder \in DOMAIN d.folders
         /\ IsPrefix(d.folders[i].path, d.images[k].src) <=> IsBelow(d, i, d.images[k].folder)
<1> DEFINE p == d.folders[i].path
           q == d.images[k].src
           j == d.images[k].folder
<1>1. j \in DOMAIN d.folders /\ d.folders[j].path = ParentOf(q)
  BY DEF Filed, Keyed, WellFiled
<1>2. p \in FolderPaths /\ q \in FilePaths
  BY DEF Filed, RowsOK, Image, Folder
<1>3. p \in Seq(Names) /\ q \in Seq(Names) /\ p # q
  BY <1>2, PathsAssumption
<1>4. ParentOf(q) \in Seq(Names) /\ IsPrefix(ParentOf(q), q)
  BY <1>3, ParentFacts
<1>5. IsPrefix(p, q) <=> IsPrefix(p, ParentOf(q))
  BY <1>3, <1>4, PrefixTrans, PrefixOfParent
<1>6. QED
  BY <1>1, <1>5 DEF IsBelow

LEMMA DeleteFolderRecordLeads ==
  ASSUME NEW r, Here(r), NEW a \in Threads, Stands(a), DeleteFolderRecord(a)
  PROVE  Leads(a)
<1> DEFINE P == DOMAIN files
           i == act[a].fid
           p == act[a].path
           T == UndeletedTree(db, i)
           I == ActiveIn(db, T)
           w == DeleteTree(db, i)
           e == Apply(db, w)
           go == act[a].saw /\ i \in DOMAIN db.folders
           s == [act[a] EXCEPT !.pend = IF go THEN w ELSE {}]
<1>0. /\ DOMAIN act[a] = Fields /\ act[a].pc = "rmf_record" /\ UNCHANGED <<dirs, files, db>>
      /\ RowsOK(db) /\ Keyed(db) /\ ToCommit(a, s)
  BY RowsHere DEF DeleteFolderRecord, disk
<1>1. /\ WellFiled(db) /\ Nested(db) /\ Cut(dirs, P, db, p) /\ i \in DOMAIN db.folders
      /\ db.folders[i].path = p
      /\ act[a].saw <=> db.folders[i].status = "active"
      /\ act[a].op = "movefile" => Loaded(act[a], db) /\ act[a].to # act[a].rec.src
                                   /\ p = ParentOf(act[a].to)
  BY <1>0 DEF Stands, Stage
<1>2. Filed(db, r)
  BY <1>1, RowsHere
<1>3. /\ \A k \in DOMAIN db.images : /\ db.images[k].folder \in DOMAIN db.folders
                                     /\ IsPrefix(p, db.images[k].src)
                                            <=> IsBelow(db, i, db.images[k].folder)
      /\ \A j \in DOMAIN db.folders : IsPrefix(p, db.folders[j].path) <=> IsBelow(db, i, j)
  BY <1>1, <1>2, ImageBelow DEF IsBelow
<1>4. CASE ~go
  <2>1. db.folders[i].status # "active"
    BY <1>1, <1>4
  <2>2. \A j \in DOMAIN db.folders : db.folders[j].status = "active" => ~IsBelow(db, i, j)
    BY <1>1, <1>2, <2>1, ActiveAbove
  <2>3. \A k \in DOMAIN db.images : db.images[k].status = "active" =>
            ~IsBelow(db, i, db.images[k].folder)
    BY <1>1, <1>3, <2>2 DEF Nested
  <2>4. InStep(dirs, P, db)
    BY <1>1, <1>3, <2>2, <2>3 DEF InStep, Cut
  <2>5. Tidy(dirs, P, db)
    BY <1>1, <2>4 DEF Tidy
  <2>6. s.pend = {}
    BY <1>0, <1>4 DEF Fields
  <2>7. End(a)
    BY <1>0, <2>6 DEF ToCommit
  <2>8. QED
    BY <1>0, <2>5, <2>7, LeadsToRest
<1>5. CASE go
  <2>1. /\ T \subseteq {j \in DOMAIN db.folders : IsBelow(db, i, j)} /\ i \in T
        /\ \A j \in DOMAIN db.folders : db.folders[j].status = "active" =>
               /\ IsBelow(db, i, j) => j \in T
               /\ db.folders[j].parent \in T => j \in T
    BY <1>1, <1>2, UndeletedBelow
  <2>2. w = Marks(I, T, "deleted")
    <3>1. w = {SetFolder(j, "status", "deleted") : j \in T} \cup
              {SetImage(k, "status", "deleted") : k \in I}
      BY DEF DeleteTree
    <3> HIDE DEF w, I, T
    <3>2. QED
      BY <3>1 DEF Marks
  <2>3. I \subseteq DOMAIN db.images /\ T \subseteq DOMAIN db.folders /\ "deleted" \in Statuses
        /\ \A k \in DOMAIN db.images : k \in I <=> db.images[k].folder \in T
                                                   /\ db.images[k].status = "active"
    BY <2>1 DEF ActiveIn, ImagesIn, Statuses
  <2>4. SetFolder(i, "status", "deleted") \in w
    BY <2>1 DEF DeleteTree
  <2> HIDE DEF T, I, w
  <2>5. IsMarked(db, I, T, "deleted", e) /\ Accepted(db, w)
    BY <1>0, <2>2, <2>3, Marked
  <2> HIDE DEF e
  <2>6. /\ SameRecords(db, e)
        /\ \A k \in DOMAIN db.images :
               e.images[k].status = IF k \in I THEN "deleted" ELSE db.images[k].status
        /\ \A k \in DOMAIN db.folders :
               e.folders[k].status = IF k \in T THEN "deleted" ELSE db.folders[k].status
    BY <2>5 DEF IsMarked
  <2>7. ASSUME NEW k \in DOMAIN db.images
        PROVE  e.images[k].status = "active" <=> db.images[k].src \in P
    <3>1. CASE IsPrefix(p, db.images[k].src)
      <4>1. db.images[k].src \notin P
        BY <1>1, <3>1 DEF Cut
      <4>2. db.images[k].status = "active" => k \in I
        BY <1>1, <1>3, <2>1, <2>3, <3>1 DEF Nested
      <4>3. QED
        BY <2>6, <4>1, <4>2
    <3>2. CASE ~IsPrefix(p, db.images[k].src)
      BY <1>1, <1>3, <2>1, <2>3, <2>6, <3>2 DEF Cut
    <3>3. QED
      BY <3>1, <3>2
  <2>8. ASSUME NEW j \in DOMAIN db.folders, e.folders[j].status = "active"
        PROVE  db.folders[j].path \in dirs
    BY <1>1, <1>3, <2>1, <2>6, <2>8 DEF Cut
  <2>9. InStep(dirs, P, e)
    BY <2>6, <2>7, <2>8 DEF InStep, SameRecords
  <2>10. WellFiled(e)
    BY <1>0, <1>1, <2>6, SameRecordsFiled
  <2>11. ASSUME NEW k \in DOMAIN e.images, e.images[k].status = "active"
         PROVE  e.folders[e.images[k].folder].status = "active"
    BY <1>1, <1>3, <2>3, <2>6, <2>11 DEF SameRecords, Nested
  <2>12. ASSUME NEW j \in DOMAIN e.folders, e.folders[j].status = "active", e.folders[j].parent # NoId
         PROVE  e.folders[e.folders[j].parent].status = "active"
    <3>1. j \in DOMAIN db.folders /\ e.folders[j].parent = db.folders[j].parent
          /\ db.folders[j].parent \in DOMAIN db.folders
      BY <1>0, <2>6, <2>12 DEF SameRecords, Keyed
    <3>2. j \notin T /\ db.folders[j].status = "active"
      BY <2>6, <2>12, <3>1
    <3>3. db.folders[j].parent \notin T /\ db.folders[db.folders[j].parent].status = "active"
      BY <1>1, <2>1, <2>12, <3>1, <3>2 DEF Nested
    <3>4. QED
      BY <2>6, <3>1, <3>3
  <2>13. Tidy(dirs, P, e)
    BY <2>9, <2>10, <2>11, <2>12 DEF Tidy, Nested
  <2>14. EndsTidy(w, dirs, P, db)
    BY <2>5, <2>13, TidyEnds DEF e
  <2>15. /\ s.op = act[a].op /\ s.path = act[a].path /\ s.pend = w /\ DOMAIN s = Fields
         /\ s.id = act[a].id /\ s.rec = act[a].rec /\ s.to = act[a].to
    BY <1>0, <1>5 DEF Fields
  <2> HIDE DEF s
  <2>16. s.op = "movefile" => Loaded(s, db) /\ s.to # s.rec.src /\ s.path = ParentOf(s.to)
    BY <1>1, <2>15 DEF Loaded
  <2>17. s.pend # {} /\ EndsTidy(s.pend, dirs, P, db)
    BY <2>4, <2>14, <2>15
  <2>18. QED
    BY <1>0, <2>15, <2>16, <2>17, LeadsToCommit
<1>6. QED
  BY <1>4, <1>5

-----------------------------------------------------------------------------
(* The steps of move_folder.                                                 *)

LEMMA RebaseParent ==
  ASSUME NEW S, NEW p \in Seq(S), NEW from \in Seq(S), NEW to \in Seq(S),
         IsPrefix(from, p), p # from
  PROVE  Rebase(ParentOf(p), from, to) = ParentOf(Rebase(p, from, to))
<1> DEFINE q == ParentOf(p)
           r == Rebase(p, from, to)
           s == Rebase(q, from, to)
<1>1. q \in Seq(S) /\ IsPrefix(from, q) /\ IsPrefix(q, p) /\ Len(from) < Len(p) /\ p # <<>>
      /\ Len(q) = Len(p) - 1
  BY PrefixOfParent, ParentFacts
<1>2. r \in Seq(S) /\ Len(r) = Len(to) + Len(p) - Len(from)
  BY RebaseFacts DEF IsRebased
<1>3. s \in Seq(S) /\ Len(s) = Len(to) + Len(q) - Len(from)
  BY <1>1, RebaseFacts DEF IsRebased
<1>4. IsPrefix(s, r)
  BY <1>1, RebasePrefix
<1> HIDE DEF q, r, s
<1>5. Len(p) \in Nat /\ Len(from) \in Nat /\ Len(to) \in Nat /\ Len(q) \in Nat
      /\ Len(r) \in Nat /\ Len(s) \in Nat
  BY <1>1, <1>2, <1>3, LenProperties
<1>6. r # <<>>
  <2>1. Len(r) # 0
    BY <1>1, <1>2, <1>5
  <2>2. QED
    BY <2>1
<1>7. ParentOf(r) \in Seq(S) /\ IsPrefix(ParentOf(r), r) /\ Len(ParentOf(r)) = Len(r) - 1
  BY <1>2, <1>6, ParentFacts
<1>8. Len(s) = Len(ParentOf(r))
  BY <1>1, <1>2, <1>3, <1>5, <1>7
<1>9. s = ParentOf(r)
  <2>1. Len(s) <= Len(ParentOf(r))
    BY <1>5, <1>8
  <2>2. QED
    BY <1>2, <1>3, <1>4, <1>7, <1>8, <2>1, PrefixSameLength
<1>10. QED
  BY <1>9 DEF q, r, s

LEMMA NewPathFacts ==
  ASSUME NEW from \in Seq(Names), NEW to \in Seq(Names)
  PROVE  /\ \A p \in Seq(Names) : p # from => NewPath(ParentOf(p), from, to) = ParentOf(NewPath(p, from, to))
         /\ \A p, q \in Seq(Names) : /\ ~IsPrefix(to, p) /\ ~IsPrefix(to, q)
                                     /\ NewPath(p, from, to) = NewPath(q, from, to)
                                     => p = q
         /\ NewPath(from, from, to) = to
<1>1. ASSUME NEW p \in Seq(Names), p # from
      PROVE  NewPath(ParentOf(p), from, to) = ParentOf(NewPath(p, from, to))
  <2>1. ParentOf(p) \in Seq(Names) /\ IsPrefix(ParentOf(p), p)
    BY ParentFacts
  <2>2. CASE IsPrefix(from, p)
    <3>1. IsPrefix(from, ParentOf(p))
      BY <1>1, <2>2, PrefixOfParent
    <3>2. Rebase(ParentOf(p), from, to) = ParentOf(Rebase(p, from, to))
      BY <1>1, <2>2, RebaseParent
    <3>3. QED
      BY <2>2, <3>1, <3>2 DEF NewPath
  <2>3. CASE ~IsPrefix(from, p)
    <3>1. ~IsPrefix(from, ParentOf(p))
      BY <2>1, <2>3, PrefixTrans
    <3>2. QED
      BY <2>3, <3>1 DEF NewPath
  <2>4. QED
    BY <2>2, <2>3
<1>2. ASSUME NEW p \in Seq(Names), NEW q \in Seq(Names), ~IsPrefix(to, p), ~IsPrefix(to, q),
             NewPath(p, from, to) = NewPath(q, from, to)
      PROVE  p = q
  <2>1. \A x \in Seq(Names) : IsPrefix(from, x) =>
            /\ IsPrefix(to, Rebase(x, from, to))
            /\ Rebase(Rebase(x, from, to), to, from) = x
    BY RebaseBack
  <2>2. CASE IsPrefix(from, p) /\ IsPrefix(from, q)
    <3>1. Rebase(p, from, to) = Rebase(q, from, to)
      BY <1>2, <2>2 DEF NewPath
    <3>2. /\ Rebase(Rebase(p, from, to), to, from) = p
          /\ Rebase(Rebase(q, from, to), to, from) = q
      BY <2>1, <2>2
    <3>3. QED
      BY <3>1, <3>2
  <2>3. CASE ~(IsPrefix(from, p) /\ IsPrefix(from, q))
    BY <1>2, <2>1, <2>3 DEF NewPath
  <2>4. QED
    BY <2>2, <2>3
<1>3. NewPath(from, from, to) = to
  BY PrefixSelf, RebaseSelf DEF NewPath
<1>4. QED
  BY <1>1, <1>2, <1>3

\* Where the paths of S are after the move.
Shifted(S, from, to) == (S \ Below(from, S)) \cup Rebased(S, from, to)

LEMMA PathIsShifted ==
  ASSUME DiskInv, NEW from \in FolderPaths, NEW to \in FolderPaths, to \notin dirs,
         NEW S, S \subseteq dirs \cup DOMAIN files, NEW q \in Paths
  PROVE  q \in S <=> ~IsPrefix(to, q) /\ NewPath(q, from, to) \in Shifted(S, from, to)
<1>1. from \in Seq(Names) /\ to \in Seq(Names) /\ q \in Seq(Names)
      /\ \A p \in S : p \in Seq(Names)
  BY PathFacts DEF DiskInv, Paths
<1>2. \A p \in S : ~IsPrefix(to, p)
  BY AboveOnDisk
<1>3. \A x \in Seq(Names) : IsPrefix(from, x) => IsPrefix(to, Rebase(x, from, to))
  BY <1>1, RebaseBack
<1>4. ASSUME q \in S PROVE NewPath(q, from, to) \in Shifted(S, from, to)
  BY <1>4 DEF NewPath, Shifted, Below, Rebased
<1>5. ASSUME ~IsPrefix(to, q), NewPath(q, from, to) \in Shifted(S, from, to) PROVE q \in S
  <2>1. CASE NewPath(q, from, to) \in Rebased(S, from, to)
    <3>1. PICK p \in S : IsPrefix(from, p) /\ NewPath(q, from, to) = Rebase(p, from, to)
      BY <2>1 DEF Rebased, Below
    <3>2. p \in Seq(Names) /\ ~IsPrefix(to, p) /\ NewPath(p, from, to) = NewPath(q, from, to)
      BY <1>1, <1>2, <3>1 DEF NewPath
    <3>3. p = q
      BY <1>1, <1>5, <3>2, NewPathFacts
    <3>4. QED
      BY <3>3
  <2>2. CASE NewPath(q, from, to) \in S
    BY <1>1, <1>2, <1>3, <2>2 DEF NewPath
  <2>3. QED
    BY <1>5, <2>1, <2>2 DEF Shifted
<1>6. QED
  BY <1>2, <1>4, <1>5

LEMMA MoveFolderDiskLeads ==
  ASSUME NEW r, Here(r), NEW a \in Threads, Stands(a), MoveFolderDisk(a)
  PROVE  Leads(a)
<1> DEFINE from == act[a].path
           to   == act[a].to
           D    == {d \in dirs : IsPrefix(from, d)}
           P    == {p \in DOMAIN files : IsPrefix(from, p)}
           D2   == (dirs \ D) \cup {Rebase(d, from, to) : d \in D} \cup Above(ParentOf(to))
           P2   == (DOMAIN files \ P) \cup {Rebase(p, from, to) : p \in P}
           s    == [act[a] EXCEPT !.pc = "mvf_record"]
<1>0. /\ DOMAIN act[a] = Fields /\ act[a].pc = "mvf_disk" /\ UNCHANGED db
      /\ from \in FolderPaths /\ to \in FolderPaths /\ DiskInv
  BY RowsHere DEF MoveFolderDisk, Here, SessionsInv, Shape
<1>1. /\ Tidy(dirs, DOMAIN files, db) /\ MovesTree(act[a], db) /\ to \notin dirs
      /\ act[a].op = "movefile" => Loaded(act[a], db) /\ to # act[a].rec.src
                                   /\ from = ParentOf(to)
  BY <1>0 DEF Stands, Stage, AtRest
<1>2. \/ dirs' = D2 /\ DOMAIN files' = P2 /\ Go(a, s)
      \/ End(a) /\ UNCHANGED <<dirs, files>>
  BY <1>1 DEF MoveFolderDisk, Goto, disk
<1>3. CASE dirs' = D2 /\ DOMAIN files' = P2 /\ Go(a, s)
  <2>1. Shifted(dirs, from, to) \subseteq D2 /\ P2 = Shifted(DOMAIN files, from, to)
        /\ Above(ParentOf(to)) \subseteq D2
    <3> HIDE DEF from, to
    <3>1. /\ D = Below(from, dirs) /\ P = Below(from, DOMAIN files)
          /\ {Rebase(d, from, to) : d \in D} = Rebased(dirs, from, to)
          /\ {Rebase(p, from, to) : p \in P} = Rebased(DOMAIN files, from, to)
      BY DEF Below, Rebased
    <3>2. QED
      BY <3>1 DEF Shifted
  <2> HIDE DEF D2, P2, D, P
  <2>2. ASSUME NEW k \in DOMAIN db.images
        PROVE  db.images[k].status = "active" <=> /\ ~IsPrefix(to, db.images[k].src)
                                                  /\ NewPath(db.images[k].src, from, to) \in P2
    <3>1. db.images[k].src \in Paths
      BY RowsHere DEF Paths
    <3>2. db.images[k].src \in DOMAIN files <=>
              /\ ~IsPrefix(to, db.images[k].src)
              /\ NewPath(db.images[k].src, from, to) \in Shifted(DOMAIN files, from, to)
      BY <1>0, <1>1, <3>1, PathIsShifted
    <3>3. QED
      BY <1>1, <2>1, <3>2 DEF Tidy, InStep
  <2>3. ASSUME NEW j \in DOMAIN db.folders, db.folders[j].status = "active"
        PROVE  ~IsPrefix(to, db.folders[j].path) /\ NewPath(db.folders[j].path, from, to) \in D2
    <3>1. db.folders[j].path \in Paths /\ db.folders[j].path \in dirs
      BY <1>1, <2>3, RowsHere DEF Paths, RowsOK, Folder, Tidy, InStep
    <3>2. db.folders[j].path \in dirs <=>
              /\ ~IsPrefix(to, db.folders[j].path)
              /\ NewPath(db.folders[j].path, from, to) \in Shifted(dirs, from, to)
      BY <1>0, <1>1, <3>1, PathIsShifted
    <3>3. QED
      BY <2>1, <3>1, <3>2
  <2>4. Displaced(D2, P2, db, from, to)
    BY <2>2, <2>3 DEF Displaced
  <2>5. /\ s.pc = "mvf_record" /\ s.op = act[a].op /\ s.path = from /\ s.fid = act[a].fid
        /\ s.pend = act[a].pend
        /\ s.id = act[a].id /\ s.rec = act[a].rec /\ s.to = to
    BY <1>0 DEF Fields
  <2> HIDE DEF s
  <2>6. MovesTree(s, db)
    BY <1>1, <2>5 DEF MovesTree
  <2>7. Stage(s, D2, P2, db)
    BY <1>1, <2>1, <2>4, <2>5, <2>6 DEF Stage, AtRest, AtFolder, Loaded, Tidy
  <2>8. QED
    BY <1>0, <1>3, <2>5, <2>7, LeadsOn
<1>4. CASE End(a) /\ UNCHANGED <<dirs, files>>
  BY <1>0, <1>1, <1>4, LeadsToRest
<1>5. QED
  BY <1>2, <1>3, <1>4

\* v has the rows of d that are not below the path to.
Pruned(d, v, to) ==
    /\ RowsOK(v)
    /\ DOMAIN v.images = {k \in DOMAIN d.images : ~IsPrefix(to, d.images[k].src)}
    /\ DOMAIN v.folders = {j \in DOMAIN d.folders : ~IsPrefix(to, d.folders[j].path)}
    /\ \A k \in DOMAIN v.images : v.images[k] = d.images[k]
    /\ \A j \in DOMAIN v.folders : v.folders[j] = d.folders[j]

LEMMA PrunedIsFiled ==
  ASSUME NEW d, NEW r, Filed(d, r), Nested(d), NEW to \in FolderPaths \ {Root},
         NEW v, Pruned(d, v, to)
  PROVE  Filed(v, r) /\ Nested(v)
<1>1. to \in Seq(Names) /\ ~IsPrefix(to, Root)
  BY PathFacts, RootIsOutside
<1>2. \A k \in DOMAIN d.images : d.images[k].folder \in DOMAIN d.folders
  BY DEF Filed, Keyed
<1>3. ASSUME NEW k \in DOMAIN v.images PROVE v.images[k].folder \in DOMAIN v.folders
  <2>1. k \in DOMAIN d.images /\ ~IsPrefix(to, d.images[k].src) /\ v.images[k] = d.images[k]
        /\ d.images[k].src \in FilePaths
    BY <1>3 DEF Pruned, Filed, RowsOK, Image
  <2>2. d.folders[d.images[k].folder].path = ParentOf(d.images[k].src)
    BY <2>1 DEF Filed, WellFiled
  <2>3. d.images[k].src \in Seq(Names)
    BY <2>1, PathFacts
  <2>4. ~IsPrefix(to, ParentOf(d.images[k].src))
    BY <1>1, <2>1, <2>3, ParentFacts, PrefixTrans
  <2>5. QED
    BY <1>2, <2>1, <2>2, <2>4 DEF Pruned
<1>4. ASSUME NEW j \in DOMAIN v.folders PROVE v.folders[j].parent \in DOMAIN v.folders \cup {NoId}
  <2>1. j \in DOMAIN d.folders /\ ~IsPrefix(to, d.folders[j].path) /\ v.folders[j] = d.folders[j]
    BY <1>4 DEF Pruned
  <2>2. CASE j = r
    BY <2>1, <2>2 DEF Filed, RootRow
  <2>3. CASE j # r
    <3> DEFINE k == d.folders[j].parent
    <3>1. k \in DOMAIN d.folders /\ IsPrefix(d.folders[k].path, d.folders[j].path)
          /\ d.folders[k].path \in Seq(Names) /\ d.folders[j].path \in Seq(Names)
      BY <2>1, <2>3, ParentRow
    <3>2. ~IsPrefix(to, d.folders[k].path)
      BY <1>1, <2>1, <3>1, PrefixTrans
    <3>3. QED
      BY <2>1, <3>1, <3>2 DEF Pruned
  <2>4. QED
    BY <2>2, <2>3
<1>5. Keyed(v)
  BY <1>3, <1>4 DEF Pruned, Filed, Keyed
<1>6. WellFiled(v)
  BY <1>3, <1>4 DEF Pruned, Filed, WellFiled
<1>7. RootRow(v, r)
  BY <1>1 DEF Pruned, Filed, RootRow
<1>8. Nested(v)
  BY <1>3, <1>4 DEF Pruned, Nested
<1>9. QED
  BY <1>5, <1>6, <1>7, <1>8 DEF Filed, Pruned

LEMMA RowsDropped ==
  ASSUME NEW d, RowsOK(d), NEW I, NEW F, NEW to,
         \A k \in DOMAIN d.images : k \in I <=> IsPrefix(to, d.images[k].src),
         \A j \in DOMAIN d.folders : j \in F <=> IsPrefix(to, d.folders[j].path)
  PROVE  Pruned(d, Apply(d, PurgeFolders(F) \cup PurgeImages(I)), to)
<1> DEFINE w == PurgeFolders(F) \cup PurgeImages(I)
           v == Apply(d, w)
<1>1. \A u \in w : u[3] = "row" /\ GoodChange(u)
  BY ChangeFacts, GoodSets DEF PurgeFolders, PurgeImages
<1>2. /\ \A k : SetImage(k, "row", 0) \in w <=> k \in I
      /\ \A j : SetFolder(j, "row", 0) \in w <=> j \in F
  <2>1. \A k : SetImage(k, "row", 0) \in w => k \in I
    BY ChangeFacts DEF PurgeFolders, PurgeImages
  <2>2. \A j : SetFolder(j, "row", 0) \in w => j \in F
    BY ChangeFacts DEF PurgeFolders, PurgeImages
  <2>3. QED
    BY <2>1, <2>2 DEF PurgeFolders, PurgeImages
<1> HIDE DEF w
<1>3. RowsOK(v)
  BY <1>1, ApplyType
<1>4. /\ DOMAIN v.images = {i \in DOMAIN d.images : SetImage(i, "row", 0) \notin w}
      /\ DOMAIN v.folders = {i \in DOMAIN d.folders : SetFolder(i, "row", 0) \notin w}
      /\ \A i \in DOMAIN v.images :
             /\ v.images[i].src = Field(w, "i", i, "src", d.images[i].src)
             /\ v.images[i].folder = Field(w, "i", i, "folder", d.images[i].folder)
             /\ v.images[i].status = Field(w, "i", i, "status", d.images[i].status)
      /\ \A i \in DOMAIN v.folders :
             /\ v.folders[i].path = Field(w, "f", i, "path", d.folders[i].path)
             /\ v.folders[i].parent = Field(w, "f", i, "parent", d.folders[i].parent)
             /\ v.folders[i].status = Field(w, "f", i, "status", d.folders[i].status)
  BY ApplyIs
<1>5. \A t, i, f, old : f # "row" => Field(w, t, i, f, old) = old
  BY <1>1, FieldIs
<1> HIDE DEF v
<1>6. /\ DOMAIN v.images = {k \in DOMAIN d.images : ~IsPrefix(to, d.images[k].src)}
      /\ DOMAIN v.folders = {j \in DOMAIN d.folders : ~IsPrefix(to, d.folders[j].path)}
  BY <1>2, <1>4
<1>7. ASSUME NEW k \in DOMAIN v.images PROVE v.images[k] = d.images[k]
  <2>1. /\ v.images[k].src = d.images[k].src /\ v.images[k].folder = d.images[k].folder
        /\ v.images[k].status = d.images[k].status
    BY <1>4, <1>5, <1>7
  <2>2. v.images[k] \in Image /\ d.images[k] \in Image
    BY <1>3, <1>6 DEF RowsOK
  <2>3. QED
    BY <2>1, <2>2 DEF Image
<1>8. ASSUME NEW k \in DOMAIN v.folders PROVE v.folders[k] = d.folders[k]
  <2>1. /\ v.folders[k].path = d.folders[k].path /\ v.folders[k].parent = d.folders[k].parent
        /\ v.folders[k].status = d.folders[k].status
    BY <1>4, <1>5, <1>8
  <2>2. v.folders[k] \in Folder /\ d.folders[k] \in Folder
    BY <1>3, <1>6 DEF RowsOK
  <2>3. QED
    BY <2>1, <2>2 DEF Folder
<1>9. Pruned(d, v, to)
  BY <1>3, <1>6, <1>7, <1>8 DEF Pruned
<1>10. QED
  BY <1>9 DEF v, w

\* What the session of move_folder sees: nothing at the target.
LEMMA TargetPurged ==
  ASSUME NEW d, NEW r, Filed(d, r), NEW s, MovesTree(s, d), s.to \in FolderPaths
  PROVE  Pruned(d, Apply(d, s.pend), s.to) /\ \A u \in s.pend : u[3] = "row"
<1> DEFINE to == s.to
           w  == s.pend
           t  == TheFolder(d, to)
           T  == WholeTree(d, t)
           I  == ImagesIn(d, T)
<1>0. RowsOK(d) /\ to \in Seq(Names)
  BY PathFacts DEF Filed
<1>1. CASE FoldersAt(d, to) = {}
  <2>1. w = {}
    BY <1>1 DEF MovesTree
  <2>2. \A j \in DOMAIN d.folders : d.folders[j].path # to
    BY <1>1 DEF FoldersAt
  <2>3. \A j \in DOMAIN d.folders : ~IsPrefix(to, d.folders[j].path)
    BY <2>2, RowsAbove DEF Filed
  <2>4. \A k \in DOMAIN d.images : ~IsPrefix(to, d.images[k].src)
    <3> SUFFICES ASSUME NEW k \in DOMAIN d.images, IsPrefix(to, d.images[k].src) PROVE FALSE
      OBVIOUS
    <3>1. d.images[k].src \in FilePaths /\ d.images[k].folder \in DOMAIN d.folders
          /\ d.folders[d.images[k].folder].path = ParentOf(d.images[k].src)
      BY DEF Filed, RowsOK, Image, Keyed, WellFiled
    <3>2. d.images[k].src \in Seq(Names) /\ d.images[k].src # to
      BY <3>1, PathsAssumption
    <3>3. IsPrefix(to, ParentOf(d.images[k].src))
      BY <1>0, <3>2, PrefixOfParent
    <3>4. QED
      BY <2>3, <3>1, <3>3
  <2>5. Pruned(d, Apply(d, PurgeFolders({}) \cup PurgeImages({})), to)
    <3>1. /\ \A k \in DOMAIN d.images : k \in {} <=> IsPrefix(to, d.images[k].src)
          /\ \A j \in DOMAIN d.folders : j \in {} <=> IsPrefix(to, d.folders[j].path)
      BY <2>3, <2>4
    <3> HIDE DEF to
    <3>2. QED
      BY <1>0, <3>1, RowsDropped
  <2>6. PurgeFolders({}) \cup PurgeImages({}) = w
    BY <2>1 DEF PurgeFolders, PurgeImages
  <2>7. QED
    BY <2>1, <2>5, <2>6
<1>2. CASE FoldersAt(d, to) # {}
  <2>1. t \in DOMAIN d.folders /\ d.folders[t].path = to
    BY <1>2, FolderFound
  <2>2. w = PurgeFolders(T) \cup PurgeImages(I)
    BY <1>2 DEF MovesTree, PurgeTree
  <2> HIDE DEF t
  <2>3. T = {j \in DOMAIN d.folders : IsBelow(d, t, j)}
    BY <2>1, WholeTreeIsBelow
  <2>4. \A k \in DOMAIN d.images : k \in I <=> d.images[k].folder \in T
    BY DEF ImagesIn
  <2> HIDE DEF T, I
  <2>5. \A j \in DOMAIN d.folders : j \in T <=> IsPrefix(to, d.folders[j].path)
    BY <2>1, <2>3 DEF IsBelow
  <2>6. \A k \in DOMAIN d.images : k \in I <=> IsPrefix(to, d.images[k].src)
    BY <2>1, <2>3, <2>4, ImageBelow
  <2> HIDE DEF to, w
  <2>7. Pruned(d, Apply(d, PurgeFolders(T) \cup PurgeImages(I)), to)
    BY <1>0, <2>5, <2>6, RowsDropped
  <2>8. \A u \in w : u[3] = "row"
    BY <2>2, ChangeFacts DEF PurgeFolders, PurgeImages
  <2>9. QED
    BY <2>2, <2>7, <2>8 DEF to, w
<1>3. QED
  BY <1>1, <1>2

\* x has the rows of v, with the tree of the folder i moved below the folder t.
TreeMoved(v, x, i, t, from, to) ==
    /\ DOMAIN x.images = DOMAIN v.images /\ DOMAIN x.folders = DOMAIN v.folders
    /\ \A k \in DOMAIN v.images : /\ x.images[k].src = NewPath(v.images[k].src, from, to)
                                  /\ x.images[k].folder = v.images[k].folder
                                  /\ x.images[k].status = v.images[k].status
    /\ \A j \in DOMAIN v.folders :
           /\ x.folders[j].path = NewPath(v.folders[j].path, from, to)
           /\ x.folders[j].parent = IF j = i THEN t ELSE v.folders[j].parent
           /\ x.folders[j].status = v.folders[j].status

\* The changes z give the folders F and the images I their new paths.
Repaths(z, v, i, t, F, I, from, to) ==
    /\ i \in F /\ SetFolder(i, "parent", t) \in z
    /\ \A j \in F : SetFolder(j, "path", NewPath(v.folders[j].path, from, to)) \in z
    /\ \A k \in I : SetImage(k, "src", NewPath(v.images[k].src, from, to)) \in z
    /\ \A u \in z :
          /\ u[3] # "row"
          /\ u[1] = "i" => /\ u[2] \in I /\ u[3] = "src"
                           /\ u[4] = NewPath(v.images[u[2]].src, from, to)
          /\ u[1] = "f" => /\ u[3] = "path" => u[2] \in F /\ u[4] = NewPath(v.folders[u[2]].path, from, to)
                           /\ u[3] = "parent" => u[2] = i /\ u[4] = t
                           /\ u[3] # "status"
    /\ \A j \in DOMAIN v.folders \ F : NewPath(v.folders[j].path, from, to) = v.folders[j].path
    /\ \A k \in DOMAIN v.images \ I : NewPath(v.images[k].src, from, to) = v.images[k].src

LEMMA TreeIsRepathed ==
  ASSUME NEW v, NEW from \in Seq(Names), NEW to \in Seq(Names), NEW t,
         NEW i \in DOMAIN v.folders, v.folders[i].path = from,
         NEW F, F = {j \in DOMAIN v.folders : IsPrefix(from, v.folders[j].path)},
         NEW I, I = {k \in DOMAIN v.images : IsPrefix(from, v.images[k].src)},
         NEW z, z = {SetFolder(i, "path", to), SetFolder(i, "parent", t)} \cup
                    {SetFolder(j, "path", Rebase(v.folders[j].path, from, to)) : j \in F \ {i}} \cup
                    {SetImage(k, "src", Rebase(v.images[k].src, from, to)) : k \in I}
  PROVE  Repaths(z, v, i, t, F, I, from, to)
<1> DEFINE Q(j) == NewPath(v.folders[j].path, from, to)
           R(k) == NewPath(v.images[k].src, from, to)
<1>0. IsPrefix(from, from) /\ Rebase(from, from, to) = to
  BY PrefixSelf, RebaseSelf
<1>1. i \in F /\ Q(i) = to /\ \A j \in F : Q(j) = Rebase(v.folders[j].path, from, to)
  BY <1>0 DEF NewPath
<1>2. \A k \in I : R(k) = Rebase(v.images[k].src, from, to)
  BY DEF NewPath
<1>3. /\ \A j \in DOMAIN v.folders \ F : Q(j) = v.folders[j].path
      /\ \A k \in DOMAIN v.images \ I : R(k) = v.images[k].src
  BY DEF NewPath
<1>4. z = {SetFolder(i, "path", Q(i)), SetFolder(i, "parent", t)} \cup
          {SetFolder(j, "path", Q(j)) : j \in F \ {i}} \cup {SetImage(k, "src", R(k)) : k \in I}
  BY <1>1, <1>2
<1> HIDE DEF Q, R
<1>5. \A u \in z :
          \/ u = SetFolder(i, "parent", t)
          \/ \E j \in F : u = SetFolder(j, "path", Q(j))
          \/ \E k \in I : u = SetImage(k, "src", R(k))
  BY <1>1, <1>4
<1>6. /\ SetFolder(i, "parent", t) \in z
      /\ \A j \in F : SetFolder(j, "path", Q(j)) \in z
      /\ \A k \in I : SetImage(k, "src", R(k)) \in z
  BY <1>4
<1>7. \A u \in z :
          /\ u[3] # "row"
          /\ u[1] = "i" => u[2] \in I /\ u[3] = "src" /\ u[4] = R(u[2])
          /\ u[1] = "f" => /\ u[3] = "path" => u[2] \in F /\ u[4] = Q(u[2])
                           /\ u[3] = "parent" => u[2] = i /\ u[4] = t
                           /\ u[3] # "status"
  <2> SUFFICES ASSUME NEW u \in z
               PROVE  /\ u[3] # "row"
                      /\ u[1] = "i" => u[2] \in I /\ u[3] = "src" /\ u[4] = R(u[2])
                      /\ u[1] = "f" => /\ u[3] = "path" => u[2] \in F /\ u[4] = Q(u[2])
                                       /\ u[3] = "parent" => u[2] = i /\ u[4] = t
                                       /\ u[3] # "status"
    OBVIOUS
  <2>1. CASE u = SetFolder(i, "parent", t)
    BY <2>1, ChangeFacts
  <2>2. CASE \E j \in F : u = SetFolder(j, "path", Q(j))
    BY <2>2, ChangeFacts
  <2>3. CASE \E k \in I : u = SetImage(k, "src", R(k))
    BY <2>3, ChangeFacts
  <2>4. QED
    BY <1>5, <2>1, <2>2, <2>3
<1>8. QED
  BY <1>1, <1>3, <1>6, <1>7 DEF Repaths, Q, R

LEMMA MovedRows ==
  ASSUME NEW d, NEW w, \A u \in w : u[3] = "row",
         NEW v, v = Apply(d, w),
         \A k \in DOMAIN v.images : v.images[k] = d.images[k],
         \A j \in DOMAIN v.folders : v.folders[j] = d.folders[j],
         NEW from, NEW to, NEW i, NEW t, NEW F, NEW I, NEW z, Repaths(z, v, i, t, F, I, from, to)
  PROVE  TreeMoved(v, Apply(d, w \cup z), i, t, from, to)
<1> DEFINE x == Apply(d, w \cup z)
           Q(j) == NewPath(v.folders[j].path, from, to)
           R(k) == NewPath(v.images[k].src, from, to)
<1>1. i \in F
  BY DEF Repaths
<1>3. /\ \A j \in DOMAIN v.folders \ F : Q(j) = v.folders[j].path
      /\ \A k \in DOMAIN v.images \ I : R(k) = v.images[k].src
  BY DEF Repaths
<1>6. /\ SetFolder(i, "parent", t) \in z
      /\ \A j \in F : SetFolder(j, "path", Q(j)) \in z
      /\ \A k \in I : SetImage(k, "src", R(k)) \in z
  BY DEF Repaths
<1>7. \A u \in z :
          /\ u[3] # "row"
          /\ u[1] = "i" => u[2] \in I /\ u[3] = "src" /\ u[4] = R(u[2])
          /\ u[1] = "f" => /\ u[3] = "path" => u[2] \in F /\ u[4] = Q(u[2])
                           /\ u[3] = "parent" => u[2] = i /\ u[4] = t
                           /\ u[3] # "status"
  BY DEF Repaths
<1> HIDE DEF Q, R
<1>8. ASSUME NEW c, NEW k, NEW f, f # "row", NEW old
      PROVE  Field(w \cup z, c, k, f, old) = Field(z, c, k, f, old)
  <2>1. \A u : u[1] = c /\ u[2] = k /\ u[3] = f => (u \in w \cup z <=> u \in z)
    BY <1>8
  <2> DEFINE y == w \cup z
  <2>2. \A u : u[1] = c /\ u[2] = k /\ u[3] = f => (u \in y <=> u \in z)
    BY <2>1
  <2> HIDE DEF y
  <2>3. Field(y, c, k, f, old) = Field(z, c, k, f, old)
    BY <2>2, FieldSame
  <2>4. QED
    BY <2>3 DEF y
<1>9. \A k : SetImage(k, "row", 0) \notin z /\ SetFolder(k, "row", 0) \notin z
  BY <1>7, ChangeFacts
<1> DEFINE y == w \cup z
<1>10. /\ DOMAIN v.images = {k \in DOMAIN d.images : SetImage(k, "row", 0) \notin w}
       /\ DOMAIN v.folders = {k \in DOMAIN d.folders : SetFolder(k, "row", 0) \notin w}
       /\ DOMAIN x.images = {k \in DOMAIN d.images : SetImage(k, "row", 0) \notin y}
       /\ DOMAIN x.folders = {k \in DOMAIN d.folders : SetFolder(k, "row", 0) \notin y}
  BY ApplyIs
<1>11. /\ \A k \in DOMAIN x.images :
             /\ x.images[k].src = Field(y, "i", k, "src", d.images[k].src)
             /\ x.images[k].folder = Field(y, "i", k, "folder", d.images[k].folder)
             /\ x.images[k].status = Field(y, "i", k, "status", d.images[k].status)
       /\ \A k \in DOMAIN x.folders :
             /\ x.folders[k].path = Field(y, "f", k, "path", d.folders[k].path)
             /\ x.folders[k].parent = Field(y, "f", k, "parent", d.folders[k].parent)
             /\ x.folders[k].status = Field(y, "f", k, "status", d.folders[k].status)
  BY ApplyIs
<1>8b. \A k : (SetImage(k, "row", 0) \in y <=> SetImage(k, "row", 0) \in w)
               /\ (SetFolder(k, "row", 0) \in y <=> SetFolder(k, "row", 0) \in w)
  BY <1>9
<1>8c. \A c, k, old : Field(y, c, k, "status", old) = Field(z, c, k, "status", old)
  BY <1>8
<1> HIDE DEF x, y
<1>12. DOMAIN x.images = DOMAIN v.images /\ DOMAIN x.folders = DOMAIN v.folders
  <2>1. \A k : k \in DOMAIN x.images <=> k \in DOMAIN v.images
    BY <1>8b, <1>10
  <2>2. \A k : k \in DOMAIN x.folders <=> k \in DOMAIN v.folders
    BY <1>8b, <1>10
  <2>3. DOMAIN x.images = DOMAIN v.images
    BY <2>1, <1>10
  <2>4. DOMAIN x.folders = DOMAIN v.folders
    BY <2>2, <1>10
  <2>5. QED
    BY <2>3, <2>4
<1>13. ASSUME NEW k \in DOMAIN v.images
       PROVE  /\ x.images[k].src = R(k)
              /\ x.images[k].folder = v.images[k].folder
              /\ x.images[k].status = v.images[k].status
  <2>1. /\ x.images[k].src = Field(y, "i", k, "src", v.images[k].src)
        /\ x.images[k].folder = Field(y, "i", k, "folder", v.images[k].folder)
        /\ x.images[k].status = Field(y, "i", k, "status", v.images[k].status)
    <3>1. v.images[k] = d.images[k] /\ k \in DOMAIN x.images
      BY <1>12
    <3>2. QED
      BY <1>11, <3>1
  <2>2. /\ x.images[k].src = Field(z, "i", k, "src", v.images[k].src)
        /\ x.images[k].folder = Field(z, "i", k, "folder", v.images[k].folder)
        /\ x.images[k].status = Field(z, "i", k, "status", v.images[k].status)
    <3>1. Field(y, "i", k, "src", v.images[k].src) = Field(z, "i", k, "src", v.images[k].src)
      BY <1>8 DEF y
    <3>2. Field(y, "i", k, "folder", v.images[k].folder) = Field(z, "i", k, "folder", v.images[k].folder)
      BY <1>8 DEF y
    <3>3. Field(y, "i", k, "status", v.images[k].status) = Field(z, "i", k, "status", v.images[k].status)
      BY <1>8c
    <3>4. QED
      BY <2>1, <3>1, <3>2, <3>3
  <2>3. \A u \in z : ~(u[1] = "i" /\ u[2] = k /\ u[3] = "folder")
                   /\ ~(u[1] = "i" /\ u[2] = k /\ u[3] = "status")
    BY <1>7
  <2>4. x.images[k].folder = v.images[k].folder
    BY <2>2, <2>3, FieldIs
  <2>5. x.images[k].status = v.images[k].status
    BY <2>2, <2>3, FieldIs
  <2>6. x.images[k].src = R(k)
    <3>1. CASE k \in I
      <4>1. SetImage(k, "src", R(k)) \in z
        BY <1>6, <3>1
      <4>2. \A u \in z : u[1] = "i" /\ u[2] = k /\ u[3] = "src" => u[4] = R(k)
        BY <1>7
      <4> DEFINE c == SetImage(k, "src", R(k))
      <4>3. c \in z /\ c[1] = "i" /\ c[2] = k /\ c[3] = "src"
        BY <4>1, <4>2, ChangeFacts
      <4> HIDE DEF c
      <4>4. Field(z, "i", k, "src", v.images[k].src) = R(k)
        BY <4>2, <4>3, FieldIs
      <4>5. QED
        BY <2>2, <4>4
    <3>2. CASE k \notin I
      <4>1. \A u \in z : ~(u[1] = "i" /\ u[2] = k /\ u[3] = "src")
        BY <1>7, <3>2
      <4>2. Field(z, "i", k, "src", v.images[k].src) = v.images[k].src
        BY <4>1, FieldIs
      <4>3. QED
        BY <1>3, <2>2, <3>2, <4>2
    <3>3. QED
      BY <3>1, <3>2
  <2>7. QED
    BY <2>4, <2>5, <2>6
<1>14. ASSUME NEW j \in DOMAIN v.folders
       PROVE  /\ x.folders[j].path = Q(j)
              /\ x.folders[j].parent = IF j = i THEN t ELSE v.folders[j].parent
              /\ x.folders[j].status = v.folders[j].status
  <2>1. /\ x.folders[j].path = Field(y, "f", j, "path", v.folders[j].path)
        /\ x.folders[j].parent = Field(y, "f", j, "parent", v.folders[j].parent)
        /\ x.folders[j].status = Field(y, "f", j, "status", v.folders[j].status)
    <3>1. v.folders[j] = d.folders[j] /\ j \in DOMAIN x.folders
      BY <1>12
    <3>2. QED
      BY <1>11, <3>1
  <2>2. /\ x.folders[j].path = Field(z, "f", j, "path", v.folders[j].path)
        /\ x.folders[j].parent = Field(z, "f", j, "parent", v.folders[j].parent)
        /\ x.folders[j].status = Field(z, "f", j, "status", v.folders[j].status)
    <3>1. Field(y, "f", j, "path", v.folders[j].path) = Field(z, "f", j, "path", v.folders[j].path)
      BY <1>8 DEF y
    <3>2. Field(y, "f", j, "parent", v.folders[j].parent) = Field(z, "f", j, "parent", v.folders[j].parent)
      BY <1>8 DEF y
    <3>3. Field(y, "f", j, "status", v.folders[j].status) = Field(z, "f", j, "status", v.folders[j].status)
      BY <1>8c
    <3>4. QED
      BY <2>1, <3>1, <3>2, <3>3
  <2>3. \A u \in z : ~(u[1] = "f" /\ u[2] = j /\ u[3] = "status")
    BY <1>7
  <2>4. x.folders[j].status = v.folders[j].status
    BY <2>2, <2>3, FieldIs
  <2>5. x.folders[j].path = Q(j)
    <3>1. CASE j \in F
      <4>1. SetFolder(j, "path", Q(j)) \in z
        BY <1>6, <3>1
      <4>2. \A u \in z : u[1] = "f" /\ u[2] = j /\ u[3] = "path" => u[4] = Q(j)
        BY <1>7
      <4> DEFINE c == SetFolder(j, "path", Q(j))
      <4>3. c \in z /\ c[1] = "f" /\ c[2] = j /\ c[3] = "path"
        BY <4>1, <4>2, ChangeFacts
      <4> HIDE DEF c
      <4>4. Field(z, "f", j, "path", v.folders[j].path) = Q(j)
        BY <4>2, <4>3, FieldIs
      <4>5. QED
        BY <2>2, <4>4
    <3>2. CASE j \notin F
      <4>1. \A u \in z : ~(u[1] = "f" /\ u[2] = j /\ u[3] = "path")
        BY <1>7, <3>2
      <4>2. Field(z, "f", j, "path", v.folders[j].path) = v.folders[j].path
        BY <4>1, FieldIs
      <4>3. QED
        BY <1>3, <2>2, <3>2, <4>2
    <3>3. QED
      BY <3>1, <3>2
  <2>6. x.folders[j].parent = IF j = i THEN t ELSE v.folders[j].parent
    <3>1. CASE j = i
      <4>1. \A u \in z : u[1] = "f" /\ u[2] = j /\ u[3] = "parent" => u[4] = t
        BY <1>7
      <4>2. SetFolder(j, "parent", t) \in z
        BY <1>6, <3>1
      <4> DEFINE c == SetFolder(i, "parent", t)
      <4>3. c \in z /\ c[1] = "f" /\ c[2] = j /\ c[3] = "parent"
        BY <3>1, <4>1, <4>2, ChangeFacts
      <4> HIDE DEF c
      <4>4. Field(z, "f", j, "parent", v.folders[j].parent) = t
        BY <4>1, <4>3, FieldIs
      <4>5. QED
        BY <2>2, <3>1, <4>4
    <3>2. CASE j # i
      <4>1. \A u \in z : ~(u[1] = "f" /\ u[2] = j /\ u[3] = "parent")
        BY <1>7, <3>2
      <4>2. QED
        BY <2>2, <3>2, <4>1, FieldIs
    <3>3. QED
      BY <3>1, <3>2
  <2>7. QED
    BY <2>4, <2>5, <2>6
<1>15. TreeMoved(v, x, i, t, from, to)
  BY <1>12, <1>13, <1>14 DEF TreeMoved, Q, R
<1>16. QED
  BY <1>15 DEF x, y

\* The records of the tree are in step where it is now.
LEMMA MovedIsFiled ==
  ASSUME NEW d, Nested(d), NEW D, NEW P, NEW from \in FolderPaths \ {Root}, NEW to \in FolderPaths \ {Root},
         Displaced(D, P, d, from, to), NEW r, NEW v, Pruned(d, v, to), Filed(v, r), Nested(v),
         NEW i \in DOMAIN v.folders, v.folders[i].path = from, ~IsPrefix(from, to),
         NEW t \in DOMAIN v.folders, v.folders[t].path = ParentOf(to),
         NEW x, TreeMoved(v, x, i, t, from, to)
  PROVE  Keyed(x) /\ InStep(D, P, x) /\ WellFiled(x) /\ HeldNested(d, x)
<1> DEFINE N(p) == NewPath(p, from, to)
<1>0. /\ from \in Seq(Names) /\ to \in Seq(Names) /\ ~IsPrefix(from, Root) /\ NoId \notin DOMAIN v.folders
      /\ \A j \in DOMAIN v.folders : v.folders[j].path \in Seq(Names)
      /\ \A k \in DOMAIN v.images : v.images[k].src \in FilePaths /\ v.images[k].src \in Seq(Names)
  BY PathFacts, RootIsOutside, RowsAreFinite DEF Filed, RowsOK, Image, Folder
<1>1. /\ \A p \in Seq(Names) : p # from => N(ParentOf(p)) = ParentOf(N(p))
      /\ \A p, q \in Seq(Names) : ~IsPrefix(to, p) /\ ~IsPrefix(to, q) /\ N(p) = N(q) => p = q
      /\ N(from) = to /\ N(Root) = Root
  BY <1>0, NewPathFacts DEF NewPath
<1>2. N(ParentOf(to)) = ParentOf(to)
  <2>1. ~IsPrefix(from, ParentOf(to))
    BY <1>0, ParentFacts, PrefixTrans
  <2>2. QED
    BY <2>1 DEF NewPath
<1> HIDE DEF N
<1>3. /\ DOMAIN x.images = DOMAIN v.images /\ DOMAIN x.folders = DOMAIN v.folders
      /\ \A k \in DOMAIN v.images : /\ x.images[k].src = N(v.images[k].src)
                                    /\ x.images[k].folder = v.images[k].folder
                                    /\ x.images[k].status = v.images[k].status
      /\ \A j \in DOMAIN v.folders :
             /\ x.folders[j].path = N(v.folders[j].path)
             /\ x.folders[j].parent = IF j = i THEN t ELSE v.folders[j].parent
             /\ x.folders[j].status = v.folders[j].status
  BY DEF TreeMoved, N
<1>4. /\ \A k \in DOMAIN v.images : /\ k \in DOMAIN d.images /\ v.images[k] = d.images[k]
                                    /\ ~IsPrefix(to, v.images[k].src)
      /\ \A j \in DOMAIN v.folders : /\ j \in DOMAIN d.folders /\ v.folders[j] = d.folders[j]
                                     /\ ~IsPrefix(to, v.folders[j].path)
  BY DEF Pruned
<1>5. Keyed(v) /\ WellFiled(v)
  BY DEF Filed
<1>6. Keyed(x)
  <2>1. ASSUME NEW k \in DOMAIN x.images, NEW l \in DOMAIN x.images, x.images[k].src = x.images[l].src
        PROVE  k = l
    <3>1. v.images[k].src = v.images[l].src
      BY <1>0, <1>1, <1>3, <1>4, <2>1
    <3>2. QED
      BY <1>3, <1>5, <3>1 DEF Keyed
  <2>2. ASSUME NEW k \in DOMAIN x.folders, NEW l \in DOMAIN x.folders, x.folders[k].path = x.folders[l].path
        PROVE  k = l
    <3>1. v.folders[k].path = v.folders[l].path
      BY <1>0, <1>1, <1>3, <1>4, <2>2
    <3>2. QED
      BY <1>3, <1>5, <3>1 DEF Keyed
  <2>3. \A k \in DOMAIN x.images : x.images[k].folder \in DOMAIN x.folders
    BY <1>3, <1>5 DEF Keyed
  <2>4. \A k \in DOMAIN x.folders : x.folders[k].parent \in DOMAIN x.folders \cup {NoId}
    BY <1>3, <1>5 DEF Keyed
  <2>5. QED
    BY <2>1, <2>2, <2>3, <2>4 DEF Keyed
<1>7. InStep(D, P, x)
  <2>1. ASSUME NEW k \in DOMAIN x.images
        PROVE  x.images[k].status = "active" <=> x.images[k].src \in P
    BY <1>3, <1>4 DEF Displaced, N
  <2>2. ASSUME NEW j \in DOMAIN x.folders, x.folders[j].status = "active"
        PROVE  x.folders[j].path \in D
    BY <1>3, <1>4, <2>2 DEF Displaced, N
  <2>3. QED
    BY <2>1, <2>2 DEF InStep
<1>8. WellFiled(x)
  <2>1. ASSUME NEW k \in DOMAIN x.images
        PROVE  x.folders[x.images[k].folder].path = ParentOf(x.images[k].src)
    <3>1. v.images[k].src # from /\ v.images[k].folder \in DOMAIN v.folders
          /\ v.folders[v.images[k].folder].path = ParentOf(v.images[k].src)
      BY <1>0, <1>3, <1>5, PathsAssumption DEF Keyed, WellFiled
    <3>2. QED
      BY <1>0, <1>1, <1>3, <3>1
  <2>2. ASSUME NEW j \in DOMAIN x.folders, x.folders[j].path # Root
        PROVE  /\ x.folders[j].parent # NoId
               /\ x.folders[x.folders[j].parent].path = ParentOf(x.folders[j].path)
    <3>1. CASE j = i
      BY <1>0, <1>1, <1>2, <1>3, <3>1
    <3>2. CASE j # i
      <4>1. v.folders[j].path # from /\ v.folders[j].path # Root
        BY <1>1, <1>3, <1>5, <2>2, <3>2 DEF Keyed
      <4>2. v.folders[j].parent # NoId /\ v.folders[j].parent \in DOMAIN v.folders
            /\ v.folders[v.folders[j].parent].path = ParentOf(v.folders[j].path)
        BY <1>3, <1>5, <4>1 DEF Keyed, WellFiled
      <4>3. QED
        BY <1>0, <1>1, <1>3, <3>2, <4>1, <4>2
    <3>3. QED
      BY <3>1, <3>2
  <2>3. QED
    BY <2>1, <2>2 DEF WellFiled
<1>9. HeldNested(d, x)
  <2>1. ASSUME NEW k \in DOMAIN x.images \cap DOMAIN d.images, x.images[k].status = "active"
        PROVE  x.folders[x.images[k].folder].status = "active"
    BY <1>3, <1>5, <2>1 DEF Nested, Keyed
  <2>2. ASSUME NEW j \in DOMAIN x.folders \cap DOMAIN d.folders, x.folders[j].status = "active",
               x.folders[j].parent = d.folders[j].parent, x.folders[j].parent # NoId
        PROVE  x.folders[x.folders[j].parent].status = "active"
    <3>1. v.folders[j] = d.folders[j] /\ v.folders[j].status = "active"
      BY <1>3, <1>4, <2>2
    <3>2. v.folders[j].parent \in DOMAIN v.folders
          /\ v.folders[v.folders[j].parent].status = "active"
      BY <1>3, <1>5, <2>2, <3>1 DEF Nested, Keyed
    <3>3. QED
      BY <1>3, <2>2, <3>1, <3>2
  <2>3. QED
    BY <2>1, <2>2 DEF HeldNested
<1>10. QED
  BY <1>6, <1>7, <1>8, <1>9

\* The rows of new folders have IDs that no row had.
LEMMA NewRowsAreNew ==
  ASSUME NEW d, RowsOK(d), NEW p \in FolderPaths, next.folder \in Nat \ {0}, HaveFolderIds(d, p)
  PROVE  \A i \in DOMAIN WithFolders(d, p).folders : i \in DOMAIN d.folders \/ i >= next.folder
<1> DEFINE M     == MissingFolders(d, p)
           Nr(q) == next.folder + Cardinality({r \in M : Len(r) < Len(q)})
           Id(q) == IF q \in M THEN Nr(q) ELSE TheFolder(d, q)
           New   == {Id(q) : q \in M}
           At(i) == CHOOSE q \in M : Id(q) = i
           e     == WithFolders(d, p)
<1>1. e.folders = [i \in DOMAIN d.folders \cup New |->
             IF i \in New
             THEN [path |-> At(i), parent |-> Id(ParentOf(At(i))), status |-> "active"]
             ELSE d.folders[i]]
  BY DEF RowsOK, WithFolders
<1>2. \A q \in M : Nr(q) >= next.folder
  BY NewFolderIds
<1>3. \A i \in New : \E q \in M : i = Nr(q)
  OBVIOUS
<1>4. DOMAIN e.folders = DOMAIN d.folders \cup New
  <2> HIDE DEF e, New, At, Id
  <2>1. QED
    BY <1>1
<1> HIDE DEF e, New, Nr
<1>5. QED
  BY <1>2, <1>3, <1>4 DEF e

LEMMA PrunedShown ==
  ASSUME NEW d, NEW v, NEW to, Pruned(d, v, to), NEW e, NEW M, Extended(v, e, M),
         \A j \in DOMAIN e.folders \ DOMAIN v.folders : j \notin DOMAIN d.folders,
         Shown(d, e)
  PROVE  Shown(v, e)
<1>1. e.images = v.images
      /\ \A j \in DOMAIN v.folders : j \in DOMAIN e.folders /\ e.folders[j] = v.folders[j]
  BY DEF Extended
<1>2. QED
  BY <1>1 DEF Shown

\* The parent of the target is made, in a transaction that also purges the target.
LEMMA ParentsAreMade ==
  ASSUME NEW d, NEW D, NEW P, NEW from \in FolderPaths \ {Root}, NEW to \in FolderPaths \ {Root},
         Displaced(D, P, d, from, to), Above(ParentOf(to)) \subseteq D, ~IsPrefix(from, to),
         NEW v, Pruned(d, v, to), NEW e, Extended(v, e, MissingFolders(v, ParentOf(to)))
  PROVE  Displaced(D, P, e, from, to) /\ FoldersAt(e, to) = {}
<1> DEFINE M == MissingFolders(v, ParentOf(to))
<1>0. from \in Seq(Names) /\ to \in Seq(Names) /\ to # <<>> /\ ParentOf(to) \in Seq(Names)
      /\ IsPrefix(ParentOf(to), to) /\ IsPrefix(to, to)
  BY PathFacts, ParentFacts, PrefixSelf DEF Root
<1>1. ASSUME NEW q \in M PROVE ~IsPrefix(to, q) /\ NewPath(q, from, to) \in D
  <2>1. q \in FolderPaths /\ IsPrefix(q, ParentOf(to)) /\ q \in Seq(Names)
    BY PathFacts DEF MissingFolders
  <2>2. ~IsPrefix(to, q)
    <3>1. Len(q) <= Len(ParentOf(to)) /\ Len(ParentOf(to)) = Len(to) - 1
      BY <1>0, <2>1, ParentFacts DEF IsPrefix
    <3>2. Len(q) \in Nat /\ Len(to) \in Nat /\ Len(ParentOf(to)) \in Nat
      BY <1>0, <2>1, LenProperties
    <3>3. QED
      BY <3>1, <3>2 DEF IsPrefix
  <2>3. ~IsPrefix(from, q)
    <3>1. IsPrefix(q, to)
      BY <1>0, <2>1, PrefixTrans
    <3>2. QED
      BY <1>0, <2>1, <3>1, PrefixTrans
  <2>4. q \in D
    BY <2>1 DEF Above
  <2>5. QED
    BY <2>2, <2>3, <2>4 DEF NewPath
<1> HIDE DEF M
<1>2. /\ e.images = v.images
      /\ \A j \in DOMAIN e.folders : \/ j \in DOMAIN v.folders /\ e.folders[j] = v.folders[j]
                                     \/ e.folders[j].path \in M
  BY DEF Extended, M
<1>3. \A k \in DOMAIN v.images : k \in DOMAIN d.images /\ v.images[k] = d.images[k]
  BY DEF Pruned
<1>4. \A j \in DOMAIN v.folders : j \in DOMAIN d.folders /\ v.folders[j] = d.folders[j]
                                  /\ ~IsPrefix(to, v.folders[j].path)
  BY DEF Pruned
<1>5. Displaced(D, P, e, from, to)
  <2>1. \A k \in DOMAIN e.images :
            e.images[k].status = "active" <=> /\ ~IsPrefix(to, e.images[k].src)
                                              /\ NewPath(e.images[k].src, from, to) \in P
    BY <1>2, <1>3 DEF Displaced
  <2>2. \A j \in DOMAIN e.folders : e.folders[j].status = "active" =>
            ~IsPrefix(to, e.folders[j].path) /\ NewPath(e.folders[j].path, from, to) \in D
    BY <1>1, <1>2, <1>4 DEF Displaced
  <2>3. QED
    BY <2>1, <2>2 DEF Displaced
<1>6. FoldersAt(e, to) = {}
  BY <1>0, <1>1, <1>2, <1>4 DEF FoldersAt
<1>7. QED
  BY <1>5, <1>6

PathChanges(v, i, t, F, I, from, to) ==
    {SetFolder(i, "path", to), SetFolder(i, "parent", t)} \cup
    {SetFolder(j, "path", Rebase(v.folders[j].path, from, to)) : j \in F \ {i}} \cup
    {SetImage(k, "src", Rebase(v.images[k].src, from, to)) : k \in I}

\* All paths of the tree can be changed, and the database takes the changes.
LEMMA TreeIsMoved ==
  ASSUME NEW r, Here(r), NEW a \in Threads, Filed(db, r), Nested(db), MovesTree(act[a], db),
         NEW from \in FolderPaths \ {Root}, NEW to \in FolderPaths \ {Root},
         from = act[a].path, to = act[a].to,
         NEW D, NEW P, Displaced(D, P, db, from, to),
         NEW v, v = View(a), NEW t \in DOMAIN v.folders, v.folders[t].path = ParentOf(to),
         NEW F, F = WholeTree(v, act[a].fid), NEW I, I = ImagesIn(v, F),
         NEW z, z = PathChanges(v, act[a].fid, t, F, I, from, to),
         \A u \in act[a].pend \cup z : GoodChange(u)
  PROVE  EndsTidy(act[a].pend \cup z, D, P, db)
<1> DEFINE i == act[a].fid
           w == act[a].pend
           x == Apply(db, w \cup z)
<1>1. Pruned(db, v, to) /\ \A u \in w : u[3] = "row"
  BY TargetPurged DEF View
<1>2. Filed(v, r) /\ Nested(v)
  BY <1>1, PrunedIsFiled
<1>3. i \in DOMAIN v.folders /\ v.folders[i].path = from /\ ~IsPrefix(from, to)
  BY <1>1 DEF MovesTree, Pruned
<1>4. F = {j \in DOMAIN v.folders : IsPrefix(from, v.folders[j].path)}
  <2> HIDE DEF i
  <2>1. F = WholeTree(v, i)
    BY DEF i
  <2>2. WholeTree(v, i) = {j \in DOMAIN v.folders : IsBelow(v, i, j)}
    BY <1>2, <1>3, WholeTreeIsBelow
  <2>3. \A j \in DOMAIN v.folders : IsBelow(v, i, j) <=> IsPrefix(from, v.folders[j].path)
    BY <1>3 DEF IsBelow
  <2>4. \A j \in DOMAIN v.folders : j \in F <=> IsPrefix(from, v.folders[j].path)
    BY <2>1, <2>2, <2>3
  <2>5. F \subseteq DOMAIN v.folders
    BY <2>1, <2>2
  <2>6. QED
    BY <2>4, <2>5
<1>5. I = {k \in DOMAIN v.images : IsPrefix(from, v.images[k].src)}
  <2>1. I = {k \in DOMAIN v.images : v.images[k].folder \in F}
    BY DEF ImagesIn
  <2>2. ASSUME NEW k \in DOMAIN v.images
        PROVE  v.images[k].folder \in F <=> IsPrefix(from, v.images[k].src)
    <3>1. /\ v.images[k].folder \in DOMAIN v.folders
          /\ IsPrefix(from, v.images[k].src) <=> IsBelow(v, i, v.images[k].folder)
      BY <1>2, <1>3, ImageBelow
    <3>2. QED
      BY <1>3, <1>4, <3>1 DEF IsBelow
  <2>3. QED
    BY <2>1, <2>2
<1>6. from \in Seq(Names) /\ to \in Seq(Names)
  BY PathFacts
<1> HIDE DEF i, w
<1>7. Repaths(z, v, i, t, F, I, from, to)
  <2>1. z = {SetFolder(i, "path", to), SetFolder(i, "parent", t)} \cup
            {SetFolder(j, "path", Rebase(v.folders[j].path, from, to)) : j \in F \ {i}} \cup
            {SetImage(k, "src", Rebase(v.images[k].src, from, to)) : k \in I}
    BY DEF i, PathChanges
  <2>2. QED
    BY ONLY <1>3, <1>4, <1>5, <1>6, <2>1, TreeIsRepathed
<1>8. TreeMoved(v, x, i, t, from, to)
  <2>1. v = Apply(db, w)
    BY DEF View, w
  <2>2. /\ \A k \in DOMAIN v.images : v.images[k] = db.images[k]
        /\ \A j \in DOMAIN v.folders : v.folders[j] = db.folders[j]
    BY <1>1 DEF Pruned
  <2> HIDE DEF x
  <2>3. QED
    BY <1>1, <1>7, <2>1, <2>2, MovedRows DEF x
<1>9. RowsOK(x)
  BY RowsHere, ApplyType DEF w
<1> HIDE DEF x
<1>10. Keyed(x) /\ InStep(D, P, x) /\ WellFiled(x) /\ HeldNested(db, x)
  BY <1>1, <1>2, <1>3, <1>8, MovedIsFiled
<1>11. Accepted(db, w \cup z)
  <2>1. Sound(x)
    BY <1>9, <1>10, SoundIsKeyed
  <2>2. \A u \in w \cup z : u[3] # "row" =>
            IF u[1] = "i" THEN u[2] \in DOMAIN db.images ELSE u[2] \in DOMAIN db.folders
    <3> SUFFICES ASSUME NEW u \in w \cup z, u[3] # "row"
                 PROVE  IF u[1] = "i" THEN u[2] \in DOMAIN db.images ELSE u[2] \in DOMAIN db.folders
      OBVIOUS
    <3>1. u \in z
      BY <1>1
    <3>2. DOMAIN v.images \subseteq DOMAIN db.images /\ DOMAIN v.folders \subseteq DOMAIN db.folders
      BY <1>1 DEF Pruned
    <3>3. PICK k : u \in {SetImage(k, "src", Rebase(v.images[k].src, from, to)), 
                          SetFolder(k, "path", to), SetFolder(k, "parent", t),
                          SetFolder(k, "path", Rebase(v.folders[k].path, from, to))}
                   /\ (u[1] = "i" => k \in I) /\ (u[1] # "i" => k \in F \cup {i})
      BY <3>1, ChangeFacts DEF i, PathChanges
    <3>4. u[2] = k
      BY <3>3, ChangeFacts
    <3>5. QED
      BY <1>3, <1>4, <1>5, <3>2, <3>3, <3>4
  <2>3. QED
    BY <2>1, <2>2 DEF Accepted, x
<1>12. QED
  BY <1>10, <1>11 DEF EndsTidy, x, w

LEMMA MoveFolderRecordLeads ==
  ASSUME NEW r, Here(r), NEW a \in Threads, Stands(a), MoveFolderRecord(a)
  PROVE  Leads(a)
<1> DEFINE from == act[a].path
           to   == act[a].to
           i    == act[a].fid
           w    == act[a].pend
           P    == DOMAIN files
           v    == View(a)
           M    == MissingFolders(v, ParentOf(to))
           e    == WithFolders(v, ParentOf(to))
           t    == TheFolder(v, ParentOf(to))
           F    == WholeTree(v, i)
           I    == ImagesIn(v, F)
           Fits(p, S) == IsPrefix(from, p) /\ Rebase(p, from, to) \in S
           ok   == /\ i \in DOMAIN v.folders
                   /\ \A j \in F \ {i} : Fits(v.folders[j].path, FolderPaths)
                   /\ \A k \in I : Fits(v.images[k].src, FilePaths)
           z    == {SetFolder(i, "path", to), SetFolder(i, "parent", t)} \cup
                   {SetFolder(j, "path", Rebase(v.folders[j].path, from, to)) : j \in F \ {i}} \cup
                   {SetImage(k, "src", Rebase(v.images[k].src, from, to)) : k \in I}
           s    == [act[a] EXCEPT !.pend = {}]
           c    == [act[a] EXCEPT !.pc = "commit", !.pend = w \cup z]
<1>0. /\ DOMAIN act[a] = Fields /\ act[a].pc = "mvf_record" /\ UNCHANGED <<dirs, files>>
      /\ RowsOK(db) /\ from \in FolderPaths \ {Root} /\ to \in FolderPaths \ {Root}
      /\ act[a].op # "movefile" /\ RootRow(db, r)
  <2>1. Shape(act[a]) /\ act[a].pc = "mvf_record" /\ UNCHANGED <<dirs, files>>
    BY DEF MoveFolderRecord, disk, Here, SessionsInv
  <2>2. FolderPaths \cap FilePaths = {}
    BY PathsAssumption
  <2>3. QED
    BY <2>1, <2>2, RowsHere DEF Shape
<1>1. /\ MovesTree(act[a], db) /\ WellFiled(db) /\ Nested(db)
      /\ Displaced(dirs, P, db, from, to) /\ Above(ParentOf(to)) \subseteq dirs
  BY <1>0 DEF Stands, Stage
<1>2. Filed(db, r)
  BY <1>1, RowsHere
<1>3. Pruned(db, v, to) /\ \A u \in w : u[3] = "row"
  BY <1>0, <1>1, <1>2, TargetPurged DEF View
<1>4. Filed(v, r) /\ Nested(v) /\ RowsOK(v) /\ Keyed(v)
  BY <1>0, <1>1, <1>2, <1>3, PrunedIsFiled DEF Filed
<1>5. i \in DOMAIN v.folders /\ v.folders[i].path = from /\ ~IsPrefix(from, to)
      /\ ParentOf(to) \in FolderPaths
  BY <1>0, <1>1, <1>3, PathFacts DEF MovesTree, Pruned
<1>6. CanCommit(w)
  <2>1. Sound(v)
    BY <1>4, SoundIsKeyed
  <2>2. QED
    BY <1>3, <2>1 DEF CanCommit, View
<1>7. ok
  <2>1. ASSUME NEW j \in F PROVE Fits(v.folders[j].path, FolderPaths)
    <3>1. j \in DOMAIN v.folders /\ IsPrefix(from, v.folders[j].path)
      BY <1>4, <1>5, WholeTreeIsBelow DEF IsBelow
    <3>2. v.folders[j].path \in FolderPaths
      BY <1>4, <3>1, ParentRow
    <3>3. QED
      BY <1>1, <3>1, <3>2 DEF MovesTree
  <2>2. ASSUME NEW k \in I PROVE Fits(v.images[k].src, FilePaths)
    <3>1. k \in DOMAIN v.images /\ v.images[k].folder \in F
      BY DEF ImagesIn
    <3>2. IsBelow(v, i, v.images[k].folder)
      BY <1>4, <1>5, <3>1, WholeTreeIsBelow
    <3>3. IsPrefix(from, v.images[k].src)
      BY <1>4, <1>5, <3>1, <3>2, ImageBelow
    <3>4. v.images[k].src \in FilePaths
      BY <1>4, <3>1 DEF RowsOK, Image
    <3>5. QED
      BY <1>1, <3>3, <3>4 DEF MovesTree
  <2>3. QED
    BY <1>5, <2>1, <2>2
<1>8. \/ M # {} /\ HaveFolderIds(v, ParentOf(to)) /\ db' = e /\ Go(a, s)
      \/ M = {} /\ Go(a, c) /\ db' = db
  <2> HIDE DEF M, e, s
  <2>1. \/ M # {} /\ HaveFolderIds(v, ParentOf(to)) /\ db' = e /\ Go(a, s)
        \/ M = {} /\ ok /\ Go(a, c) /\ db' = db
        \/ M = {} /\ ~ok
        \/ M # {} /\ ~CanCommit(w)
    BY DEF MoveFolderRecord, M, e, s
  <2> HIDE DEF ok, c, v, w
  <2>2. QED
    BY <1>6, <1>7, <2>1
<1>9. CASE M # {} /\ HaveFolderIds(v, ParentOf(to)) /\ db' = e /\ Go(a, s)
  <2> HIDE DEF ok, c, z, F, I, t
  <2>1. /\ next.folder \in Nat \ {0} /\ DOMAIN next = {"image", "folder"}
        /\ \A j \in DOMAIN v.folders : j < next.folder
        /\ \A j \in DOMAIN db.folders : j < next.folder
    BY <1>3 DEF Here, RowsInv, Pruned
  <2> HIDE DEF v
  <2>2. Extended(v, e, M)
    BY <1>4, <1>5, <1>9, <2>1, WithFoldersExtends
  <2>3. \A j \in DOMAIN e.folders \ DOMAIN v.folders : j \notin DOMAIN db.folders
    <3>1. \A j \in DOMAIN e.folders : j \in DOMAIN v.folders \/ j >= next.folder
      BY <1>4, <1>5, <1>9, <2>1, NewRowsAreNew
    <3>2. DOMAIN db.folders \subseteq Nat
      BY <1>0 DEF RowsOK, FolderIds
    <3> HIDE DEF e
    <3>3. QED
      BY <2>1, <3>1, <3>2
  <2>4. Displaced(dirs, P, e, from, to) /\ FoldersAt(e, to) = {}
    <3> HIDE DEF e, from, to, P
    <3>1. QED
      BY <1>0, <1>1, <1>3, <1>5, <2>2, ParentsAreMade
  <2>5. Shown(db, e) => WellFiled(e) /\ Nested(e)
    <3> HIDE DEF e, M
    <3>1. Shown(db, e) => Shown(v, e)
      BY <1>3, <2>2, <2>3, PrunedShown
    <3>2. QED
      BY <1>4, <2>2, <3>1, ExtendedIsNested DEF Filed
  <2>6. /\ s.pc = "mvf_record" /\ s.op = act[a].op /\ s.path = from /\ s.fid = i
        /\ s.pend = {} /\ s.to = to
    BY <1>0 DEF Fields
  <2>7. Go(a, s)
    BY <1>9
  <2> HIDE DEF s
  <2>8. MovesTree(s, e)
    <3>1. i \in DOMAIN e.folders /\ e.folders[i].path = from
      BY <1>5, <2>2 DEF Extended
    <3>2. s.pend = IF FoldersAt(e, s.to) = {} THEN {} ELSE PurgeTree(e, TheFolder(e, s.to))
      BY <2>4, <2>6
    <3> HIDE DEF e
    <3>3. QED
      BY <1>1, <2>6, <3>1, <3>2 DEF MovesTree
  <2> HIDE DEF e, M
  <2>9. Shown(db, e) => Stage(s, dirs, P, e)
    BY <1>0, <1>1, <2>4, <2>5, <2>6, <2>8 DEF Stage, AtRest, AtFolder
  <2>10. QED
    BY <1>0, <1>9, <2>6, <2>7, <2>9, LeadsOn
<1>10. CASE M = {} /\ Go(a, c) /\ db' = db
  <2> HIDE DEF ok, e, s
  <2>1. t \in DOMAIN v.folders /\ v.folders[t].path = ParentOf(to)
    <3>1. FoldersAt(v, ParentOf(to)) # {}
      BY <1>5, <1>10, PathFacts, PrefixSelf DEF MissingFolders
    <3>2. QED
      BY <3>1, FolderFound
  <2>2. c.pc = "commit" /\ c.op = act[a].op /\ c.pend = w \cup z
    BY <1>0 DEF Fields
  <2> HIDE DEF M, t, F, I
  <2>3. \A u \in w \cup z : GoodChange(u)
    <3>1. \A u \in w : GoodChange(u)
      BY DEF Here, SessionsInv, Shape
    <3> HIDE DEF w
    <3>2. t \in FolderIds
      BY <1>4, <2>1 DEF RowsOK
    <3> HIDE DEF v
    <3>3. \A u \in z :
              \/ u = SetFolder(i, "path", to)
              \/ u = SetFolder(i, "parent", t)
              \/ \E j \in F \ {i} : u = SetFolder(j, "path", Rebase(v.folders[j].path, from, to))
              \/ \E k \in I : u = SetImage(k, "src", Rebase(v.images[k].src, from, to))
      OBVIOUS
    <3>4. \A u \in z : GoodChange(u)
      BY <1>0, <1>7, <3>2, <3>3, GoodChanges DEF ok
    <3>5. QED
      BY <3>1, <3>4
  <2> USE DEF M, t, F, I
  <2>4. EndsTidy(w \cup z, dirs, P, db)
    <3> HIDE DEF P, v
    <3>1. /\ v = View(a) /\ F = WholeTree(v, i) /\ I = ImagesIn(v, F)
          /\ z = PathChanges(v, i, t, F, I, from, to)
      BY DEF v, PathChanges
    <3> HIDE DEF F, I, z, t, M
    <3>2. from = act[a].path /\ to = act[a].to
      OBVIOUS
    <3> HIDE DEF from, to
    <3>3. QED
      BY <1>0, <1>1, <1>2, <2>1, <2>3, <3>1, <3>2, TreeIsMoved
  <2> HIDE DEF c, w, z
  <2>5. Stage(c, dirs, P, db)
    BY <1>0, <2>2, <2>4 DEF Stage, AtRest, AtFolder
  <2>6. QED
    BY <1>0, <1>10, <2>2, <2>5, LeadsOn
<1>11. QED
  BY <1>8, <1>9, <1>10

-----------------------------------------------------------------------------
(* The starts of the operations. *)

\* Rows that are purged and nothing else leave the others in step.
LEMMA PurgeEnds ==
  ASSUME NEW d, RowsOK(d), NEW D, NEW P, Tidy(D, P, d), NEW w,
         \A u \in w : u[3] = "row"
  PROVE  EndsTidy(w, D, P, d)
<1> DEFINE x == Apply(d, w)
<1>1. RowsOK(x)
  BY ApplyType DEF GoodChange
<1>2. /\ DOMAIN x.images = {i \in DOMAIN d.images : SetImage(i, "row", 0) \notin w}
      /\ DOMAIN x.folders = {i \in DOMAIN d.folders : SetFolder(i, "row", 0) \notin w}
      /\ \A i \in DOMAIN x.images :
             /\ x.images[i].src = Field(w, "i", i, "src", d.images[i].src)
             /\ x.images[i].folder = Field(w, "i", i, "folder", d.images[i].folder)
             /\ x.images[i].status = Field(w, "i", i, "status", d.images[i].status)
      /\ \A i \in DOMAIN x.folders :
             /\ x.folders[i].path = Field(w, "f", i, "path", d.folders[i].path)
             /\ x.folders[i].parent = Field(w, "f", i, "parent", d.folders[i].parent)
             /\ x.folders[i].status = Field(w, "f", i, "status", d.folders[i].status)
  BY ApplyIs
<1>3. \A t, i, f, old : f # "row" => Field(w, t, i, f, old) = old
  BY FieldIs
<1> HIDE DEF x
<1>4. \A i \in DOMAIN x.images :
          /\ i \in DOMAIN d.images /\ x.images[i].src = d.images[i].src
          /\ x.images[i].folder = d.images[i].folder /\ x.images[i].status = d.images[i].status
  BY <1>2, <1>3
<1>5. \A i \in DOMAIN x.folders :
          /\ i \in DOMAIN d.folders /\ x.folders[i].path = d.folders[i].path
          /\ x.folders[i].parent = d.folders[i].parent /\ x.folders[i].status = d.folders[i].status
  BY <1>2, <1>3
<1>6. ASSUME Accepted(d, w) PROVE InStep(D, P, x) /\ WellFiled(x) /\ HeldNested(d, x)
  <2>1. Keyed(x)
    BY <1>1, <1>6, SoundIsKeyed DEF Accepted, x
  <2>2. InStep(D, P, x)
    BY <1>4, <1>5 DEF Tidy, InStep
  <2>3. WellFiled(x)
    <3>1. ASSUME NEW i \in DOMAIN x.images
          PROVE  x.folders[x.images[i].folder].path = ParentOf(x.images[i].src)
      BY <1>4, <1>5, <2>1 DEF Tidy, WellFiled, Keyed
    <3>2. ASSUME NEW i \in DOMAIN x.folders, x.folders[i].path # Root
          PROVE  /\ x.folders[i].parent # NoId
                 /\ x.folders[x.folders[i].parent].path = ParentOf(x.folders[i].path)
      BY <1>5, <2>1, <3>2 DEF Tidy, WellFiled, Keyed
    <3>3. QED
      BY <3>1, <3>2 DEF WellFiled
  <2>4. HeldNested(d, x)
    <3>1. ASSUME NEW i \in DOMAIN x.images, x.images[i].status = "active"
          PROVE  x.folders[x.images[i].folder].status = "active"
      BY <1>4, <1>5, <2>1, <3>1 DEF Tidy, Nested, Keyed
    <3>2. ASSUME NEW i \in DOMAIN x.folders, x.folders[i].status = "active",
                 x.folders[i].parent # NoId
          PROVE  x.folders[x.folders[i].parent].status = "active"
      BY <1>5, <2>1, <3>2 DEF Tidy, Nested, Keyed
    <3>3. QED
      BY <3>1, <3>2 DEF HeldNested
  <2>5. QED
    BY <2>2, <2>3, <2>4
<1>7. QED
  BY <1>6 DEF EndsTidy, x

LEMMA StartsLead ==
  ASSUME NEW r, Here(r), NEW a \in Threads, act[a] = Idle, Tidy(dirs, DOMAIN files, db), Start(a)
  PROVE  Leads(a)
<1> DEFINE P == DOMAIN files
<1>1. ASSUME NEW p \in FilePaths, Lookup(a, p) PROVE Leads(a)
  <2> DEFINE s == [act[a] EXCEPT !.op = "lookup", !.path = p, !.pc = "have"]
  <2>1. Go(a, s) /\ UNCHANGED <<dirs, files, db>>
    BY <1>1 DEF Lookup, LookupStart, disk
  <2>2. s.op = "lookup" /\ s.pc = "have" /\ s.path = p
    BY DEF Idle
  <2> HIDE DEF s
  <2>3. Stage(s, dirs, P, db)
    BY <2>2 DEF Stage, AtRest, AtFolder
  <2>4. QED
    BY <2>1, <2>2, <2>3, LeadsOn
<1>2. ASSUME NEW i \in 1..MaxImages, NEW p \in FilePaths, MoveFile(a, i, p) PROVE Leads(a)
  <2> DEFINE s == [act[a] EXCEPT !.op = "movefile", !.pc = "folderhave", !.id = i,
                                 !.rec = db.images[i], !.to = p, !.path = ParentOf(p)]
  <2>1. /\ Go(a, s) /\ UNCHANGED <<dirs, files, db>>
        /\ i \in DOMAIN db.images /\ p # db.images[i].src /\ ParentOf(p) \in dirs
    BY <1>2 DEF MoveFile, MoveFileStart, disk
  <2>2. /\ s.op = "movefile" /\ s.pc = "folderhave" /\ s.path = ParentOf(p) /\ s.to = p
        /\ s.id = i /\ s.rec = db.images[i] /\ s.pend = {}
    BY DEF Idle
  <2> HIDE DEF s
  <2>3. Stage(s, dirs, P, db)
    BY <2>1, <2>2 DEF Stage, AtRest, AtFolder, Loaded
  <2>4. QED
    BY <2>1, <2>2, <2>3, LeadsOn
<1>3. ASSUME NEW i \in 1..MaxImages, DeleteFile(a, i) PROVE Leads(a)
  <2> DEFINE s == [act[a] EXCEPT !.op = "delete", !.pc = "rm", !.id = i, !.rec = db.images[i]]
  <2>1. Go(a, s) /\ UNCHANGED <<dirs, files, db>> /\ i \in DOMAIN db.images
    BY <1>3 DEF DeleteFile, DeleteFileStart, disk
  <2>2. s.op = "delete" /\ s.pc = "rm" /\ s.id = i /\ s.rec = db.images[i]
    BY DEF Idle
  <2> HIDE DEF s
  <2>3. Stage(s, dirs, P, db)
    BY <2>1, <2>2 DEF Stage, AtRest, AtFolder, Loaded
  <2>4. QED
    BY <2>1, <2>2, <2>3, LeadsOn
\* More folders on disk.
<1>4. ASSUME NEW Q PROVE Tidy(dirs \cup Q, P, db)
  BY DEF Tidy, InStep
<1>5. ASSUME NEW p \in FilePaths, NEW o \in BOOLEAN, Upload(a, p, o) PROVE Leads(a)
  <2> DEFINE s == [act[a] EXCEPT !.op = "upload", !.pc = "write", !.path = p, !.saw = o]
             D == dirs \cup Above(ParentOf(p))
  <2>1. Go(a, s) /\ UNCHANGED <<files, db>> /\ dirs' = D
    BY <1>5 DEF Upload, UploadStart
  <2>2. s.op = "upload" /\ s.pc = "write"
    BY DEF Idle
  <2>3. Tidy(D, P, db)
    BY <1>4
  <2> HIDE DEF s, D
  <2>4. Stage(s, D, P, db)
    BY <2>2, <2>3 DEF Stage, AtRest, AtFolder
  <2>5. QED
    BY <2>1, <2>2, <2>4, LeadsOn
<1>6. ASSUME NEW p \in FolderPaths, CreateFolder(a, p) PROVE Leads(a)
  <2> DEFINE s == [act[a] EXCEPT !.op = "create", !.pc = "folderhave", !.path = p]
             D == dirs \cup Above(p)
  <2>1. Go(a, s) /\ UNCHANGED <<files, db>> /\ dirs' = D
    BY <1>6 DEF CreateFolder, CreateFolderStart
  <2>2. s.op = "create" /\ s.pc = "folderhave" /\ s.path = p /\ s.pend = {}
    BY DEF Idle
  <2>3. Tidy(D, P, db) /\ p \in D
    BY <1>4, PathFacts, PrefixSelf DEF Above
  <2> HIDE DEF s, D
  <2>4. Stage(s, D, P, db)
    BY <2>2, <2>3 DEF Stage, AtRest, AtFolder
  <2>5. QED
    BY <2>1, <2>2, <2>4, LeadsOn
<1>7. ASSUME NEW i \in 1..MaxFolders, NEW to \in FolderPaths, MoveFolder(a, i, to) PROVE Leads(a)
  <2> DEFINE from == db.folders[i].path
             w == IF FoldersAt(db, to) = {} THEN {} ELSE PurgeTree(db, TheFolder(db, to))
             s == [act[a] EXCEPT !.op = "movefolder", !.pc = "mvf_disk", !.fid = i,
                                 !.path = from, !.to = to, !.pend = w]
  <2>1. /\ Go(a, s) /\ UNCHANGED <<dirs, files, db>>
        /\ i \in DOMAIN db.folders /\ from \in dirs /\ to \notin dirs /\ ~IsPrefix(from, to)
        /\ \A S \in {FolderPaths, FilePaths} : \A p \in S :
               IsPrefix(from, p) => Rebase(p, from, to) \in S
    BY <1>7 DEF MoveFolder, MoveFolderStart, disk
  <2>2. /\ s.op = "movefolder" /\ s.pc = "mvf_disk" /\ s.fid = i /\ s.path = from /\ s.to = to
        /\ s.pend = w
    BY DEF Idle
  <2>3. ~IsPrefix(to, from)
    BY <2>1, AboveOnDisk DEF Here
  <2> HIDE DEF s
  <2>4. MovesTree(s, db)
    BY <2>1, <2>2, <2>3 DEF MovesTree
  <2> HIDE DEF w, from
  <2>5. Stage(s, dirs, P, db)
    BY <2>1, <2>2, <2>4 DEF Stage, AtRest, AtFolder
  <2>6. QED
    BY <2>1, <2>2, <2>5, LeadsOn
<1>8. ASSUME NEW i \in 1..MaxFolders, DeleteFolder(a, i) PROVE Leads(a)
  <2> DEFINE s == [act[a] EXCEPT !.op = "deletefolder", !.pc = "rmf", !.fid = i,
                     !.path = db.folders[i].path, !.saw = db.folders[i].status = "active"]
  <2>1. Go(a, s) /\ UNCHANGED <<dirs, files, db>> /\ i \in DOMAIN db.folders
    BY <1>8 DEF DeleteFolder, DeleteFolderStart, disk
  <2>2. /\ s.op = "deletefolder" /\ s.pc = "rmf" /\ s.fid = i /\ s.path = db.folders[i].path
        /\ s.saw <=> db.folders[i].status = "active"
    BY DEF Idle
  <2> HIDE DEF s
  <2>3. Stage(s, dirs, P, db)
    BY <2>1, <2>2 DEF Stage, AtRest, AtFolder
  <2>4. QED
    BY <2>1, <2>2, <2>3, LeadsOn
<1>9. ASSUME NEW i \in 1..MaxFolders, Purge(a, i) PROVE Leads(a)
  <2> DEFINE w == PurgeImages(DeletedImages(db, i)) \cup PurgeFolders(EmptiedFolders(db, i))
             s == [act[a] EXCEPT !.op = "purge", !.pc = "commit", !.pend = w]
  <2>1. Go(a, s) /\ UNCHANGED <<dirs, files, db>>
    BY <1>9 DEF Purge, PurgeStart, disk
  <2>2. \A u \in w : u[3] = "row"
    BY ChangeFacts DEF PurgeImages, PurgeFolders
  <2> HIDE DEF w
  <2>3. s.op = "purge" /\ s.pc = "commit" /\ s.pend = w
    BY DEF Idle
  <2> HIDE DEF s
  <2>4. EndsTidy(w, dirs, P, db)
    BY <2>2, RowsHere, PurgeEnds
  <2>5. Stage(s, dirs, P, db)
    BY <2>3, <2>4 DEF Stage, AtRest, AtFolder
  <2>6. QED
    BY <2>1, <2>3, <2>5, LeadsOn
<1>10. QED
  BY <1>1, <1>2, <1>3, <1>5, <1>6, <1>7, <1>8, <1>9 DEF Start

LEMMA StartsSomething ==
  ASSUME SessionsInv, NEW a \in Threads, Start(a)
  PROVE  \E s : Go(a, s) /\ s.pc # "idle"
<1>0. DOMAIN act[a] = Fields
  BY DEF SessionsInv, Shape
<1>1. ASSUME NEW p \in FilePaths, Lookup(a, p)
      PROVE  \E s : Go(a, s) /\ s.pc # "idle"
  <2> DEFINE s == [act[a] EXCEPT !.op = "lookup", !.path = p, !.pc = "have"]
  <2>1. Go(a, s)
    BY <1>1 DEF Lookup, LookupStart
  <2>2. s.pc = "have"
    BY <1>0 DEF Fields
  <2> HIDE DEF s
  <2>3. QED
    BY <2>1, <2>2
<1>2. ASSUME NEW i \in 1..MaxImages, NEW p \in FilePaths, MoveFile(a, i, p)
      PROVE  \E s : Go(a, s) /\ s.pc # "idle"
  <2> DEFINE s == [act[a] EXCEPT !.op = "movefile", !.pc = "folderhave", !.id = i,
                              !.rec = db.images[i], !.to = p, !.path = ParentOf(p)]
  <2>1. Go(a, s)
    BY <1>2 DEF MoveFile, MoveFileStart
  <2>2. s.pc = "folderhave"
    BY <1>0 DEF Fields
  <2> HIDE DEF s
  <2>3. QED
    BY <2>1, <2>2
<1>3. ASSUME NEW i \in 1..MaxImages, DeleteFile(a, i)
      PROVE  \E s : Go(a, s) /\ s.pc # "idle"
  <2> DEFINE s == [act[a] EXCEPT !.op = "delete", !.pc = "rm", !.id = i, !.rec = db.images[i]]
  <2>1. Go(a, s)
    BY <1>3 DEF DeleteFile, DeleteFileStart
  <2>2. s.pc = "rm"
    BY <1>0 DEF Fields
  <2> HIDE DEF s
  <2>3. QED
    BY <2>1, <2>2
<1>4. ASSUME NEW p \in FilePaths, NEW o \in BOOLEAN, Upload(a, p, o)
      PROVE  \E s : Go(a, s) /\ s.pc # "idle"
  <2> DEFINE s == [act[a] EXCEPT !.op = "upload", !.pc = "write", !.path = p, !.saw = o]
  <2>1. Go(a, s)
    BY <1>4 DEF Upload, UploadStart
  <2>2. s.pc = "write"
    BY <1>0 DEF Fields
  <2> HIDE DEF s
  <2>3. QED
    BY <2>1, <2>2
<1>5. ASSUME NEW p \in FolderPaths, CreateFolder(a, p)
      PROVE  \E s : Go(a, s) /\ s.pc # "idle"
  <2> DEFINE s == [act[a] EXCEPT !.op = "create", !.pc = "folderhave", !.path = p]
  <2>1. Go(a, s)
    BY <1>5 DEF CreateFolder, CreateFolderStart
  <2>2. s.pc = "folderhave"
    BY <1>0 DEF Fields
  <2> HIDE DEF s
  <2>3. QED
    BY <2>1, <2>2
<1>6. ASSUME NEW i \in 1..MaxFolders, NEW to \in FolderPaths, MoveFolder(a, i, to)
      PROVE  \E s : Go(a, s) /\ s.pc # "idle"
  <2> DEFINE s == [act[a] EXCEPT !.op = "movefolder", !.pc = "mvf_disk", !.fid = i,
               !.path = db.folders[i].path, !.to = to,
               !.pend = IF FoldersAt(db, to) = {} THEN {} ELSE PurgeTree(db, TheFolder(db, to))]
  <2>1. Go(a, s)
    BY <1>6 DEF MoveFolder, MoveFolderStart
  <2>2. s.pc = "mvf_disk"
    BY <1>0 DEF Fields
  <2> HIDE DEF s
  <2>3. QED
    BY <2>1, <2>2
<1>7. ASSUME NEW i \in 1..MaxFolders, DeleteFolder(a, i)
      PROVE  \E s : Go(a, s) /\ s.pc # "idle"
  <2> DEFINE s == [act[a] EXCEPT !.op = "deletefolder", !.pc = "rmf", !.fid = i,
               !.path = db.folders[i].path, !.saw = db.folders[i].status = "active"]
  <2>1. Go(a, s)
    BY <1>7 DEF DeleteFolder, DeleteFolderStart
  <2>2. s.pc = "rmf"
    BY <1>0 DEF Fields
  <2> HIDE DEF s
  <2>3. QED
    BY <2>1, <2>2
<1>8. ASSUME NEW i \in 1..MaxFolders, Purge(a, i)
      PROVE  \E s : Go(a, s) /\ s.pc # "idle"
  <2> DEFINE s == [act[a] EXCEPT !.op = "purge", !.pc = "commit",
               !.pend = PurgeImages(DeletedImages(db, i)) \cup PurgeFolders(EmptiedFolders(db, i))]
  <2>1. Go(a, s)
    BY <1>8 DEF Purge, PurgeStart
  <2>2. s.pc = "commit"
    BY <1>0 DEF Fields
  <2> HIDE DEF s
  <2>3. QED
    BY <2>1, <2>2
<1>9. QED
  BY <1>1, <1>2, <1>3, <1>4, <1>5, <1>6, <1>7, <1>8 DEF Start

LEMMA VisitLeads ==
  ASSUME NEW r, Here(r), NEW a \in Threads, act[a] = Idle, Tidy(dirs, DOMAIN files, db),
         NEW p, Visit(a, p)
  PROVE  Leads(a)
<1> DEFINE P == DOMAIN files
           s == Sync(a, p)
<1>1. Go(a, s) /\ UNCHANGED <<dirs, files, db>>
  BY DEF Visit, disk
<1>2. s.op = "sync" /\ s.path = p /\ s.pc \in {"look", "folderlook"} /\ s.pend = {}
  BY DEF Sync, Idle
<1> HIDE DEF s
<1>3. Stage(s, dirs, P, db)
  BY <1>2 DEF Stage, AtRest, AtFolder
<1>4. QED
  BY <1>1, <1>2, <1>3, LeadsOn

-----------------------------------------------------------------------------
(* All steps together. *)

LEMMA StepsAreBusy ==
  ASSUME NEW a \in Threads, Step(a)
  PROVE  act[a].pc # "idle"
BY DEF Step, SyncFileLook, SyncFileGone, SyncFileHave, CreateFolders, InsertImage, PutId,
   FolderLook, FolderGone, FolderHave, Commit, DataDelete, MoveFileCheck, MoveFileDisk,
   MoveFileRecord, MoveFileCommit, MoveFileBack, DeleteFileDisk, DeleteFileRecord,
   UploadWrite, MoveFolderDisk, MoveFolderRecord, DeleteFolderDisk, DeleteFolderRecord

LEMMA StepLeads ==
  ASSUME NEW r, Here(r), NEW a \in Threads, Stands(a), Step(a), ~Fault
  PROVE  Leads(a)
<1>1. ~DataDelete(a)
  BY DEF DataDelete, Stands, Stage
<1>2. QED
  BY <1>1, LooksLead, GoneLeads, HaveLeads, ChainLeads, InsertLeads, PutLeads,
     FolderGoneLeads, FolderHaveLeads, CommitLeads, MoveCheckLeads, MoveDiskLeads,
     MoveRecordLeads, MoveCommitLeads, MoveBackLeads, DeleteDiskLeads, DeleteRecordLeads,
     WriteLeads, MoveFolderDiskLeads, MoveFolderRecordLeads, DeleteFolderDiskLeads,
     DeleteFolderRecordLeads DEF Step

\* Nothing has been put where it is not seen.
LEMMA NothingHidden ==
  ASSUME Watch, ~hidden', RowsInv', Sound(db)'
  PROVE  Shown(db, db')
<1>1. ~Hides(db.images, "folder") /\ ~Hides(db.folders, "parent")
  BY DEF Watch
<1>2. RowsOK(db') /\ Sound(db')
  <2>1. RowsOK(db')
    BY DEF RowsInv, RowsOK
  <2>2. Sound(db')
    BY DEF Sound, ImagesAt, FoldersAt
  <2>3. QED
    BY <2>1, <2>2
<1>3. Keyed(db')
  BY <1>2, SoundIsKeyed
<1>4. \A j \in DOMAIN db'.folders : db'.folders[j].status \in {"active", "deleted"}
  BY <1>2 DEF RowsOK, Folder
<1>5. ASSUME NEW i \in DOMAIN db'.images, db'.images[i].status = "active",
             i \notin DOMAIN db.images \/ db'.images[i].folder # db.images[i].folder
      PROVE  db'.folders[db'.images[i].folder].status = "active"
  <2>1. db'.images[i].folder \in DOMAIN db'.folders
    BY <1>3 DEF Keyed
  <2>2. db'.folders[db'.images[i].folder].status # "deleted"
    BY <1>1, <1>5, <2>1 DEF Hides, IsPut
  <2>3. QED
    BY <1>4, <2>1, <2>2
<1>6. ASSUME NEW i \in DOMAIN db'.folders, db'.folders[i].status = "active",
             db'.folders[i].parent # NoId,
             i \notin DOMAIN db.folders \/ db'.folders[i].parent # db.folders[i].parent
      PROVE  db'.folders[db'.folders[i].parent].status = "active"
  <2>1. db'.folders[i].parent \in DOMAIN db'.folders
    BY <1>3, <1>6 DEF Keyed
  <2>2. db'.folders[db'.folders[i].parent].status # "deleted"
    BY <1>1, <1>6, <2>1 DEF Hides, IsPut
  <2>3. QED
    BY <1>4, <2>1, <2>2
<1>7. QED
  BY <1>5, <1>6 DEF Shown

\* As OperationsKeepInStep says: one at a time, on a disk that no one else changes.
Calm == ~overlap /\ ~hidden /\ budget.outside = 0 /\ budget.faults = 0

InOrder ==
    /\ tasks = {}
    /\ Quiet => Tidy(dirs, DOMAIN files, db)
    /\ \A a \in Threads : act[a].pc # "idle" => Alone(a) /\ Stands(a)
CalmInv == Calm => InOrder

LEMMA BudgetCases ==
  ASSUME BudgetInv, [Next]_vars
  PROVE  /\ budget'.outside = 0 => budget.outside = 0 /\ ~Outside
         /\ budget'.faults = 0 => budget.faults = 0 /\ ~Fault
<1>0. /\ budget.ops \in Nat /\ budget.outside \in Nat /\ budget.faults \in Nat
      /\ budget = [ops |-> budget.ops, outside |-> budget.outside, faults |-> budget.faults]
  BY DEF BudgetInv
<1>1. \/ budget' = budget
      \/ budget' = [budget EXCEPT !.ops = @ + 1]
      \/ budget' = [budget EXCEPT !.outside = @ + 1]
      \/ budget' = [budget EXCEPT !.faults = @ + 1]
  BY BudgetChanges
<1>2. /\ budget'.outside = 0 => budget.outside = 0
      /\ budget'.faults = 0 => budget.faults = 0
  BY <1>0, <1>1
<1>3. /\ Outside => budget'.outside = budget.outside + 1
      /\ Fault => budget'.faults = budget.faults + 1
  BY <1>0 DEF Outside, Fault
<1>4. QED
  BY <1>0, <1>2, <1>3

\* What a step leads to, when nothing else is under way.
LEMMA LeadsInOrder ==
  ASSUME NEW a \in Threads, DOMAIN act = Threads, Alone(a), Leads(a), Shown(db, db'), tasks' = {}
  PROVE  InOrder'
<1>1. PICK s, D, P, e :
          /\ act' = [act EXCEPT ![a] = s] /\ dirs' = D /\ DOMAIN files' = P /\ db' = e
          /\ Shown(db, e) => IF s.pc = "idle" THEN Tidy(D, P, e) ELSE Stage(s, D, P, e)
  BY DEF Leads
<1>2. act'[a] = s /\ \A b \in Threads \ {a} : act'[b].pc = "idle"
  BY <1>1 DEF Alone
<1>3. Tidy(dirs, DOMAIN files, db)' <=> Tidy(D, P, e)
  BY <1>1 DEF Tidy, InStep, WellFiled, Nested
<1>4. Stands(a)' <=> Stage(s, D, P, e)
  BY <1>1, <1>2 DEF Stands
<1>5. Quiet' <=> s.pc = "idle"
  BY <1>2 DEF Quiet
<1>6. Alone(a)'
  BY <1>2 DEF Alone
<1>7. \A b \in Threads : act'[b].pc # "idle" => b = a
  BY <1>2
<1>8. Quiet' => Tidy(dirs, DOMAIN files, db)'
  BY <1>1, <1>3, <1>5
<1>9. act'[a].pc # "idle" => Stands(a)'
  BY <1>1, <1>2, <1>4
<1>10. QED
  BY <1>6, <1>7, <1>8, <1>9 DEF InOrder

LEMMA CalmStep ==
  ASSUME RecordsInv, RecordsInv', CalmInv, [Next]_vars
  PROVE  CalmInv'
<1>1. CASE UNCHANGED vars
  <2>1. /\ Calm' <=> Calm
        /\ dirs' = dirs /\ files' = files /\ db' = db /\ act' = act /\ tasks' = tasks
    BY <1>1 DEF vars, Calm
  <2>2. InOrder' <=> InOrder
    BY <2>1 DEF InOrder, Quiet, Alone, Stands
  <2>3. QED
    BY <2>1, <2>2 DEF CalmInv
<1>2. ASSUME Next, Calm' PROVE InOrder'
  <2>1. /\ RowsInv /\ SessionsInv /\ DiskInv /\ Sound(db) /\ BudgetInv
        /\ RowsInv' /\ Sound(db)'
    BY DEF RecordsInv, IInv, DiskSafe
  <2>2. PICK r \in FolderIds : RootRow(db, r) /\ AllFit(r)
    BY DEF RecordsInv, RootInv
  <2>3. Here(r)
    BY <2>1, <2>2 DEF Here
  <2>4. Watch
    BY <1>2 DEF Next
  <2>5. Calm /\ ~Outside /\ ~Fault
    BY <1>2, <2>1, <2>4, BudgetCases DEF Calm, Watch
  <2>6. InOrder
    BY <2>5 DEF CalmInv
  <2>7. Shown(db, db')
    BY <1>2, <2>1, <2>4, NothingHidden DEF Calm
  <2>8. tasks' = {}
    <3>1. ASSUME NEW a \in Threads, FolderGone(a)
          PROVE  {f \in FoldersAt(View(a), act[a].path) : View(a).folders[f].status = "active"} = {}
      <4>1. Stands(a)
        BY <2>6, <3>1 DEF FolderGone, InOrder
      <4>2. QED
        BY <2>3, <3>1, <4>1, NoFolderToDelete
    <3>2. QED
      BY <2>6, <3>1, TasksPosted DEF InOrder
  <2>9. \A a, b \in Threads : a # b => act'[a].pc = "idle" \/ act'[b].pc = "idle"
    BY <1>2, <2>4 DEF Watch, Calm
  \* Who starts something finds no one else at work.
  <2>10. ASSUME NEW a \in Threads, Free(a), act'[a].pc # "idle",
                \A b \in Threads \ {a} : act'[b] = act[b]
         PROVE  act[a] = Idle /\ Alone(a) /\ Tidy(dirs, DOMAIN files, db)
    <3>1. act[a] = Idle
      BY <2>2, <2>10 DEF Free, AllFit, Fit
    <3>2. Alone(a)
      BY <2>9, <2>10 DEF Alone
    <3>3. Quiet
      BY <2>10, <3>2 DEF Free, Alone, Quiet
    <3>4. QED
      BY <2>6, <3>1, <3>2, <3>3 DEF InOrder
  <2>11. DOMAIN act = Threads
    BY <2>1 DEF SessionsInv
  <2>12. ASSUME NEW a \in Threads, NEW p, Visit(a, p) PROVE InOrder'
    <3>1. Free(a) /\ Go(a, Sync(a, p))
      BY <2>12 DEF Visit
    <3>2. Sync(a, p).pc # "idle"
      BY <2>1 DEF Sync, SessionsInv, Shape, Fields
    <3>3. act'[a].pc # "idle" /\ \A b \in Threads \ {a} : act'[b] = act[b]
      BY <2>11, <3>1, <3>2 DEF Go
    <3>4. act[a] = Idle /\ Alone(a) /\ Tidy(dirs, DOMAIN files, db)
      BY <2>10, <3>1, <3>3
    <3>5. Leads(a)
      BY <2>3, <2>12, <3>4, VisitLeads
    <3>6. QED
      BY <2>7, <2>8, <2>11, <3>4, <3>5, LeadsInOrder
  <2>13. ASSUME NEW a \in Threads, Start(a) PROVE InOrder'
    <3>1. Free(a)
      BY <2>13 DEF Start
    <3>2. \E s : Go(a, s) /\ s.pc # "idle"
      BY <2>1, <2>13, StartsSomething
    <3>3. act'[a].pc # "idle" /\ \A b \in Threads \ {a} : act'[b] = act[b]
      BY <2>11, <3>2 DEF Go
    <3>4. act[a] = Idle /\ Alone(a) /\ Tidy(dirs, DOMAIN files, db)
      BY <2>10, <3>1, <3>3
    <3>5. Leads(a)
      BY <2>3, <2>13, <3>4, StartsLead
    <3>6. QED
      BY <2>7, <2>8, <2>11, <3>4, <3>5, LeadsInOrder
  <2>14. ASSUME NEW a \in Threads, Step(a) PROVE InOrder'
    <3>1. act[a].pc # "idle"
      BY <2>14, StepsAreBusy
    <3>2. Alone(a) /\ Stands(a)
      BY <2>6, <3>1 DEF InOrder
    <3>3. Leads(a)
      BY <2>3, <2>5, <2>14, <3>2, StepLeads
    <3>4. QED
      BY <2>7, <2>8, <2>11, <3>2, <3>3, LeadsInOrder
  <2>15. ~Refuse /\ \A a \in Threads, f \in tasks : ~DeleteData(a, f)
    BY <2>6 DEF Refuse, InOrder
  <2>16. QED
    BY <1>2, <2>5, <2>12, <2>13, <2>14, <2>15 DEF Next
<1>3. QED
  BY <1>1, <1>2 DEF CalmInv

LEMMA CalmAtFirst ==
  ASSUME Init, StartsInStep
  PROVE  CalmInv
<1>1. PICK s \in Starts : dirs = s.dirs /\ files = s.files /\ db = s.db
  BY DEF Init
<1>2. Tidy(dirs, DOMAIN files, db)
  BY <1>1 DEF StartsInStep, Tidy
<1>3. tasks = {} /\ \A a \in Threads : act[a].pc = "idle"
  BY DEF Init, Idle
<1>4. QED
  BY <1>2, <1>3 DEF CalmInv, InOrder

\* Operations one at a time, on a disk that no one else changes, leave no record that
\* says a missing file or folder is there, or that an existing file is deleted, and
\* none outside the folder of its path, also when they fail; from a disk and records
\* that are in step at first.
THEOREM StaysInStep ==
  ASSUME StartsInStep
  PROVE  Spec => []OperationsKeepInStep
<1>1. Init => RecordsInv /\ CalmInv
  BY RecordsAtFirst, CalmAtFirst
<1>2. RecordsInv /\ CalmInv /\ [Next]_vars => RecordsInv' /\ CalmInv'
  BY RecordsStep, CalmStep
<1>3. CalmInv => OperationsKeepInStep
  BY DEF CalmInv, Calm, InOrder, Tidy, OperationsKeepInStep
<1>4. QED
  BY <1>1, <1>2, <1>3, PTL DEF Spec
=============================================================================
