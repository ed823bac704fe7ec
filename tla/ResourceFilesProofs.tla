------------------------- MODULE ResourceFilesProofs -------------------------
(***************************************************************************)
(* What pulls of named resources guarantee for any resources, names and    *)
(* directories and any number of pulls, deaths and changes by others.      *)
(***************************************************************************)
EXTENDS ResourceFiles, FiniteSetTheorems, WellFoundedInduction, TLAPS

\* A directory has one file of each name.
OneFileEach(dir) == \A f \in dir : IsFile(f) /\ \A g \in dir : f.name = g.name => f = g

-----------------------------------------------------------------------------
(***************************************************************************)
(* The order of file names, and what a number makes of a name.             *)
(***************************************************************************)
\* os.ReadDir: file names are in a strict total order.
LEMMA BeforeOrders ==
    ASSUME NEW f \in Strings, NEW g \in Strings
    PROVE  /\ ~(Before(f, g) /\ Before(g, f))
           /\ f # g => Before(f, g) \/ Before(g, f)
           /\ \A h \in Strings : Before(f, g) /\ Before(g, h) => Before(f, h)
BY OrderAssumption

\* The files a name may get are strings: its own, and the numbered ones, which come before it.
LEMMA FamilyNames ==
    ASSUME NEW name \in Names
    PROVE  /\ Normal[name] \in Strings /\ Normal[name] \in Family(name) /\ name \in Strings
           /\ \A k \in Counts : /\ Numbered[name][k] \in Strings /\ Normal[Numbered[name][k]] \in Strings
                               /\ Normal[Numbered[name][k]] \in Family(name)
                               /\ Before(Normal[Numbered[name][k]], Normal[name])
                               /\ Normal[Numbered[name][k]] # Normal[name]
<1>1. name \in Strings /\ Normal[name] \in Strings
  BY StringsAssumption
<1>2. ASSUME NEW k \in Counts
      PROVE  /\ Numbered[name][k] \in Strings /\ Normal[Numbered[name][k]] \in Strings
             /\ Before(Normal[Numbered[name][k]], Normal[name])
  <2>1. <<name, k>> \in Names \X Counts
    OBVIOUS
  <2>2. Numbered[name][k] \in Strings
    BY <2>1, StringsAssumption
  <2> QED BY <2>2, StringsAssumption, OrderAssumption
<1>3. \A k \in Counts : Normal[Numbered[name][k]] # Normal[name]
  BY <1>1, <1>2, BeforeOrders
<1> QED BY <1>1, <1>2, <1>3 DEF Family

\* A name that is used once more is numbered 2.
LEMMA TwoCounts == 2 \in Counts
BY BoundsAssumption DEF Counts

\* Names that are normalized to one file name get the same files.
LEMMA SameFamily ==
    ASSUME NEW m \in Names, NEW n \in Names, Normal[m] = Normal[n]
    PROVE  /\ Family(m) = Family(n)
           /\ \A k \in Counts : Normal[Numbered[m][k]] = Normal[Numbered[n][k]]
BY NumberAssumption DEF Family

\* Every set of naturals has a least element: < is well-founded.
LEMMA LeastNatural ==
    ASSUME NEW T \in SUBSET Nat, T # {}
    PROVE  \E x \in T : \A y \in T : x <= y
<1> DEFINE R == OpToRel(<, Nat)
<1>1. IsWellFoundedOn(R, Nat)
  BY NatLessThanWellFounded
<1>2. \A x, y \in Nat : x < y => <<x, y>> \in R
  BY DEF OpToRel
<1> HIDE DEF R
<1>3. PICK x \in T : \A y \in T : ~ (<<y, x>> \in R)
  BY <1>1, WFMin
<1>4. ASSUME NEW y \in T PROVE x <= y
  <2>1. x \in Nat /\ y \in Nat /\ ~ (<<y, x>> \in R)
    BY <1>3
  <2>2. ~ (y < x)
    BY <2>1, <1>2
  <2> QED BY <2>1, <2>2
<1> QED BY <1>3, <1>4

-----------------------------------------------------------------------------
(***************************************************************************)
(* What a directory reads as.                                              *)
(***************************************************************************)
Reads == [Ids -> Item \cup {NoItem}]
WellFiled(dir) == OneFileEach(dir) /\ IsFiniteSet(dir) /\ \A f \in dir : f.id \in Ids => f.item \in Item

\* Of the files of an id the last one wins: a directory has finitely many.
LEMMA LastFile ==
    ASSUME NEW dir, WellFiled(dir), NEW id, \E f \in dir : f.id = id
    PROVE  \E f \in dir : f.id = id /\ Wins(f, dir)
<1> DEFINE S == {f \in dir : f.id = id}
           After(f) == {g \in S : Before(f.name, g.name)}
           sizes == {Cardinality(After(f)) : f \in S}
<1>1. IsFiniteSet(S) /\ S # {} /\ (\A f \in S : f.name \in Strings) /\ (\A f, g \in S : f.name = g.name => f = g)
  <2>1. S \in SUBSET dir
    OBVIOUS
  <2> QED BY <2>1, FS_Subset DEF WellFiled, OneFileEach, IsFile
<1>2. \A f \in S : After(f) \in SUBSET S /\ IsFiniteSet(After(f)) /\ Cardinality(After(f)) \in Nat
  BY <1>1, FS_Subset, FS_CardinalityType
<1>3. sizes \in SUBSET Nat /\ sizes # {}
  <2> HIDE DEF S, After
  <2> QED BY <1>1, <1>2
<1>4. PICK n \in sizes : \A m \in sizes : n <= m
  <2> HIDE DEF sizes
  <2> QED BY <1>3, LeastNatural
<1>5. PICK f \in S : n = Cardinality(After(f))
  OBVIOUS
<1>6. ASSUME NEW g \in dir, g.id = id, g # f, ~Before(g.name, f.name) PROVE FALSE
  <2>1. g \in S /\ Before(f.name, g.name)
    BY <1>1, <1>5, <1>6, BeforeOrders
  <2>2. After(g) \in SUBSET After(f)
    <3> SUFFICES ASSUME NEW h \in S, Before(g.name, h.name) PROVE Before(f.name, h.name)
      OBVIOUS
    <3> QED BY <1>1, <2>1, BeforeOrders
  <2>3. g \in After(f) /\ g \notin After(g)
    BY <1>1, <2>1, BeforeOrders
  <2>4. Cardinality(After(g)) <= Cardinality(After(f)) /\ Cardinality(After(g)) # Cardinality(After(f))
    <3> HIDE DEF After
    <3> QED BY <1>2, <2>2, <2>3, FS_Subset
  <2>5. n <= Cardinality(After(g)) /\ Cardinality(After(g)) \in Nat /\ n \in Nat
    BY <1>2, <1>3, <1>4, <2>1
  <2> HIDE DEF After
  <2> QED BY <1>5, <2>4, <2>5
<1> QED BY <1>5, <1>6 DEF Wins

\* There is one such file.
LEMMA OneWinner ==
    ASSUME NEW dir, OneFileEach(dir), NEW f \in dir, Wins(f, dir), NEW g \in dir, g.id = f.id, Wins(g, dir)
    PROVE  f = g
<1>1. f.name \in Strings /\ g.name \in Strings
  BY DEF OneFileEach, IsFile
<1> QED BY <1>1, BeforeOrders DEF Wins

\* readFiles: it is what is read of the id.
LEMMA ReadsLast ==
    ASSUME NEW dir, OneFileEach(dir), \A f \in dir : f.id # NoId,
           NEW id \in Ids, NEW f \in dir, f.id = id, Wins(f, dir)
    PROVE  ReadDir(dir)[id] = f.item
<1>1. (CHOOSE g \in dir : g.id = id /\ Wins(g, dir)) = f
  BY OneWinner
<1>2. ReadDir(dir) = [i \in Ids |-> IF \E g \in dir : g.id = i
                                    THEN (CHOOSE g \in dir : g.id = i /\ Wins(g, dir)).item ELSE NoItem]
  BY DEF ReadDir
<1> QED BY <1>1, <1>2

\* A directory reads as resources, or with an error when a file was truncated.
LEMMA ReadDirType ==
    ASSUME NEW dir, WellFiled(dir)
    PROVE  /\ ReadDir(dir) \in Reads \/ (ReadDir(dir) = ReadError /\ \E f \in dir : f.id = NoId)
           /\ dir = {} => ReadDir(dir) = [id \in Ids |-> NoItem]
<1>1. CASE \E f \in dir : f.id = NoId
  BY <1>1 DEF ReadDir
<1>2. CASE \A f \in dir : f.id # NoId
  <2>1. ReadDir(dir) = [i \in Ids |-> IF \E g \in dir : g.id = i
                                      THEN (CHOOSE g \in dir : g.id = i /\ Wins(g, dir)).item ELSE NoItem]
    BY <1>2 DEF ReadDir
  <2>2. ASSUME NEW id \in Ids, \E g \in dir : g.id = id PROVE ReadDir(dir)[id] \in Item
    <3>1. PICK f \in dir : f.id = id /\ Wins(f, dir)
      BY <2>2, LastFile
    <3> QED BY <1>2, <3>1, ReadsLast DEF WellFiled
  <2> QED BY <2>1, <2>2 DEF Reads
<1> QED BY <1>1, <1>2

-----------------------------------------------------------------------------
(***************************************************************************)
(* The merge of the directories.                                           *)
(***************************************************************************)
Merges(f, reads, n) ==
    f = [d \in n..(NDirs + 1) |-> IF d > NDirs THEN [id \in Ids |-> NoItem] ELSE Merge(f[d + 1], reads[d])]

\* The loop over the directories can be run, from any of them to the last.
LEMMA MergeRuns ==
    ASSUME NEW reads
    PROVE  \E f : Merges(f, reads, 1)
<1>0. NDirs \in Nat /\ NDirs > 0
  BY BoundsAssumption
<1> DEFINE Runs(k) == \E f : Merges(f, reads, NDirs + 1 - k)
           T == {k \in 0..NDirs : ~Runs(k)}
<1>1. CASE T # {}
  <2>1. PICK k \in T : \A j \in T : k <= j
    <3>1. T \in SUBSET Nat
      BY <1>0
    <3> HIDE DEF T
    <3> QED BY <1>1, <3>1, LeastNatural
  <2>2. k \in 0..NDirs /\ ~Runs(k)
    BY <2>1
  <2>3. CASE k = 0
    <3> DEFINE f == [d \in (NDirs + 1)..(NDirs + 1) |-> [id \in Ids |-> NoItem]]
    <3>1. Merges(f, reads, NDirs + 1)
      BY <1>0 DEF Merges
    <3> HIDE DEF f
    <3>2. Runs(k)
      BY <1>0, <2>3, <3>1
    <3> QED BY <2>2, <3>2
  <2>4. CASE k > 0
    <3>1. k - 1 \in 0..NDirs /\ k - 1 \notin T
      BY <1>0, <2>1, <2>2, <2>4
    <3>2. PICK g : Merges(g, reads, NDirs + 1 - (k - 1))
      BY <3>1
    <3> DEFINE n == NDirs + 1 - k
    <3>3. n \in Nat /\ n >= 1 /\ n <= NDirs /\ NDirs + 1 - (k - 1) = n + 1
      BY <1>0, <2>2, <2>4
    <3> HIDE DEF n
    <3> DEFINE f == [d \in n..(NDirs + 1) |-> IF d = n THEN Merge(g[n + 1], reads[n]) ELSE g[d]]
    <3>4. g = [d \in (n + 1)..(NDirs + 1) |-> IF d > NDirs THEN [id \in Ids |-> NoItem] ELSE Merge(g[d + 1], reads[d])]
      BY <3>2, <3>3 DEF Merges
    <3>5. \A d \in (n + 1)..(NDirs + 1) : f[d] = g[d]
      BY <1>0, <3>3
    <3>6. \A d \in n..(NDirs + 1) : f[d] = IF d > NDirs THEN [id \in Ids |-> NoItem] ELSE Merge(f[d + 1], reads[d])
      <4> SUFFICES ASSUME NEW d \in n..(NDirs + 1)
                   PROVE  f[d] = IF d > NDirs THEN [id \in Ids |-> NoItem] ELSE Merge(f[d + 1], reads[d])
        OBVIOUS
      <4>1. CASE d = n
        <5>1. f[n] = Merge(g[n + 1], reads[n]) /\ f[n + 1] = g[n + 1]
          BY <1>0, <3>3, <3>5
        <5> HIDE DEF f
        <5> QED BY <1>0, <3>3, <4>1, <5>1
      <4>2. CASE d # n
        <5>1. d \in (n + 1)..(NDirs + 1) /\ (d <= NDirs => d + 1 \in (n + 1)..(NDirs + 1))
          BY <1>0, <3>3, <4>2
        <5>2. g[d] = IF d > NDirs THEN [id \in Ids |-> NoItem] ELSE Merge(g[d + 1], reads[d])
          BY <3>4, <5>1
        <5>3. f[d] = g[d] /\ (d <= NDirs => f[d + 1] = g[d + 1])
          BY <3>5, <5>1
        <5> HIDE DEF f
        <5> QED BY <1>0, <3>3, <5>2, <5>3
      <4> QED BY <4>1, <4>2
    <3>7. f = [d \in n..(NDirs + 1) |-> f[d]]
      OBVIOUS
    <3> HIDE DEF f
    <3>8. Merges(f, reads, n)
      BY <3>6, <3>7 DEF Merges
    <3>9. Runs(k)
      BY <3>8 DEF n
    <3> QED BY <2>2, <3>9
  <2> QED BY <2>2, <2>3, <2>4
<1>2. CASE T = {}
  <2>1. Runs(NDirs)
    <3>1. NDirs \in 0..NDirs
      BY <1>0
    <3> HIDE DEF Runs
    <3> QED BY <1>2, <3>1
  <2>2. NDirs + 1 - NDirs = 1
    BY <1>0
  <2> QED BY <2>1, <2>2
<1> QED BY <1>1, <1>2

\* MultiStorage.Read: what is merged from a directory on is what it reads over what was merged before.
LEMMA MergedStep ==
    ASSUME NEW all
    PROVE  \E f : /\ MergedFrom(all) = f[1]
                  /\ f[NDirs + 1] = [id \in Ids |-> NoItem]
                  /\ \A d \in Dirs : f[d] = Merge(f[d + 1], ReadDir(all[d]))
<1>0. NDirs \in Nat /\ NDirs > 0
  BY BoundsAssumption
<1> DEFINE reads == [d \in Dirs |-> ReadDir(all[d])]
           Is(f) == f = [d \in 1..(NDirs + 1) |-> IF d > NDirs THEN [id \in Ids |-> NoItem]
                                                  ELSE Merge(f[d + 1], ReadDir(all[d]))]
           merged == CHOOSE f : Is(f)
<1>1. MergedFrom(all) = merged[1]
  BY DEF MergedFrom
<1>2. PICK g : Merges(g, reads, 1)
  BY MergeRuns
<1>3. Is(g)
  <2>1. \A d \in 1..(NDirs + 1) : ~(d > NDirs) => reads[d] = ReadDir(all[d])
    BY <1>0 DEF Dirs
  <2> HIDE DEF reads
  <2> QED BY <1>2, <2>1 DEF Merges
<1>4. Is(merged)
  <2> HIDE DEF Is
  <2> QED BY <1>3
<1>5. /\ merged[NDirs + 1] = [id \in Ids |-> NoItem]
      /\ \A d \in Dirs : merged[d] = Merge(merged[d + 1], ReadDir(all[d]))
  <2> HIDE DEF merged
  <2>1. \A d \in 1..(NDirs + 1) : merged[d] = IF d > NDirs THEN [id \in Ids |-> NoItem]
                                              ELSE Merge(merged[d + 1], ReadDir(all[d]))
    BY <1>4
  <2> QED BY <1>0, <2>1 DEF Dirs
<1> QED BY <1>1, <1>5

\* A merge is of resources, unless a directory cannot be read.
LEMMA MergeType ==
    ASSUME NEW dst \in Reads \cup {ReadError}, NEW src \in Reads \cup {ReadError}
    PROVE  /\ Merge(dst, src) \in Reads \cup {ReadError}
           /\ Merge(dst, src) # ReadError =>
                  /\ dst \in Reads /\ src \in Reads
                  /\ Merge(dst, src) = [id \in Ids |-> MergeItem(dst[id], src[id])]
<1>1. CASE ReadError \in {dst, src}
  BY <1>1 DEF Merge
<1>2. CASE ReadError \notin {dst, src}
  <2>1. dst \in Reads /\ src \in Reads /\ Merge(dst, src) = [id \in Ids |-> MergeItem(dst[id], src[id])]
    BY <1>2 DEF Merge
  <2>2. ASSUME NEW under \in Item \cup {NoItem}, NEW over \in Item \cup {NoItem}
        PROVE  MergeItem(under, over) \in Item \cup {NoItem}
    BY <2>2 DEF MergeItem, Item
  <2> QED BY <2>1, <2>2 DEF Reads
<1> QED BY <1>1, <1>2

\* Of two resources that are merged the fields that the second sets win.
LEMMA MergeItemFields ==
    ASSUME NEW dst \in Item \cup {NoItem}, NEW src \in Item \cup {NoItem}, NEW k \in Fields \cup {"name"}
    PROVE  /\ src # NoItem /\ src[k] # Unset =>
                  MergeItem(dst, src) # NoItem /\ MergeItem(dst, src)[k] = src[k]
           /\ dst # NoItem /\ (src = NoItem \/ src[k] = Unset) =>
                  MergeItem(dst, src) # NoItem /\ MergeItem(dst, src)[k] = dst[k]
<1>1. CASE dst = NoItem \/ src = NoItem
  BY <1>1 DEF MergeItem
<1>2. CASE dst # NoItem /\ src # NoItem
  <2>1. dst \in Item /\ src \in Item /\ DOMAIN src = Fields \cup {"name"}
    BY <1>2 DEF Item
  <2>2. MergeItem(dst, src) = [j \in Fields \cup {"name"} |-> IF src[j] = Unset THEN dst[j] ELSE src[j]]
    BY <1>2, <2>1 DEF MergeItem
  <2>3. MergeItem(dst, src) \in Item
    BY <2>1, <2>2 DEF Item
  <2> QED BY <1>2, <2>2, <2>3, NilAssumption
<1> QED BY <1>1, <1>2

\* Every directory but the first being empty, it is what is read.
LEMMA MergedAlone ==
    ASSUME NEW all, \A d \in Dirs : WellFiled(all[d]), \A d \in Dirs \ {1} : all[d] = {}
    PROVE  MergedFrom(all) = ReadDir(all[1])
<1>0. NDirs \in Nat /\ NDirs > 0 /\ 1 \in Dirs
  BY BoundsAssumption DEF Dirs
<1> DEFINE nothing == [id \in Ids |-> NoItem]
<1>1. nothing \in Reads /\ nothing # ReadError
  BY NilAssumption DEF Reads
<1>2. PICK f : /\ MergedFrom(all) = f[1] /\ f[NDirs + 1] = nothing
               /\ \A d \in Dirs : f[d] = Merge(f[d + 1], ReadDir(all[d]))
  BY MergedStep
<1>3. \A d \in Dirs : ReadDir(all[d]) \in Reads \cup {ReadError} /\ (d # 1 => ReadDir(all[d]) = nothing)
  BY ReadDirType
<1>4. ASSUME NEW read \in Reads \cup {ReadError} PROVE Merge(nothing, read) = read
  <2>1. CASE read = ReadError
    BY <2>1 DEF Merge
  <2>2. CASE read # ReadError
    <3>1. Merge(nothing, read) = [id \in Ids |-> MergeItem(nothing[id], read[id])]
      BY <1>1, <2>2 DEF Merge
    <3>2. \A id \in Ids : MergeItem(nothing[id], read[id]) = read[id]
      BY DEF MergeItem
    <3> HIDE DEF nothing
    <3> QED BY <1>4, <2>2, <3>1, <3>2 DEF Reads
  <2> QED BY <2>1, <2>2
<1> HIDE DEF nothing
<1> DEFINE T == {n \in 0..(NDirs - 1) : f[NDirs + 1 - n] # nothing}
<1>5. T = {}
  <2> SUFFICES ASSUME T # {} PROVE FALSE
    OBVIOUS
  <2>1. T \in SUBSET Nat
    BY <1>0
  <2>2. PICK n \in T : \A m \in T : n <= m
    <3> HIDE DEF T
    <3> QED BY <2>1, LeastNatural
  <2>3. n \in 0..(NDirs - 1) /\ f[NDirs + 1 - n] # nothing
    BY <2>2
  <2>4. n > 0
    BY <1>0, <1>2, <2>3
  <2>5. n - 1 \in 0..(NDirs - 1) /\ n - 1 \notin T
    BY <1>0, <2>2, <2>3, <2>4
  <2> DEFINE d == NDirs + 1 - n
  <2>6. d \in Dirs \ {1} /\ d + 1 = NDirs + 1 - (n - 1)
    BY <1>0, <2>3, <2>4 DEF Dirs
  <2>7. f[d + 1] = nothing
    BY <2>5, <2>6
  <2> HIDE DEF d
  <2>8. f[d] = nothing
    BY <1>1, <1>2, <1>3, <1>4, <2>6, <2>7
  <2> QED BY <2>3, <2>8 DEF d
<1>6. f[2] = nothing
  <2>1. NDirs - 1 \in 0..(NDirs - 1) /\ NDirs + 1 - (NDirs - 1) = 2
    BY <1>0
  <2> QED BY <1>5, <2>1
<1> QED BY <1>0, <1>2, <1>3, <1>4, <1>6

\* A field read is that of the first directory that sets it.
LEMMA FirstWins ==
    ASSUME NEW all, \A d \in Dirs : WellFiled(all[d]), MergedFrom(all) # ReadError,
           NEW id \in Ids, NEW k \in Fields \cup {"name"}, NEW d \in Dirs,
           ReadDir(all[d])[id] # NoItem, ReadDir(all[d])[id][k] # Unset,
           \A e \in 1..(d - 1) : ReadDir(all[e])[id] = NoItem \/ ReadDir(all[e])[id][k] = Unset
    PROVE  MergedFrom(all)[id][k] = ReadDir(all[d])[id][k]
<1>0. NDirs \in Nat /\ NDirs > 0 /\ 1 \in Dirs /\ d \in Nat /\ 1 <= d /\ d <= NDirs
  BY BoundsAssumption DEF Dirs
<1>1. PICK f : /\ MergedFrom(all) = f[1] /\ f[NDirs + 1] = [i \in Ids |-> NoItem]
               /\ \A e \in Dirs : f[e] = Merge(f[e + 1], ReadDir(all[e]))
  BY MergedStep
<1>2. \A e \in Dirs : ReadDir(all[e]) \in Reads \cup {ReadError}
  BY ReadDirType
<1> DEFINE Typed(e) == f[e] \in Reads \cup {ReadError}
           T == {n \in 0..NDirs : ~Typed(NDirs + 1 - n)}
<1>3. T = {}
  <2> SUFFICES ASSUME T # {} PROVE FALSE
    OBVIOUS
  <2>1. T \in SUBSET Nat
    BY <1>0
  <2>2. PICK n \in T : \A m \in T : n <= m
    <3> HIDE DEF T
    <3> QED BY <2>1, LeastNatural
  <2>3. n \in 0..NDirs /\ ~Typed(NDirs + 1 - n)
    BY <2>2
  <2>4. n > 0
    BY <1>0, <1>1, <2>3 DEF Reads
  <2>5. n - 1 \in 0..NDirs /\ n - 1 \notin T
    BY <1>0, <2>2, <2>3, <2>4
  <2> DEFINE e == NDirs + 1 - n
  <2>6. e \in Dirs /\ e + 1 = NDirs + 1 - (n - 1)
    BY <1>0, <2>3, <2>4 DEF Dirs
  <2>7. Typed(e + 1)
    BY <2>5, <2>6
  <2> HIDE DEF e
  <2>8. Typed(e)
    BY <1>1, <1>2, <2>6, <2>7, MergeType
  <2> QED BY <2>3, <2>8 DEF e
<1>4. \A e \in Dirs : Typed(e) /\ Typed(e + 1)
  <2> SUFFICES ASSUME NEW e \in Dirs PROVE Typed(e) /\ Typed(e + 1)
    OBVIOUS
  <2>1. /\ NDirs + 1 - e \in 0..NDirs /\ NDirs + 1 - (NDirs + 1 - e) = e
        /\ NDirs - e \in 0..NDirs /\ NDirs + 1 - (NDirs - e) = e + 1
    BY <1>0 DEF Dirs
  <2> HIDE DEF Typed
  <2> QED BY <1>3, <2>1
<1> HIDE DEF T
<1> DEFINE Right(e) == f[e] # ReadError => f[e][id] # NoItem /\ f[e][id][k] = ReadDir(all[d])[id][k]
<1>5. ASSUME NEW e \in Dirs, f[e] # ReadError
      PROVE  /\ f[e + 1] \in Reads /\ ReadDir(all[e]) \in Reads /\ f[e + 1] # ReadError
             /\ f[e][id] = MergeItem(f[e + 1][id], ReadDir(all[e])[id])
  <2>1. f[e] = Merge(f[e + 1], ReadDir(all[e]))
    BY <1>1
  <2>2. f[e + 1] \in Reads \cup {ReadError} /\ ReadDir(all[e]) \in Reads \cup {ReadError}
    BY <1>2, <1>4
  <2>3. /\ f[e + 1] \in Reads /\ ReadDir(all[e]) \in Reads
        /\ f[e] = [i \in Ids |-> MergeItem(f[e + 1][i], ReadDir(all[e])[i])]
    BY <1>5, <2>1, <2>2, MergeType
  <2> QED BY <2>3, NilAssumption DEF Reads
<1>6. Right(d)
  <2> SUFFICES ASSUME f[d] # ReadError PROVE f[d][id] # NoItem /\ f[d][id][k] = ReadDir(all[d])[id][k]
    OBVIOUS
  <2>1. f[d + 1][id] \in Item \cup {NoItem} /\ ReadDir(all[d])[id] \in Item \cup {NoItem}
    BY <1>5 DEF Reads
  <2> QED BY <1>5, <2>1, MergeItemFields
<1>7. ASSUME NEW e \in 1..(d - 1), Right(e + 1) PROVE Right(e)
  <2> SUFFICES ASSUME f[e] # ReadError PROVE f[e][id] # NoItem /\ f[e][id][k] = ReadDir(all[d])[id][k]
    OBVIOUS
  <2>0. e \in Dirs
    BY <1>0 DEF Dirs
  <2>1. f[e + 1][id] \in Item \cup {NoItem} /\ ReadDir(all[e])[id] \in Item \cup {NoItem}
    BY <1>5, <2>0 DEF Reads
  <2>2. f[e + 1][id] # NoItem /\ f[e + 1][id][k] = ReadDir(all[d])[id][k]
    BY <1>5, <1>7, <2>0
  <2>3. ReadDir(all[e])[id] = NoItem \/ ReadDir(all[e])[id][k] = Unset
    OBVIOUS
  <2> QED BY <1>5, <2>0, <2>1, <2>2, <2>3, MergeItemFields
<1> HIDE DEF Right
<1> DEFINE S == {n \in 0..(d - 1) : ~Right(d - n)}
<1>8. S = {}
  <2> SUFFICES ASSUME S # {} PROVE FALSE
    OBVIOUS
  <2>1. S \in SUBSET Nat
    BY <1>0
  <2>2. PICK n \in S : \A m \in S : n <= m
    <3> HIDE DEF S
    <3> QED BY <2>1, LeastNatural
  <2>3. n \in 0..(d - 1) /\ ~Right(d - n) /\ d - 0 = d
    BY <1>0, <2>2
  <2>4. n > 0
    BY <1>6, <2>3
  <2>5. n - 1 \in 0..(d - 1) /\ n - 1 \notin S
    BY <1>0, <2>2, <2>3, <2>4
  <2>6. d - n \in 1..(d - 1) /\ d - n + 1 = d - (n - 1)
    BY <1>0, <2>3, <2>4
  <2>7. Right(d - n + 1)
    BY <2>5, <2>6
  <2> QED BY <1>7, <2>3, <2>6, <2>7
<1>9. Right(1)
  <2>1. d - 1 \in 0..(d - 1) /\ d - (d - 1) = 1
    BY <1>0
  <2> QED BY <1>8, <2>1
<1> QED BY <1>1, <1>9 DEF Right

-----------------------------------------------------------------------------
(***************************************************************************)
(* The inductive invariant: the resources on the server and those pulled   *)
(* have names and fields of their types, so what is written does.          *)
(***************************************************************************)
WellNamed(item) == item["name"] \in Names /\ \A k \in Fields : item[k] \in Vals \cup {Unset}
AllNamed(all) == \A id \in Ids : all[id] # NoItem => all[id] \in Item /\ WellNamed(all[id])

IInv ==
    /\ TypeOK
    /\ AllNamed(remote) /\ AllNamed(data)
    /\ DOMAIN files = Dirs
    /\ OnlyPulledNamesWritten

\* writeFiles: the file chosen is one of those of the name.
LEMMA ChosenName ==
    ASSUME NEW name \in Names, NEW used, \A n \in DOMAIN used : used[n] \in 1..MaxCount, name \in DOMAIN used => used[name] < MaxCount
    PROVE  /\ Chosen(name, used).name \in Strings /\ Chosen(name, used).count \in 1..MaxCount
           /\ FileName(Chosen(name, used).name) \in Strings
           /\ FileName(Chosen(name, used).name) \in Family(name)
<1>1. CASE name \notin DOMAIN used
  <2>1. Chosen(name, used) = [name |-> name, count |-> 1]
    BY <1>1 DEF Chosen
  <2> QED BY <2>1, FamilyNames, BoundsAssumption DEF FileName
<1>2. CASE name \in DOMAIN used
  <2> DEFINE k == used[name] + 1
  <2>1. k \in Counts /\ k \in 1..MaxCount
    BY <1>2, BoundsAssumption DEF Counts
  <2>2. Chosen(name, used) = [name |-> Numbered[name][k], count |-> k]
    BY <1>2 DEF Chosen
  <2> HIDE DEF k
  <2> QED BY <2>1, <2>2, FamilyNames DEF FileName
<1> QED BY <1>1, <1>2

\* A directory has one file of each name, also after one is replaced.
LEMMA ReplaceKeeps ==
    ASSUME NEW dir, NEW file, OneFileEach(dir), IsFile(file)
    PROVE  OneFileEach(Replace(dir, file))
BY DEF OneFileEach, Replace

\* Only the files of its name change.
LEMMA ReplaceOnly ==
    ASSUME NEW dir, NEW file, NEW old,
           NEW f \in (Replace(dir, file) \ old) \cup (old \ Replace(dir, file))
    PROVE  f \in (dir \ old) \cup (old \ dir) \/ f.name = file.name
BY DEF Replace

\* Writing a file of a resource that is pulled keeps the files as they should be.
LEMMA WriteKeeps ==
    ASSUME IInv, pc = "pull", NEW id \in todo, NEW file, IsFile(file),
           file.name \in Family(NameOf(data[id])), Write(id, file),
           base' = base, data' = data
    PROVE  /\ DOMAIN files' = Dirs
           /\ \A d \in Dirs : OneFileEach(files'[d])
           /\ OnlyPulledNamesWritten'
<1>1. 1 \in Dirs
  BY BoundsAssumption DEF Dirs
<1>2. DOMAIN files = Dirs /\ OnlyPulledNamesWritten /\ \A d \in Dirs : OneFileEach(files[d])
  BY DEF IInv, TypeOK, OneFileEach
<1>3. files' = [files EXCEPT ![1] = Replace(files[1], file)]
  BY DEF Write
<1>4. DOMAIN files' = Dirs
  BY <1>2, <1>3
<1>5. files'[1] = Replace(files[1], file)
  BY <1>1, <1>2, <1>3
<1>6. ASSUME NEW d \in Dirs, d # 1 PROVE files'[d] = files[d]
  BY <1>2, <1>3, <1>6
<1>7. ASSUME NEW d \in Dirs PROVE OneFileEach(files'[d])
  <2>1. CASE d = 1
    BY <2>1, <1>1, <1>2, <1>5, ReplaceKeeps
  <2>2. CASE d # 1
    BY <2>2, <1>2, <1>6
  <2> QED BY <2>1, <2>2
<1>8. ASSUME NEW d \in Dirs, NEW f \in (files'[d] \ base[d]) \cup (base[d] \ files'[d])
      PROVE  d = 1 /\ \E i \in Present(data) : f.name \in Family(NameOf(data[i]))
  <2>1. ASSUME f \in (files[d] \ base[d]) \cup (base[d] \ files[d])
        PROVE  d = 1 /\ \E i \in Present(data) : f.name \in Family(NameOf(data[i]))
    BY <2>1, <1>2 DEF OnlyPulledNamesWritten
  <2>2. CASE d = 1
    <3>1. CASE f.name = file.name
      BY <2>2, <3>1 DEF IInv, TypeOK
    <3>2. CASE f.name # file.name
      BY <2>1, <2>2, <3>2, <1>5, <1>8, ReplaceOnly
    <3> QED BY <3>1, <3>2
  <2>3. CASE d # 1
    BY <2>1, <2>3, <1>6, <1>8
  <2> QED BY <2>2, <2>3
<1> QED BY <1>4, <1>7, <1>8 DEF OnlyPulledNamesWritten, Present

-----------------------------------------------------------------------------
\* The initial states satisfy the invariant.
THEOREM InitInv == Init => IInv
<1> SUFFICES ASSUME Init PROVE IInv
  OBVIOUS
<1>1. \A item \in Items : item \in Item /\ WellNamed(item)
  <2> SUFFICES ASSUME NEW item \in Items PROVE item \in Item /\ WellNamed(item)
    OBVIOUS
  <2>1. item \in [Fields \cup {"name"} -> Vals \cup {Unset} \cup Names] /\ item["name"] \in Names
        /\ \A k \in Fields : item[k] \in Vals \cup {Unset}
    BY DEF Items
  <2>2. item \in Item
    BY <2>1 DEF Item
  <2> QED BY <2>1, <2>2 DEF WellNamed
<1>2. AllNamed(remote) /\ AllNamed(data)
  BY <1>1 DEF Init, AllNamed
<1>3. changes \in 0..MaxChanges
  BY BoundsAssumption DEF Init
<1>4. DOMAIN files = Dirs /\ \A d \in Dirs : files[d] = {}
  BY DEF Init
<1>5. TypeOK
  <2>1. todo = {} /\ pc = "idle" /\ counts = <<>> /\ Present(remote) \subseteq Ids
    BY DEF Init, Present
  <2>2. DOMAIN counts = {}
    BY <2>1
  <2> QED BY <1>3, <1>4, <2>1, <2>2 DEF TypeOK
<1>6. OnlyPulledNamesWritten
  BY DEF Init, OnlyPulledNamesWritten
<1> QED BY <1>2, <1>4, <1>5, <1>6 DEF IInv

\* StartPull: nothing is written yet.
LEMMA StartInv == ASSUME IInv, StartPull PROVE IInv'
<1>1. TypeOK'
  <2>1. counts' = <<>> /\ DOMAIN counts' = {}
    BY DEF StartPull
  <2>2. todo' = Present(data') /\ pc' \in {"idle", "pull", "done", "failed"}
    BY DEF StartPull, Present
  <2>3. files' = files /\ changes' = changes /\ Present(remote)' \subseteq Ids
    BY DEF StartPull, Present
  <2> QED BY <2>1, <2>2, <2>3 DEF IInv, TypeOK, Present
<1>2. AllNamed(remote') /\ AllNamed(data') /\ DOMAIN files' = Dirs
  BY DEF IInv, StartPull
<1>3. OnlyPulledNamesWritten'
  BY DEF StartPull, OnlyPulledNamesWritten
<1> QED BY <1>1, <1>2, <1>3 DEF IInv

\* WriteNext: one resource is written, or its name refused.
LEMMA WriteInv == ASSUME IInv, NEW id \in Ids, WriteNext(id) PROVE IInv'
<1> DEFINE chosen == Chosen(NameOf(data[id]), counts)
<1> DEFINE file == [name |-> FileName(chosen.name), id |-> id, item |-> data[id]]
<1>1. /\ pc = "pull" /\ id \in todo /\ Countable(NameOf(data[id]))
      /\ UNCHANGED <<remote, data, base, named, changes>>
      /\ IF chosen.name \in Dotted
         THEN pc' = "failed" /\ UNCHANGED <<files, todo, counts>>
         ELSE /\ Write(id, file)
              /\ counts' = Record(counts, chosen)
              /\ todo' = todo \ {id}
              /\ pc' = IF todo = {id} THEN "done" ELSE "pull"
  BY DEF WriteNext
<1>2. /\ data[id] # NoItem /\ data[id] \in Item /\ WellNamed(data[id]) /\ NameOf(data[id]) \in Names
      /\ \A n \in DOMAIN counts : counts[n] \in 1..MaxCount
  BY <1>1 DEF IInv, TypeOK, Present, AllNamed, WellNamed, NameOf
<1>3. /\ chosen.count \in 1..MaxCount
      /\ FileName(chosen.name) \in Strings /\ FileName(chosen.name) \in Family(NameOf(data[id]))
  BY <1>1, <1>2, ChosenName DEF Countable
<1>4. CASE chosen.name \in Dotted
  <2>1. pc' = "failed" /\ UNCHANGED <<files, todo, counts>>
    BY <1>1, <1>4
  <2> QED BY <1>1, <2>1 DEF IInv, TypeOK, OnlyPulledNamesWritten, AllNamed, Present
<1>5. CASE chosen.name \notin Dotted
  <2>1. Write(id, file) /\ counts' = Record(counts, chosen) /\ todo' = todo \ {id} /\ pc' \in {"pull", "done"}
    BY <1>1, <1>5
  <2>2. file.name = FileName(chosen.name) /\ file.id = id /\ file.item = data[id]
    OBVIOUS
  <2>3. \A n \in DOMAIN counts' : counts'[n] \in 1..MaxCount
    BY <1>2, <1>3, <2>1 DEF Record
  <2> HIDE DEF file, chosen
  <2>4. IsFile(file)
    BY <1>2, <1>3, <2>2 DEF IsFile, WellNamed
  <2>5. DOMAIN files' = Dirs /\ OnlyPulledNamesWritten' /\ \A d \in Dirs : OneFileEach(files'[d])
    BY <1>1, <1>3, <2>1, <2>2, <2>4, WriteKeeps
  <2>6. TypeOK'
    BY <1>1, <2>1, <2>3, <2>5 DEF IInv, TypeOK, OneFileEach, Present
  <2> QED BY <1>1, <2>5, <2>6 DEF IInv, AllNamed
<1> QED BY <1>4, <1>5

\* Faults: the process dies, having truncated a file or not.
LEMMA DieInv == ASSUME IInv, Fault PROVE IInv'
<1>1. CASE DieBetween
  BY <1>1 DEF IInv, TypeOK, OnlyPulledNamesWritten, AllNamed, Present, DieBetween, Die
<1>2. ASSUME NEW id \in Ids, DieWriting(id) PROVE IInv'
  <2> DEFINE name == FileName(Chosen(NameOf(data[id]), counts).name)
  <2>1. /\ pc = "pull" /\ pc' = "failed" /\ id \in todo /\ Countable(NameOf(data[id]))
        /\ UNCHANGED <<remote, data, todo, counts, base, named, changes>>
    BY <1>2 DEF DieWriting, Die
  <2>2. /\ data[id] # NoItem /\ data[id] \in Item /\ WellNamed(data[id]) /\ NameOf(data[id]) \in Names
        /\ \A n \in DOMAIN counts : counts[n] \in 1..MaxCount
    BY <2>1 DEF IInv, TypeOK, Present, AllNamed, WellNamed, NameOf
  <2>3. name \in Strings /\ name \in Family(NameOf(data[id]))
    BY <2>1, <2>2, ChosenName DEF Countable
  <2>4. PICK file : IsFile(file) /\ file.name = name /\ Write(id, file)
    <3>1. CASE Write(id, [name |-> name, id |-> NoId, item |-> NoItem])
      <4> DEFINE file == [name |-> name, id |-> NoId, item |-> NoItem]
      <4> HIDE DEF name
      <4>1. file.name = name /\ file.id = NoId /\ file.item = NoItem
        OBVIOUS
      <4>2. IsFile(file)
        BY <4>1, <2>3 DEF IsFile
      <4> HIDE DEF file
      <4> QED BY <4>1, <4>2, <3>1 DEF file
    <3>2. ASSUME NEW k \in Fields,
                 Write(id, [name |-> name, id |-> id, item |-> [data[id] EXCEPT ![k] = Unset]])
          PROVE  \E file : IsFile(file) /\ file.name = name /\ Write(id, file)
      <4> DEFINE torn == [data[id] EXCEPT ![k] = Unset]
      <4> DEFINE file == [name |-> name, id |-> id, item |-> torn]
      <4>1. \A j \in Fields : torn[j] \in Vals \cup {Unset}
        BY <2>2 DEF WellNamed, Item
      <4> HIDE DEF name, torn
      <4>2. file.name = name /\ file.id = id /\ file.item = torn
        OBVIOUS
      <4>3. IsFile(file)
        BY <4>1, <4>2, <2>3 DEF IsFile
      <4>4. Write(id, file)
        BY <3>2 DEF torn
      <4> HIDE DEF file
      <4> QED BY <4>2, <4>3, <4>4
    <3> QED BY <1>2, <3>1, <3>2 DEF DieWriting
  <2> HIDE DEF name
  <2>5. DOMAIN files' = Dirs /\ OnlyPulledNamesWritten' /\ \A d \in Dirs : OneFileEach(files'[d])
    BY <2>1, <2>3, <2>4, WriteKeeps
  <2>6. TypeOK'
    BY <2>1, <2>5 DEF IInv, TypeOK, OneFileEach, Present
  <2> QED BY <2>1, <2>5, <2>6 DEF IInv, AllNamed
<1> QED BY <1>1, <1>2 DEF Fault

\* Others: resources change on the server, files are moved between directories.
LEMMA OthersInv == ASSUME IInv, Others PROVE IInv'
<1>1. ASSUME NEW id \in Ids, NEW item, item = NoItem \/ item \in Items,
             remote' = [remote EXCEPT ![id] = item], OnServer
      PROVE  IInv'
  <2>1. item # NoItem => item \in Item /\ WellNamed(item)
    BY <1>1 DEF Items, Item, WellNamed
  <2>2. AllNamed(remote')
    BY <1>1, <2>1 DEF IInv, AllNamed
  <2>3. changes' \in 0..MaxChanges /\ UNCHANGED <<files, pc, data, todo, counts, base, named>>
    BY <1>1, BoundsAssumption DEF IInv, TypeOK, OnServer, CountChange
  <2> QED BY <2>2, <2>3 DEF IInv, TypeOK, OnlyPulledNamesWritten, AllNamed, Present
<1>2. ASSUME NEW d \in Dirs, NEW e \in Dirs, NEW f \in files[d], Move(d, e, f) PROVE IInv'
  <2>1. /\ d # e /\ files' = [files EXCEPT ![d] = files[d] \ {f}, ![e] = Replace(files[e], f)]
        /\ UNCHANGED <<remote, data, todo, counts, base, named>> /\ pc' = "idle"
    BY <1>2 DEF Move
  <2>2. DOMAIN files = Dirs /\ \A c \in Dirs : OneFileEach(files[c])
    BY DEF IInv, TypeOK, OneFileEach
  <2>3. changes' \in 0..MaxChanges
    BY <1>2, BoundsAssumption DEF IInv, TypeOK, Move, CountChange
  <2>4. DOMAIN files' = Dirs /\ \A c \in Dirs :
            files'[c] = IF c = e THEN Replace(files[e], f) ELSE IF c = d THEN files[d] \ {f} ELSE files[c]
    BY <2>1, <2>2
  <2>5. IsFile(f) /\ OneFileEach(Replace(files[e], f)) /\ OneFileEach(files[d] \ {f})
    BY <2>2, ReplaceKeeps DEF OneFileEach
  <2>6. \A c \in Dirs : OneFileEach(files'[c])
    BY <2>2, <2>4, <2>5
  <2>7. TypeOK'
    BY <2>1, <2>3, <2>6 DEF IInv, TypeOK, OneFileEach, Present
  <2> QED BY <2>1, <2>4, <2>7 DEF IInv, AllNamed, OnlyPulledNamesWritten
<1> QED BY <1>1, <1>2 DEF Others, Set, Delete

\* Every step keeps the invariant.
THEOREM NextInv == IInv /\ [Next]_vars => IInv'
<1> SUFFICES ASSUME IInv, [Next]_vars PROVE IInv'
  OBVIOUS
<1>1. CASE UNCHANGED vars
  BY <1>1 DEF IInv, TypeOK, OnlyPulledNamesWritten, AllNamed, Present, vars
<1> QED BY <1>1, StartInv, WriteInv, DieInv, OthersInv DEF Next, Step

\* It holds of every behaviour.
THEOREM Invariance == Spec => []IInv
BY InitInv, NextInv, PTL DEF Spec

-----------------------------------------------------------------------------
\* The state stays well typed: a directory has one file of each name.
THEOREM TypeCorrect == Spec => []TypeOK
<1>1. IInv => TypeOK
  BY DEF IInv
<1> QED BY <1>1, Invariance, PTL

\* writeFiles touches no file but those of the names it pulls, in the first directory.
THEOREM KeepsOtherFiles == Spec => []OnlyPulledNamesWritten
<1>1. IInv => OnlyPulledNamesWritten
  BY DEF IInv
<1> QED BY <1>1, Invariance, PTL

-----------------------------------------------------------------------------
(***************************************************************************)
(* The files of a directory are finitely many and hold resources, whatever *)
(* was written, truncated or moved: so the merge of directories is a read. *)
(***************************************************************************)
Filed == IInv /\ \A d \in Dirs : WellFiled(files[d])
Holds(file) == IsFile(file) /\ (file.id \in Ids => file.item \in Item)

\* A file that replaces one leaves the directory in order.
LEMMA ReplaceFiled ==
    ASSUME NEW dir, WellFiled(dir), NEW file, Holds(file)
    PROVE  WellFiled(Replace(dir, file))
<1> DEFINE rest == {f \in dir : f.name # file.name}
<1>1. IsFiniteSet(rest)
  <2>1. rest \in SUBSET dir
    OBVIOUS
  <2> QED BY <2>1, FS_Subset DEF WellFiled
<1>2. IsFiniteSet(rest \cup {file})
  BY <1>1, FS_AddElement
<1>3. OneFileEach(Replace(dir, file))
  BY ReplaceKeeps DEF WellFiled, Holds
<1>4. \A f \in Replace(dir, file) : f.id \in Ids => f.item \in Item
  BY DEF Replace, WellFiled, Holds
<1> QED BY <1>2, <1>3, <1>4 DEF WellFiled, Replace

\* What is written is in the first directory; the others stay.
LEMMA WriteFirst ==
    ASSUME IInv, NEW id, NEW file, Write(id, file)
    PROVE  /\ 1 \in Dirs /\ files'[1] = Replace(files[1], file)
           /\ \A d \in Dirs \ {1} : files'[d] = files[d]
<1>1. DOMAIN files = Dirs /\ 1 \in Dirs
  BY BoundsAssumption DEF IInv, Dirs
<1> QED BY <1>1 DEF Write

\* The files of a directory before a step, or the one written or moved there.
LEMMA WriteFiled ==
    ASSUME Filed, NEW id, NEW file, Holds(file), Write(id, file)
    PROVE  \A d \in Dirs : WellFiled(files'[d])
<1>1. IInv
  BY DEF Filed
<1> QED BY <1>1, WriteFirst, ReplaceFiled DEF Filed

\* WriteNext writes the resource under the name chosen for it.
LEMMA NextWrites ==
    ASSUME IInv, NEW id \in Ids, WriteNext(id)
    PROVE  LET cur == NameOf(data[id])
               chosen == Chosen(cur, counts)
               file == [name |-> FileName(chosen.name), id |-> id, item |-> data[id]]
           IN /\ data[id] \in Item /\ cur \in Names /\ Holds(file)
              /\ \/ UNCHANGED <<files, todo, counts>> /\ pc' = "failed"
                 \/ Write(id, file) /\ counts' = Record(counts, chosen) /\ todo' = todo \ {id}
<1> DEFINE chosen == Chosen(NameOf(data[id]), counts)
           file == [name |-> FileName(chosen.name), id |-> id, item |-> data[id]]
<1>1. /\ data[id] # NoItem /\ data[id] \in Item /\ WellNamed(data[id]) /\ NameOf(data[id]) \in Names
      /\ \A n \in DOMAIN counts : counts[n] \in 1..MaxCount
  BY DEF IInv, TypeOK, Present, AllNamed, WellNamed, NameOf, WriteNext
<1>2. FileName(chosen.name) \in Strings
  BY <1>1, ChosenName DEF WriteNext, Countable
<1>3. file.name = FileName(chosen.name) /\ file.id = id /\ file.item = data[id]
  OBVIOUS
<1>4. \/ UNCHANGED <<files, todo, counts>> /\ pc' = "failed"
      \/ Write(id, file) /\ counts' = Record(counts, chosen) /\ todo' = todo \ {id}
  BY DEF WriteNext
<1> HIDE DEF chosen, file
<1>5. Holds(file)
  BY <1>1, <1>2, <1>3 DEF Holds, IsFile, WellNamed
<1> QED BY <1>1, <1>4, <1>5 DEF chosen, file

\* DieWriting leaves under that name a file of no resource, or of this one without a field.
LEMMA DieWrites ==
    ASSUME IInv, NEW id \in Ids, DieWriting(id)
    PROVE  \E file : /\ Holds(file) /\ Write(id, file) /\ file.id \in {id, NoId}
                     /\ file.name = FileName(Chosen(NameOf(data[id]), counts).name)
<1> DEFINE name == FileName(Chosen(NameOf(data[id]), counts).name)
<1>1. /\ data[id] # NoItem /\ data[id] \in Item /\ WellNamed(data[id]) /\ NameOf(data[id]) \in Names
      /\ \A n \in DOMAIN counts : counts[n] \in 1..MaxCount
  BY DEF IInv, TypeOK, Present, AllNamed, WellNamed, NameOf, DieWriting, Die
<1>2. name \in Strings
  BY <1>1, ChosenName DEF DieWriting, Countable
<1>3. CASE Write(id, [name |-> name, id |-> NoId, item |-> NoItem])
  <2> DEFINE file == [name |-> name, id |-> NoId, item |-> NoItem]
  <2> HIDE DEF name
  <2>1. file.name = name /\ file.id = NoId /\ file.item = NoItem
    OBVIOUS
  <2>2. Holds(file) /\ Write(id, file)
    BY <1>2, <1>3, <2>1, NilAssumption DEF Holds, IsFile
  <2> HIDE DEF file
  <2> QED BY <2>1, <2>2 DEF name
<1>4. ASSUME NEW k \in Fields,
             Write(id, [name |-> name, id |-> id, item |-> [data[id] EXCEPT ![k] = Unset]])
      PROVE  \E file : Holds(file) /\ Write(id, file) /\ file.id \in {id, NoId} /\ file.name = name
  <2> DEFINE torn == [data[id] EXCEPT ![k] = Unset]
             file == [name |-> name, id |-> id, item |-> torn]
  <2>1. torn \in Item /\ \A j \in Fields : torn[j] \in Vals \cup {Unset}
    BY <1>1 DEF WellNamed, Item
  <2>2. Write(id, file)
    BY <1>4
  <2> HIDE DEF name, torn
  <2>3. file.name = name /\ file.id = id /\ file.item = torn
    OBVIOUS
  <2>4. Holds(file)
    BY <1>2, <2>1, <2>3 DEF Holds, IsFile
  <2> HIDE DEF file
  <2> QED BY <2>2, <2>3, <2>4
<1> QED BY <1>3, <1>4 DEF DieWriting

\* A moved file replaces the one of its name in the other directory.
LEMMA MoveFirst ==
    ASSUME IInv, NEW d \in Dirs, NEW e \in Dirs, NEW f \in files[d], Move(d, e, f)
    PROVE  \A c \in Dirs :
               files'[c] = IF c = e THEN Replace(files[e], f) ELSE IF c = d THEN files[d] \ {f} ELSE files[c]
BY DEF IInv, Move

\* Every step keeps the directories in order.
THEOREM FiledNext == Filed /\ [Next]_vars => Filed'
<1> SUFFICES ASSUME Filed, [Next]_vars PROVE Filed'
  OBVIOUS
<1>1. IInv /\ IInv'
  BY NextInv DEF Filed
<1>2. CASE UNCHANGED files
  BY <1>1, <1>2 DEF Filed
<1>3. ASSUME NEW id \in Ids, WriteNext(id) PROVE Filed'
  BY <1>1, <1>2, <1>3, NextWrites, WriteFiled DEF Filed
<1>4. ASSUME NEW id \in Ids, DieWriting(id) PROVE Filed'
  BY <1>1, <1>4, DieWrites, WriteFiled DEF Filed
<1>5. ASSUME NEW d \in Dirs, NEW e \in Dirs, NEW f \in files[d], Move(d, e, f) PROVE Filed'
  <2>1. WellFiled(files[d]) /\ WellFiled(files[e]) /\ Holds(f)
    BY DEF Filed, WellFiled, OneFileEach, Holds
  <2>2. WellFiled(Replace(files[e], f))
    BY <2>1, ReplaceFiled
  <2>3. WellFiled(files[d] \ {f})
    <3>1. files[d] \ {f} \in SUBSET files[d]
      OBVIOUS
    <3> QED BY <2>1, <3>1, FS_Subset DEF WellFiled, OneFileEach
  <2>4. \A c \in Dirs : files'[c] = IF c = e THEN Replace(files[e], f)
                                    ELSE IF c = d THEN files[d] \ {f} ELSE files[c]
    BY <1>1, <1>5, MoveFirst
  <2>5. \A c \in Dirs : WellFiled(files'[c])
    BY <2>2, <2>3, <2>4 DEF Filed
  <2> QED BY <1>1, <2>5 DEF Filed
<1>6. CASE StartPull \/ DieBetween \/ (\E id \in Ids : Delete(id) \/ \E item \in Items : Set(id, item)) \/ UNCHANGED vars
  BY <1>2, <1>6 DEF StartPull, DieBetween, Delete, Set, OnServer, vars
<1> QED BY <1>3, <1>4, <1>5, <1>6 DEF Next, Step, Fault, Others

\* They always are.
THEOREM FiledAlways == Spec => []Filed
<1>1. Init => Filed
  <2> SUFFICES ASSUME Init PROVE Filed
    OBVIOUS
  <2>1. \A d \in Dirs : files[d] = {}
    BY DEF Init
  <2> QED BY <2>1, InitInv, FS_EmptySet DEF Filed, WellFiled, OneFileEach
<1> QED BY <1>1, FiledNext, PTL DEF Spec

\* The directories before one are directories.
LEMMA Earlier == \A d \in Dirs : \A e \in 1..(d - 1) : e \in Dirs
BY BoundsAssumption DEF Dirs

\* MultiStorage.Read: a field read has the value of the first directory whose file of the resource sets it.
THEOREM FirstDirectoryAlwaysWins == Spec => []FirstDirectoryWins
<1>1. Filed => FirstDirectoryWins
  <2> SUFFICES ASSUME Filed, MergedFrom(files) # ReadError,
                      NEW id \in Present(MergedFrom(files)), NEW k \in Fields \cup {"name"}, NEW d \in Dirs,
                      ReadDir(files[d])[id] # NoItem, ReadDir(files[d])[id][k] # Unset,
                      \A e \in 1..(d - 1) : ReadDir(files[e])[id] = NoItem \/ ReadDir(files[e])[id][k] = Unset
               PROVE  MergedFrom(files)[id][k] = ReadDir(files[d])[id][k]
    BY Earlier DEF FirstDirectoryWins
  <2>1. id \in Ids
    BY DEF Present
  <2> QED BY <2>1, FirstWins DEF Filed
<1> QED BY <1>1, FiledAlways, PTL

-----------------------------------------------------------------------------
(***************************************************************************)
(* A pull is read back.  Of a name that no other was numbered into, every  *)
(* file of a resource is of a name it was pulled with, numbered 2 or not   *)
(* at all; the counts say which of the names pulled are taken; and of two  *)
(* resources of one name the second written has the numbered file while    *)
(* the first has the other, so no old file of either is read later.        *)
(***************************************************************************)
WrittenOnes == Present(data) \ todo

\* A resource was pulled under the name it has.
Named == \A id \in Ids : named[id] \subseteq Names /\ (data[id] # NoItem => NameOf(data[id]) \in named[id])

\* A file is of a name its resource was pulled under.
FileOf(file, name) ==
    \/ file = Normal[name]
    \/ \E k \in Counts : file = Normal[Numbered[name][k]] /\ (OneNumber(name) => k = 2)
Traced == \A d \in Dirs : \A f \in files[d] : f.id \in Ids => \E name \in named[f.id] : FileOf(f.name, name)

\* The counts are of the names that were written.
CountsRight ==
    \A id \in Present(data) : OneNumber(NameOf(data[id])) =>
        /\ NameOf(data[id]) \in DOMAIN counts <=> \E j \in WrittenOnes : NameOf(data[j]) = NameOf(data[id])
        /\ NameOf(data[id]) \in DOMAIN counts => counts[NameOf(data[id])] = 1

\* What was written is there, the numbered file beside the one of the other resource of its name.
HasFile(id, name) == \E f \in files[1] : f.name = FileName(name) /\ f.id = id /\ f.item = data[id]
Stored(id) ==
    \/ HasFile(id, NameOf(data[id]))
    \/ /\ HasFile(id, Numbered[NameOf(data[id])][2])
       /\ \E j \in WrittenOnes \ {id} : NameOf(data[j]) = NameOf(data[id]) /\ HasFile(j, NameOf(data[j]))
AllStored ==
    pc \in {"pull", "done"} /\ NoClash(data) =>
        \A id \in WrittenOnes : OneNumber(NameOf(data[id])) => Stored(id)

ReadInv == Filed /\ Named /\ Traced /\ CountsRight /\ AllStored /\ (pc = "done" => todo = {})

\* writeFiles: a name used once is numbered 2; a name that is used otherwise has a number itself.
LEMMA ChosenFile ==
    ASSUME IInv, Named, CountsRight, NEW id \in Present(data), Countable(NameOf(data[id]))
    PROVE  LET cur == NameOf(data[id])
               chosen == Chosen(cur, counts)
           IN /\ cur \in Names /\ FileOf(FileName(chosen.name), cur)
              /\ OneNumber(cur) =>
                     IF cur \in DOMAIN counts THEN chosen = [name |-> Numbered[cur][2], count |-> 2]
                     ELSE chosen = [name |-> cur, count |-> 1]
<1> DEFINE cur == NameOf(data[id])
           chosen == Chosen(cur, counts)
<1>1. /\ cur \in Names /\ (cur \in DOMAIN counts => counts[cur] \in 1..MaxCount /\ counts[cur] < MaxCount)
      /\ (OneNumber(cur) /\ cur \in DOMAIN counts => counts[cur] = 1)
  BY DEF IInv, TypeOK, AllNamed, WellNamed, NameOf, Present, CountsRight, Countable
<1>2. CASE cur \notin DOMAIN counts
  BY <1>1, <1>2 DEF Chosen, FileOf, FileName
<1>3. CASE cur \in DOMAIN counts
  <2> DEFINE n == counts[cur] + 1
  <2>1. n \in Counts /\ (OneNumber(cur) => n = 2)
    BY <1>1, <1>3, BoundsAssumption DEF Counts
  <2>2. chosen = [name |-> Numbered[cur][n], count |-> n]
    BY <1>3 DEF Chosen
  <2> HIDE DEF n, chosen, cur
  <2>3. FileName(chosen.name) = Normal[Numbered[cur][n]]
    BY <2>2 DEF FileName
  <2>4. FileOf(FileName(chosen.name), cur)
    BY <2>1, <2>3 DEF FileOf
  <2>5. OneNumber(cur) => chosen = [name |-> Numbered[cur][2], count |-> 2]
    BY <2>1, <2>2
  <2> QED BY <1>1, <1>3, <2>4, <2>5 DEF cur, chosen
<1> QED BY <1>2, <1>3

\* What was pulled under one number is pulled so until a pull with another.
LEMMA OneNumberBefore ==
    ASSUME NEW name, \A id \in Ids : named[id] \subseteq named'[id], OneNumber(name)'
    PROVE  OneNumber(name)
BY DEF OneNumber

\* Traced: the files of old pulls, and the one written.
LEMMA TracedNext ==
    ASSUME Filed, Traced, \A id \in Ids : named[id] \subseteq named'[id],
           \A d \in Dirs : \A f \in files'[d] : f.id \in Ids =>
               (\E e \in Dirs : f \in files[e]) \/ \E name \in named[f.id] : FileOf(f.name, name)
    PROVE  Traced'
<1> SUFFICES ASSUME NEW d \in Dirs, NEW f \in files'[d], f.id \in Ids
             PROVE  \E name \in named'[f.id] : FileOf(f.name, name)'
  BY DEF Traced
<1>1. PICK name \in named[f.id] : FileOf(f.name, name)
  BY DEF Traced
<1>2. FileOf(f.name, name)'
  BY <1>1, OneNumberBefore DEF FileOf
<1> QED BY <1>1, <1>2

\* CountsRight: the name chosen is the one written, or has a number that no name has that is pulled.
LEMMA CountsNext ==
    ASSUME IInv, Named, CountsRight, NEW id \in todo, todo \subseteq Present(data),
           Countable(NameOf(data[id])), counts' = Record(counts, Chosen(NameOf(data[id]), counts)), todo' = todo \ {id},
           UNCHANGED <<data, named>>
    PROVE  CountsRight'
<1> DEFINE cur == NameOf(data[id])
           chosen == Chosen(cur, counts)
<1>1. WrittenOnes' = WrittenOnes \cup {id} /\ Present(data)' = Present(data)
  BY DEF WrittenOnes, Present
<1> SUFFICES ASSUME NEW i \in Present(data), OneNumber(NameOf(data[i]))
             PROVE  /\ NameOf(data[i]) \in DOMAIN counts' <=> \E j \in WrittenOnes \cup {id} : NameOf(data[j]) = NameOf(data[i])
                    /\ NameOf(data[i]) \in DOMAIN counts' => counts'[NameOf(data[i])] = 1
  BY <1>1 DEF CountsRight, OneNumber
<1> DEFINE m == NameOf(data[i])
<1>2. /\ m \in DOMAIN counts <=> \E j \in WrittenOnes : NameOf(data[j]) = m
      /\ m \in DOMAIN counts => counts[m] = 1
  BY DEF CountsRight
<1>3. /\ DOMAIN counts' = DOMAIN counts \cup {chosen.name}
      /\ \A n \in DOMAIN counts' : counts'[n] = IF n = chosen.name THEN chosen.count ELSE counts[n]
  BY DEF Record
<1>4. /\ cur \in named[id] /\ cur \in Names /\ m \in named[i] /\ m \in Names /\ id \in Ids /\ i \in Ids
      /\ \A n \in DOMAIN counts : counts[n] \in 1..MaxCount
  BY DEF Named, Present, IInv, TypeOK
<1>5. CASE cur \notin DOMAIN counts
  <2>1. chosen.name = cur /\ chosen.count = 1
    BY <1>5 DEF Chosen
  <2> HIDE DEF chosen, cur, m
  <2> QED BY <1>2, <1>3, <1>5, <2>1 DEF m, cur
<1>6. CASE cur \in DOMAIN counts
  <2> DEFINE n == counts[cur] + 1
  <2>1. chosen.name = Numbered[cur][n] /\ n \in Counts
    BY <1>4, <1>6, BoundsAssumption DEF Chosen, Countable, Counts
  <2> HIDE DEF n, chosen
  <2>2. chosen.name # m
    <3> SUFFICES ASSUME Numbered[cur][n] = m PROVE FALSE
      BY <2>1
    <3> HIDE DEF cur, m
    <3>1. Normal[Numbered[cur][n]] = Normal[m]
      OBVIOUS
    <3>2. Normal[cur] = Normal[m] \/ Family(cur) \cap Family(m) = {}
      BY <1>4 DEF m, OneNumber
    <3>3. Normal[m] \in Family(cur) /\ Normal[m] \in Family(m) /\ Normal[m] # Normal[cur]
      BY <1>4, <2>1, <3>1, FamilyNames
    <3> QED BY <3>2, <3>3
  <2> HIDE DEF m
  <2>3. cur = m => \E j \in WrittenOnes : NameOf(data[j]) = m
    BY <1>2, <1>6
  <2> QED BY <1>2, <1>3, <2>2, <2>3 DEF m
<1> QED BY <1>5, <1>6

\* Resources of different names have different files, numbered or not.
LEMMA FilesDiffer ==
    ASSUME NoClash(data), NEW i \in Present(data), NEW j \in Present(data),
           NameOf(data[i]) # NameOf(data[j]),
           NEW f \in Family(NameOf(data[i])), NEW g \in Family(NameOf(data[j]))
    PROVE  f # g
BY DEF NoClash

\* AllStored: the file written replaces none of those written in this pull.
LEMMA StoredNext ==
    ASSUME ReadInv, NEW id \in todo, pc = "pull", NoClash(data), Countable(NameOf(data[id])),
           NEW file, Write(id, file), file.id = id, file.item = data[id],
           file.name = FileName(Chosen(NameOf(data[id]), counts).name),
           UNCHANGED <<data, named>>, todo' = todo \ {id}
    PROVE  \A i \in WrittenOnes' : OneNumber(NameOf(data[i])) => Stored(i)'
<1> DEFINE cur == NameOf(data[id])
<1>1. /\ IInv /\ Named /\ CountsRight /\ id \in Present(data) /\ NoClash(data)
      /\ \A i \in Present(data) : NameOf(data[i]) \in Names
      /\ \A i \in WrittenOnes : OneNumber(NameOf(data[i])) => Stored(i)
  BY DEF ReadInv, Filed, IInv, TypeOK, AllStored, Named, Present
<1>2. WrittenOnes' = WrittenOnes \cup {id} /\ WrittenOnes \subseteq Present(data) /\ id \notin WrittenOnes
  BY <1>1 DEF WrittenOnes, Present
<1>3. files'[1] = Replace(files[1], file)
  BY <1>1, WriteFirst
<1>4. ASSUME NEW i, NEW name, HasFile(i, name), FileName(name) # file.name PROVE HasFile(i, name)'
  BY <1>3, <1>4 DEF HasFile, Replace
<1>5. ASSUME NEW name, file.name = FileName(name) PROVE HasFile(id, name)'
  <2>1. file \in files'[1]
    BY <1>3 DEF Replace
  <2> QED BY <1>5, <2>1 DEF HasFile
<1>6. \A i \in Present(data) :
          LET name == NameOf(data[i])
          IN /\ FileName(name) \in Family(name) /\ FileName(Numbered[name][2]) \in Family(name)
             /\ FileName(Numbered[name][2]) # FileName(name)
  BY <1>1, TwoCounts, FamilyNames DEF FileName
<1>7. file.name \in Family(cur)
  <2>1. FileOf(file.name, cur) /\ cur \in Names
    BY <1>1, ChosenFile
  <2> HIDE DEF cur
  <2> QED BY <2>1, FamilyNames DEF FileOf
<1>8. ASSUME NEW i \in WrittenOnes, NameOf(data[i]) # cur, OneNumber(NameOf(data[i])) PROVE Stored(i)'
  <2>1. ASSUME NEW j, NEW name, HasFile(j, name), FileName(name) \in Family(NameOf(data[i]))
        PROVE  HasFile(j, name)'
    <3>1. FileName(name) # file.name
      BY <1>1, <1>2, <1>7, <1>8, <2>1, FilesDiffer
    <3> QED BY <1>4, <2>1, <3>1
  <2>2. /\ FileName(NameOf(data[i])) \in Family(NameOf(data[i]))
        /\ FileName(Numbered[NameOf(data[i])][2]) \in Family(NameOf(data[i]))
    BY <1>2, <1>6
  <2>3. CASE HasFile(i, NameOf(data[i]))
    BY <2>1, <2>2, <2>3 DEF Stored
  <2>4. ASSUME HasFile(i, Numbered[NameOf(data[i])][2]),
               NEW j \in WrittenOnes \ {i}, NameOf(data[j]) = NameOf(data[i]), HasFile(j, NameOf(data[j]))
        PROVE  Stored(i)'
    <3>1. HasFile(i, Numbered[NameOf(data[i])][2])' /\ HasFile(j, NameOf(data[j]))'
      BY <2>1, <2>2, <2>4
    <3> QED BY <1>2, <2>4, <3>1 DEF Stored
  <2> QED BY <1>1, <1>8, <2>3, <2>4 DEF Stored
<1>9. ASSUME NEW i \in WrittenOnes, NameOf(data[i]) = cur, OneNumber(cur) PROVE Stored(i)' /\ Stored(id)'
  <2>1. i # id /\ i \in Present(data)
    BY <1>2
  <2>2. ASSUME NEW j \in WrittenOnes \ {i}, NameOf(data[j]) = cur PROVE FALSE
    <3>1. j \in Present(data) /\ j # id /\ j # i
      BY <1>2
    <3> QED BY <1>1, <1>9, <2>1, <2>2, <3>1 DEF NoClash
  <2>3. HasFile(i, cur)
    BY <1>1, <1>9, <2>2 DEF Stored
  <2>4. cur \in DOMAIN counts
    BY <1>1, <1>9 DEF CountsRight
  <2>5. file.name = FileName(Numbered[cur][2])
    <3>1. Chosen(cur, counts) = [name |-> Numbered[cur][2], count |-> 2]
      BY <1>1, <1>9, <2>4, ChosenFile
    <3> QED BY <3>1
  <2>6. HasFile(id, Numbered[cur][2])'
    BY <1>5, <2>5
  <2>7. FileName(Numbered[cur][2]) # FileName(cur)
    BY <1>1, <1>6
  <2>8. HasFile(i, cur)'
    BY <1>4, <2>3, <2>5, <2>7
  <2> QED BY <1>2, <1>9, <2>1, <2>6, <2>8 DEF Stored
<1>10. ASSUME OneNumber(cur), \A i \in WrittenOnes : NameOf(data[i]) # cur PROVE Stored(id)'
  <2>1. cur \notin DOMAIN counts
    BY <1>1, <1>10 DEF CountsRight
  <2>2. file.name = FileName(cur)
    <3>1. Chosen(cur, counts) = [name |-> cur, count |-> 1]
      BY <1>1, <1>10, <2>1, ChosenFile
    <3> QED BY <3>1
  <2> QED BY <1>5, <2>2 DEF Stored
<1> QED BY <1>2, <1>8, <1>9, <1>10

\* Nothing but the files, their order and what others changed: the rest of the invariant says nothing new.
LEMMA ReadFrame ==
    ASSUME ReadInv, Filed', Traced', UNCHANGED <<data, todo, counts, named>>,
           pc' \in {"idle", "failed"} \/ (pc' = pc /\ files' = files)
    PROVE  ReadInv'
<1>1. Named' /\ CountsRight'
  BY DEF ReadInv, Named, CountsRight, WrittenOnes, Present, OneNumber
<1>2. pc' = "done" => todo' = {}
  BY DEF ReadInv
<1>3. AllStored'
  BY DEF ReadInv, AllStored, WrittenOnes, Present, OneNumber, Stored, HasFile, NoClash
<1> QED BY <1>1, <1>2, <1>3 DEF ReadInv

\* StartPull: nothing is written of what was read.
LEMMA ReadStart == ASSUME ReadInv, Filed', StartPull PROVE ReadInv'
<1>1. /\ data' = remote /\ todo' = Present(data') /\ counts' = <<>> /\ files' = files
      /\ named' = [id \in Ids |-> IF remote[id] = NoItem THEN named[id] ELSE named[id] \cup {NameOf(remote[id])}]
      /\ (pc' = "done" => todo' = {})
  BY DEF StartPull, Present
<1>2. Named'
  BY <1>1 DEF ReadInv, Filed, IInv, AllNamed, WellNamed, NameOf, Named
<1>3. Traced'
  <2>1. Filed /\ Traced /\ \A id \in Ids : named[id] \subseteq named'[id]
    BY <1>1 DEF ReadInv
  <2> QED BY <1>1, <2>1, TracedNext
<1>4. WrittenOnes' = {} /\ DOMAIN counts' = {}
  BY <1>1 DEF WrittenOnes
<1>5. CountsRight' /\ AllStored'
  BY <1>4 DEF CountsRight, AllStored
<1> QED BY <1>1, <1>2, <1>3, <1>5 DEF ReadInv

\* What is written is a file of the name pulled; the others stay or are replaced.
LEMMA WriteTraced ==
    ASSUME ReadInv, NEW id \in todo, Countable(NameOf(data[id])), NEW file, Write(id, file), file.id \in {id, NoId},
           file.name = FileName(Chosen(NameOf(data[id]), counts).name), UNCHANGED named
    PROVE  Traced'
<1>1. Filed /\ Traced /\ IInv /\ Named /\ CountsRight /\ id \in Present(data)
  BY DEF ReadInv, Filed, IInv, TypeOK
<1>2. FileOf(file.name, NameOf(data[id])) /\ NameOf(data[id]) \in named[id]
  BY <1>1, ChosenFile DEF Named, Present
<1>3. /\ \A f \in files'[1] : f = file \/ f \in files[1]
      /\ \A d \in Dirs \ {1} : files'[d] = files[d]
      /\ 1 \in Dirs
  BY <1>1, WriteFirst DEF Replace
<1>4. file.id \in Ids => file.id = id
  BY NilAssumption
<1> QED BY <1>1, <1>2, <1>3, <1>4, TracedNext

\* WriteNext.
LEMMA ReadWrite == ASSUME ReadInv, Filed', NEW id \in Ids, WriteNext(id) PROVE ReadInv'
<1> DEFINE chosen == Chosen(NameOf(data[id]), counts)
           file == [name |-> FileName(chosen.name), id |-> id, item |-> data[id]]
<1>1. /\ IInv /\ Filed /\ Named /\ Traced /\ CountsRight /\ AllStored /\ todo \subseteq Present(data)
      /\ pc = "pull" /\ id \in todo /\ UNCHANGED <<data, named>> /\ Countable(NameOf(data[id]))
  BY DEF ReadInv, Filed, IInv, TypeOK, WriteNext
<1>2. CASE UNCHANGED <<files, todo, counts>> /\ pc' = "failed"
  <2>1. Traced'
    BY <1>1, <1>2, TracedNext
  <2> QED BY <1>1, <1>2, <2>1, ReadFrame
<1>3. CASE Write(id, file) /\ counts' = Record(counts, chosen) /\ todo' = todo \ {id}
  <2>1. file.name = FileName(chosen.name) /\ file.id = id /\ file.item = data[id]
    OBVIOUS
  <2> HIDE DEF file
  <2>2. Traced'
    BY <1>1, <1>3, <2>1, WriteTraced
  <2>3. CountsRight'
    BY <1>1, <1>3, CountsNext
  <2>4. AllStored'
    <3>1. NoClash(data) => \A i \in WrittenOnes' : OneNumber(NameOf(data[i])) => Stored(i)'
      BY <1>1, <1>3, <2>1, StoredNext
    <3>2. \A i : OneNumber(NameOf(data[i]))' <=> OneNumber(NameOf(data[i]))
      BY <1>1 DEF OneNumber
    <3> QED BY <1>1, <3>1, <3>2 DEF AllStored
  <2>5. Named'
    BY <1>1 DEF Named
  <2>6. pc' = "done" => todo' = {}
    BY <1>1 DEF WriteNext
  <2> QED BY <2>2, <2>3, <2>4, <2>5, <2>6 DEF ReadInv
<1> QED BY <1>1, <1>2, <1>3, NextWrites

\* DieBetween and DieWriting.
LEMMA ReadDie == ASSUME ReadInv, Filed', Fault PROVE ReadInv'
<1>1. pc' = "failed" /\ UNCHANGED <<data, todo, counts, named>> /\ Filed /\ Traced /\ IInv
  BY DEF Fault, DieBetween, DieWriting, Die, ReadInv, Filed
<1>2. CASE UNCHANGED files
  <2>1. Traced'
    BY <1>1, <1>2, TracedNext
  <2> QED BY <1>1, <2>1, ReadFrame
<1>3. ASSUME NEW id \in Ids, DieWriting(id) PROVE ReadInv'
  <2>1. Traced'
    BY <1>1, <1>3, DieWrites, WriteTraced DEF DieWriting
  <2> QED BY <1>1, <2>1, ReadFrame
<1> QED BY <1>2, <1>3 DEF Fault, DieBetween

\* Others.
LEMMA ReadOthers == ASSUME ReadInv, Filed', Others PROVE ReadInv'
<1>1. UNCHANGED <<data, todo, counts, named>> /\ Filed /\ Traced /\ IInv
  BY DEF Others, Set, Delete, OnServer, Move, ReadInv, Filed
<1>2. CASE UNCHANGED <<files, pc>>
  <2>1. Traced'
    BY <1>1, <1>2, TracedNext
  <2> QED BY <1>1, <1>2, <2>1, ReadFrame
<1>3. ASSUME NEW d \in Dirs, NEW e \in Dirs, NEW f \in files[d], Move(d, e, f) PROVE ReadInv'
  <2>1. \A c \in Dirs : \A g \in files'[c] : g \in files[c] \/ g \in files[d]
    <3>1. \A c \in Dirs : files'[c] = IF c = e THEN Replace(files[e], f)
                                      ELSE IF c = d THEN files[d] \ {f} ELSE files[c]
      BY <1>1, <1>3, MoveFirst
    <3>2. \A g \in Replace(files[e], f) : g \in files[e] \/ g = f
      BY DEF Replace
    <3> QED BY <3>1, <3>2
  <2>2. Traced'
    BY <1>1, <2>1, TracedNext
  <2>3. pc' = "idle"
    BY <1>3 DEF Move
  <2> QED BY <1>1, <2>2, <2>3, ReadFrame
<1> QED BY <1>2, <1>3 DEF Others, Set, Delete, OnServer

\* They keep the invariant.
LEMMA ReadNext == ReadInv /\ Filed' /\ [Next]_vars => ReadInv'
<1> SUFFICES ASSUME ReadInv, Filed', [Next]_vars PROVE ReadInv'
  OBVIOUS
<1>1. CASE UNCHANGED vars
  <2>1. Traced'
    BY <1>1, TracedNext DEF ReadInv, vars
  <2> QED BY <1>1, <2>1, ReadFrame DEF vars
<1> QED BY <1>1, ReadStart, ReadWrite, ReadDie, ReadOthers DEF Next, Step

\* It holds of every behaviour.
THEOREM ReadInvariance == Spec => []ReadInv
<1>1. Init /\ Filed => ReadInv
  <2> SUFFICES ASSUME Init, Filed PROVE ReadInv
    OBVIOUS
  <2>1. /\ data = [id \in Ids |-> NoItem] /\ named = [id \in Ids |-> {}] /\ pc = "idle"
        /\ \A d \in Dirs : files[d] = {}
    BY DEF Init
  <2>2. Present(data) = {}
    BY <2>1 DEF Present
  <2> QED BY <2>1, <2>2 DEF ReadInv, Named, Traced, CountsRight, AllStored
<1> QED BY <1>1, ReadNext, FiledAlways, PTL DEF Spec

\* The file of a resource just written is the last of its files.
LEMMA StoredWins ==
    ASSUME ReadInv, pc = "done", NoClash(data), NEW id \in Present(data),
           OneNumber(NameOf(data[id])),
           \A n \in named[id] : Normal[n] = Normal[NameOf(data[id])] \/ Before(Normal[n], FirstFile(id))
    PROVE  \E f \in files[1] : f.id = id /\ f.item = data[id] /\ Wins(f, files[1])
<1> DEFINE cur == NameOf(data[id])
           own == Normal[cur]
           second == Normal[Numbered[cur][2]]
<1>1. /\ id \in Ids /\ 1 \in Dirs /\ OneFileEach(files[1]) /\ Named /\ Traced /\ Stored(id) /\ cur \in Names
      /\ cur \in named[id] /\ WrittenOnes = Present(data)
  BY BoundsAssumption DEF ReadInv, Filed, WellFiled, AllStored, WrittenOnes, Present, Named, Dirs
<1>2. own \in Strings /\ second \in Strings /\ Before(second, own) /\ own # second
  BY <1>1, TwoCounts, FamilyNames
<1>3. PICK f \in files[1] :
          /\ f.id = id /\ f.item = data[id]
          /\ \/ f.name = own
             \/ f.name = second /\ FirstFile(id) = second /\ \E h \in files[1] : h.id # id /\ h.name = own
  <2>1. CASE HasFile(id, cur)
    BY <2>1 DEF HasFile, FileName
  <2>2. ASSUME HasFile(id, Numbered[cur][2]), NEW j \in WrittenOnes \ {id}, NameOf(data[j]) = cur, HasFile(j, NameOf(data[j]))
        PROVE  \E f \in files[1] : /\ f.id = id /\ f.item = data[id] /\ f.name = second /\ FirstFile(id) = second
                                   /\ \E h \in files[1] : h.id # id /\ h.name = own
    <3>1. FirstFile(id) = second
      BY <1>1, <2>2 DEF FirstFile
    <3> QED BY <2>2, <3>1 DEF HasFile, FileName
  <2> QED BY <1>1, <2>1, <2>2 DEF Stored
<1>4. f.name \in Strings /\ FirstFile(id) \in {own, second}
  BY <1>2, <1>3 DEF FirstFile
<1>5. f.name = FirstFile(id) \/ Before(FirstFile(id), f.name)
  BY <1>2, <1>3, <1>4
<1> HIDE DEF own, second
<1>6. ASSUME NEW g \in files[1], g.id = id, g # f PROVE Before(g.name, f.name)
  <2>1. PICK n \in named[id] : FileOf(g.name, n)
    BY <1>1, <1>6 DEF Traced
  <2>2. n \in Names /\ Normal[n] \in Strings /\ g.name \in Strings /\ g.name # f.name
    BY <1>1, <1>3, <1>6, FamilyNames DEF Named, OneFileEach, IsFile
  <2>3. g.name = Normal[n] \/ \E k \in Counts : g.name = Normal[Numbered[n][k]] /\ (OneNumber(n) => k = 2)
    BY <2>1 DEF FileOf
  <2>4. CASE Normal[n] # own
    <3>1. Before(Normal[n], FirstFile(id))
      BY <2>4 DEF own
    <3>2. g.name = Normal[n] \/ Before(g.name, Normal[n])
      BY <2>2, <2>3, FamilyNames
    <3>3. Before(Normal[n], f.name)
      BY <1>2, <1>4, <1>5, <2>2, <3>1, BeforeOrders
    <3> QED BY <1>4, <2>2, <3>2, <3>3, BeforeOrders
  <2>5. CASE Normal[n] = own
    <3>1. OneNumber(n) /\ Normal[Numbered[n][2]] = second
      <4>1. Family(n) = Family(cur) /\ Normal[Numbered[n][2]] = Normal[Numbered[cur][2]] /\ Normal[n] = Normal[cur]
        BY <1>1, <2>2, <2>5, TwoCounts, SameFamily DEF own
      <4> QED BY <4>1 DEF OneNumber, second
    <3>2. g.name = own \/ g.name = second
      BY <2>3, <2>5, <3>1
    <3>3. CASE f.name = own
      BY <1>2, <2>2, <3>2, <3>3
    <3>4. ASSUME NEW h \in files[1], f.name = second, h.id # id, h.name = own PROVE FALSE
      <4>1. g.name = h.name
        BY <2>2, <3>2, <3>4
      <4> QED BY <1>1, <1>6, <3>4, <4>1 DEF OneFileEach
    <3> QED BY <1>3, <3>3, <3>4
  <2> QED BY <2>4, <2>5
<1> QED BY <1>3, <1>6 DEF Wins

\* readFiles: a pull that succeeds is read back, whatever files it found.
THEOREM PulledReadsBack == Spec => []UnshadowedReadsBack
<1>1. ReadInv => UnshadowedReadsBack
  <2> SUFFICES ASSUME ReadInv, pc = "done", NoClash(data), \A d \in Dirs \ {1} : files[d] = {},
                      MergedFrom(files) # ReadError, NEW id \in Present(data),
                      \A n \in named[id] : Normal[n] = Normal[NameOf(data[id])] \/ Before(Normal[n], FirstFile(id)),
                      OneNumber(NameOf(data[id]))
               PROVE  MergedFrom(files)[id] = data[id]
    BY DEF UnshadowedReadsBack
  <2>1. MergedFrom(files) = ReadDir(files[1])
    BY MergedAlone DEF ReadInv, Filed
  <2>2. \A f \in files[1] : f.id # NoId
    BY <2>1 DEF ReadDir
  <2>3. id \in Ids /\ OneFileEach(files[1])
    BY BoundsAssumption DEF ReadInv, Filed, WellFiled, Present, Dirs
  <2> QED BY <2>1, <2>2, <2>3, StoredWins, ReadsLast
<1> QED BY <1>1, ReadInvariance, PTL
=============================================================================
