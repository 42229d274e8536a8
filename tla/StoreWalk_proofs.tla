--------------------------- MODULE StoreWalk_proofs ---------------------------
(***************************************************************************)
(* Proofs about StoreWalk, for listings that hold a whole directory, and   *)
(* that no nested call overwrites: on the host port always, on Minimal-OS  *)
(* while packages have no directories.  Without that the run               *)
(* walk_target_copy shows a package that is not whole.                     *)
(***************************************************************************)
EXTENDS StoreWalk, TLAPS, FiniteSetTheorems, SequenceTheorems

\* No directory holds more than one listing.
ListingsFit ==
    /\ \A src \in Sources : \A dir \in src.dirs : Cardinality(Kids(src, dir)) <= MaxEntries
    /\ 2 * Cardinality(Packages) <= MaxEntries

\* No directory in a package: nothing to call dlr_dir_each again for.
Flat == \A src \in Sources : src.dirs = {<<>>}

-----------------------------------------------------------------------------
(* Paths.                                                                  *)

Paths == Seq(Names)

\* f lies in the directory path, at whatever depth.
Below(f, path) == Len(path) < Len(f) /\ \A i \in 1..Len(path) : f[i] = path[i]

LEMMA Joined ==
    ASSUME NEW path \in Paths, NEW n \in Names
    PROVE  /\ Append(path, n) \in Paths /\ Append(path, n) # <<>>
           /\ Len(Append(path, n)) = Len(path) + 1 /\ Len(path) \in Nat
           /\ Append(path, n)[Len(path) + 1] = n
           /\ \A i \in 1..Len(path) : Append(path, n)[i] = path[i]
BY DEF Paths

LEMMA JoinedOnce ==
    ASSUME NEW a \in Paths, NEW b \in Paths, NEW m \in Names, NEW n \in Names,
           Append(a, m) = Append(b, n)
    PROVE  a = b /\ m = n
<1> DEFINE c == Append(a, m)  d == Append(b, n)
<1>1. Len(c) = Len(a) + 1 /\ Len(a) \in Nat /\ c[Len(a) + 1] = m /\ \A i \in 1..Len(a) : c[i] = a[i]
    BY Joined
<1>2. Len(d) = Len(b) + 1 /\ Len(b) \in Nat /\ d[Len(b) + 1] = n /\ \A i \in 1..Len(b) : d[i] = b[i]
    BY Joined
<1>3. c = d
    OBVIOUS
<1> HIDE DEF c, d
<1>4. Len(a) = Len(b) /\ m = n /\ \A i \in 1..Len(a) : a[i] = b[i]
    BY <1>1, <1>2, <1>3
<1> QED
    BY <1>4, SeqEqual DEF Paths

LEMMA FrontLast ==
    ASSUME NEW f \in Paths, f # <<>>
    PROVE  /\ Front(f) \in Paths /\ Last(f) \in Names /\ Append(Front(f), Last(f)) = f
<1> DEFINE m == Len(f) - 1  p == SubSeq(f, 1, m)  t == Append(p, f[Len(f)])
<1>1. m \in Nat /\ m \in Int /\ 1 \in Int /\ Len(f) = m + 1 /\ \A i \in 1..m : f[i] \in Names
    BY DEF Paths
<1>2. f[Len(f)] \in Names
    BY <1>1 DEF Paths
<1> HIDE DEF m
<1>3. /\ SubSeq(f, 1, m) \in Seq(Names)
      /\ Len(SubSeq(f, 1, m)) = IF 1 <= m THEN m - 1 + 1 ELSE 0
      /\ \A i \in 1..(m - 1 + 1) : SubSeq(f, 1, m)[i] = f[1 + i - 1]
    BY <1>1, SubSeqProperties
<1>4. p \in Paths /\ Len(p) = m /\ \A i \in 1..m : p[i] = f[i]
  <2>1. m - 1 + 1 = m /\ \A i \in 1..m : 1 + i - 1 = i
      BY <1>1
  <2> QED
      BY <1>1, <1>3, <2>1 DEF Paths
<1> HIDE DEF p
<1>5. t \in Paths /\ Len(t) = m + 1 /\ t[m + 1] = f[Len(f)] /\ \A i \in 1..m : t[i] = f[i]
    BY <1>1, <1>2, <1>4, Joined
<1> HIDE DEF t
<1>6. \A i \in 1..(m + 1) : i = m + 1 \/ i \in 1..m
    BY <1>1
<1>7. t = f
    BY <1>1, <1>5, <1>6, SeqEqual DEF Paths
<1>8. Front(f) = p /\ Last(f) = f[Len(f)]
    BY DEF Front, Last, p, m
<1> QED
    BY <1>2, <1>4, <1>7, <1>8 DEF t

LEMMA FrontJoined ==
    ASSUME NEW path \in Paths, NEW n \in Names
    PROVE  Front(Append(path, n)) = path /\ Last(Append(path, n)) = n
<1> DEFINE f == Append(path, n)
<1>1. f \in Paths /\ f # <<>>
    BY Joined
<1> HIDE DEF f
<1>2. Front(f) \in Paths /\ Last(f) \in Names /\ Append(Front(f), Last(f)) = f
    BY <1>1, FrontLast
<1>3. Front(f) = path /\ Last(f) = n
    BY <1>2, JoinedOnce DEF f
<1> QED
    BY <1>3 DEF f

LEMMA BelowJoined ==
    ASSUME NEW path \in Paths, NEW n \in Names, NEW d \in Paths
    PROVE  Below(Append(path, n), d) <=> d = path \/ Below(path, d)
<1> DEFINE f == Append(path, n)
<1>1. /\ Len(f) = Len(path) + 1 /\ Len(path) \in Nat /\ \A i \in 1..Len(path) : f[i] = path[i]
    BY Joined
<1> HIDE DEF f
<1>2. Len(d) \in Nat
    BY DEF Paths
<1>3. ASSUME Below(f, d)
      PROVE  d = path \/ Below(path, d)
  <2>1. CASE Len(d) = Len(path)
    <3>1. \A i \in 1..Len(d) : d[i] = path[i]
        BY <1>1, <1>3, <2>1 DEF Below
    <3> QED
        BY <2>1, <3>1, SeqEqual DEF Paths
  <2>2. CASE Len(d) < Len(path)
    <3>1. \A i \in 1..Len(d) : i \in 1..Len(path)
        BY <1>1, <1>2, <2>2
    <3> QED
        BY <1>1, <1>3, <2>2, <3>1 DEF Below
  <2> QED
      BY <1>1, <1>2, <1>3, <2>1, <2>2 DEF Below
<1>4. ASSUME d = path
      PROVE  Below(f, d)
    BY <1>1, <1>4 DEF Below
<1>5. ASSUME Below(path, d)
      PROVE  Below(f, d)
  <2>1. \A i \in 1..Len(d) : i \in 1..Len(path)
      BY <1>1, <1>2, <1>5 DEF Below
  <2> QED
      BY <1>1, <1>2, <1>5, <2>1 DEF Below
<1> QED
    BY <1>3, <1>4, <1>5 DEF f

\* The first step from a directory to what lies below it.
LEMMA StepDown ==
    ASSUME NEW f \in Paths, NEW path \in Paths, Below(f, path)
    PROVE  \E n \in Names : f = Append(path, n) \/ Below(f, Append(path, n))
<1> DEFINE n == f[Len(path) + 1]  c == Append(path, n)
<1>1. Len(f) \in Nat /\ Len(path) \in Nat /\ Len(path) + 1 \in 1..Len(f)
    BY DEF Below, Paths
<1>2. n \in Names
    BY <1>1 DEF Paths
<1>3. c \in Paths /\ Len(c) = Len(path) + 1 /\ c[Len(path) + 1] = n /\ \A i \in 1..Len(path) : c[i] = path[i]
    BY <1>2, Joined
<1> HIDE DEF c
<1>4. \A i \in 1..Len(c) : f[i] = c[i]
  <2>1. \A i \in 1..Len(c) : i = Len(path) + 1 \/ i \in 1..Len(path)
      BY <1>1, <1>3
  <2> QED
      BY <1>3, <2>1 DEF Below
<1>5. CASE Len(c) = Len(f)
  <2>1. f = c
      BY <1>3, <1>4, <1>5, SeqEqual DEF Paths
  <2> QED
      BY <1>2, <2>1 DEF c
<1>6. CASE Len(c) < Len(f)
  <2>1. Below(f, c)
      BY <1>4, <1>6 DEF Below
  <2> QED
      BY <1>2, <2>1 DEF c
<1> QED
    BY <1>1, <1>3, <1>5, <1>6

LEMMA BelowTrans ==
    ASSUME NEW f \in Paths, NEW path \in Paths, NEW n \in Names,
           f = Append(path, n) \/ Below(f, Append(path, n))
    PROVE  Below(f, path)
<1> DEFINE c == Append(path, n)
<1>1. Len(c) = Len(path) + 1 /\ Len(path) \in Nat /\ Len(f) \in Nat /\ \A i \in 1..Len(path) : c[i] = path[i]
    BY Joined DEF Paths
<1>2. f = c \/ Below(f, c)
    OBVIOUS
<1> HIDE DEF c
<1>3. \A i \in 1..Len(path) : i \in 1..Len(c)
    BY <1>1
<1> QED
    BY <1>1, <1>2, <1>3 DEF Below

LEMMA BelowPrefix ==
    ASSUME NEW f \in Paths, NEW path \in Paths, Below(f, path)
    PROVE  Len(path) \in 0..(Len(f) - 1) /\ SubSeq(f, 1, Len(path)) = path
<1> DEFINE m == Len(path)
<1>1. m \in Nat /\ m \in Int /\ 1 \in Int /\ Len(f) \in Nat /\ m < Len(f)
    BY DEF Below, Paths
<1>2. \A i \in 1..m : f[i] \in Names
    BY <1>1 DEF Paths
<1> HIDE DEF m
<1>3. /\ SubSeq(f, 1, m) \in Seq(Names)
      /\ Len(SubSeq(f, 1, m)) = IF 1 <= m THEN m - 1 + 1 ELSE 0
      /\ \A i \in 1..(m - 1 + 1) : SubSeq(f, 1, m)[i] = f[1 + i - 1]
    BY <1>1, <1>2, SubSeqProperties
<1>4. m - 1 + 1 = m /\ \A i \in 1..m : 1 + i - 1 = i
    BY <1>1
<1>5. SubSeq(f, 1, m) \in Seq(Names) /\ Len(SubSeq(f, 1, m)) = m /\ \A i \in 1..m : SubSeq(f, 1, m)[i] = f[i]
    BY <1>1, <1>3, <1>4
<1>6. Len(path) = m /\ \A i \in 1..m : f[i] = path[i]
    BY DEF m, Below
<1>7. SubSeq(f, 1, m) = path
    BY <1>5, <1>6, SeqEqual DEF Paths
<1> QED
    BY <1>1, <1>6, <1>7

-----------------------------------------------------------------------------
(* Directory trees.                                                        *)

\* The directory of a package, or none: each path is reached from the top,
\* and a listing holds what is in a directory.
Shaped(t) ==
    /\ t = [dirs |-> t.dirs, files |-> t.files]
    /\ IsFiniteSet(t.dirs) /\ t.dirs \subseteq Paths
    /\ IsFiniteSet(t.files) /\ t.files \subseteq Paths \ {<<>>}
Reached(t) ==
    /\ \A f \in t.dirs \cup t.files : \A path \in Paths : Below(f, path) => path \in t.dirs
    /\ t.dirs # {} => <<>> \in t.dirs
Tree(t) ==
    /\ Shaped(t) /\ Reached(t)
    /\ \A dir \in t.dirs : Cardinality(Kids(t, dir)) <= MaxEntries

\* Kids, told by the paths they have.
Entries == [name : Names, dir : BOOLEAN]
Holds(t, path, e) ==
    \/ e.dir /\ Append(path, e.name) \in t.dirs
    \/ ~e.dir /\ Append(path, e.name) \in t.files

LEMMA KidsHold ==
    ASSUME NEW t, Shaped(t), NEW path \in Paths
    PROVE  Kids(t, path) = {e \in Entries : Holds(t, path, e)}
<1>1. ASSUME NEW e \in Kids(t, path)
      PROVE  e \in Entries /\ Holds(t, path, e)
  <2>1. CASE \E d \in t.dirs : d # <<>> /\ Front(d) = path /\ e = Entry(Last(d), TRUE)
    <3>1. PICK d \in t.dirs : d # <<>> /\ Front(d) = path /\ e = Entry(Last(d), TRUE)
        BY <2>1
    <3>2. d \in Paths /\ Last(d) \in Names /\ Append(path, Last(d)) = d
        BY <3>1, FrontLast DEF Shaped
    <3>3. e.name = Last(d) /\ e.dir = TRUE /\ e \in Entries
        BY <3>1, <3>2 DEF Entry, Entries
    <3> QED
        BY <3>2, <3>3 DEF Holds
  <2>2. CASE \E f \in t.files : Front(f) = path /\ e = Entry(Last(f), FALSE)
    <3>1. PICK f \in t.files : Front(f) = path /\ e = Entry(Last(f), FALSE)
        BY <2>2
    <3>2. f \in Paths /\ Last(f) \in Names /\ Append(path, Last(f)) = f
        BY <3>1, FrontLast DEF Shaped
    <3>3. e.name = Last(f) /\ e.dir = FALSE /\ e \in Entries
        BY <3>1, <3>2 DEF Entry, Entries
    <3> QED
        BY <3>2, <3>3 DEF Holds
  <2> QED
      BY <1>1, <2>1, <2>2 DEF Kids
<1>2. ASSUME NEW e \in Entries, Holds(t, path, e)
      PROVE  e \in Kids(t, path)
  <2> DEFINE f == Append(path, e.name)
  <2>1. e.name \in Names /\ e.dir \in BOOLEAN /\ e = [name |-> e.name, dir |-> e.dir]
      BY DEF Entries
  <2>2. f # <<>> /\ Front(f) = path /\ Last(f) = e.name
      BY <2>1, Joined, FrontJoined
  <2> HIDE DEF f
  <2>3. CASE e.dir
    <3>1. f \in t.dirs
        BY <1>2, <2>3 DEF Holds, f
    <3>2. e = Entry(Last(f), TRUE)
        BY <2>1, <2>2, <2>3 DEF Entry
    <3> QED
        BY <2>2, <3>1, <3>2 DEF Kids
  <2>4. CASE ~e.dir
    <3>1. f \in t.files
        BY <1>2, <2>4 DEF Holds, f
    <3>2. e = Entry(Last(f), FALSE)
        BY <2>1, <2>2, <2>4 DEF Entry
    <3> QED
        BY <2>2, <3>1, <3>2 DEF Kids
  <2> QED
      BY <2>3, <2>4
<1> QED
    BY <1>1, <1>2

\* What lies below a directory is below or is one of its entries.
LEMMA SomeKid ==
    ASSUME NEW t, Shaped(t), Reached(t), NEW path \in Paths,
           NEW f \in t.dirs \cup t.files, Below(f, path)
    PROVE  \E e \in Kids(t, path) :
             IF e.dir THEN f = Append(path, e.name) \/ Below(f, Append(path, e.name))
             ELSE f = Append(path, e.name) /\ f \in t.files
<1>1. f \in Paths
    BY DEF Shaped
<1>2. PICK n \in Names : f = Append(path, n) \/ Below(f, Append(path, n))
    BY <1>1, StepDown
<1> DEFINE c == Append(path, n)
<1>3. c \in Paths
    BY Joined
<1>4. CASE c \in t.dirs
  <2> DEFINE e == [name |-> n, dir |-> TRUE]
  <2>1. e \in Entries /\ e.name = n /\ e.dir = TRUE
      BY DEF Entries
  <2>2. e \in Kids(t, path)
      BY <1>4, <2>1, KidsHold DEF Holds
  <2> QED
      BY <1>2, <2>1, <2>2
<1>5. CASE c \notin t.dirs
  <2>1. f = c
      BY <1>2, <1>3, <1>5 DEF Reached
  <2>2. f \in t.files
      BY <1>5, <2>1
  <2> DEFINE e == [name |-> n, dir |-> FALSE]
  <2>3. e \in Entries /\ e.name = n /\ e.dir = FALSE
      BY DEF Entries
  <2>4. e \in Kids(t, path)
      BY <2>1, <2>2, <2>3, KidsHold DEF Holds
  <2> QED
      BY <2>1, <2>2, <2>3, <2>4
<1> QED
    BY <1>4, <1>5

LEMMA KidsFinite ==
    ASSUME NEW t, Shaped(t), NEW path \in Paths
    PROVE  IsFiniteSet(Kids(t, path))
<1> DEFINE D == {d \in t.dirs : d # <<>> /\ Front(d) = path}
           F == {f \in t.files : Front(f) = path}
           ed == [d \in D |-> Entry(Last(d), TRUE)]
           ef == [f \in F |-> Entry(Last(f), FALSE)]
           DE == {Entry(Last(d), TRUE) : d \in D}
           FE == {Entry(Last(f), FALSE) : f \in F}
<1>1. IsFiniteSet(D) /\ IsFiniteSet(F)
    BY FS_Subset DEF Shaped
<1>2. ed \in Surjection(D, DE)
    BY DEF Surjection
<1>3. ef \in Surjection(F, FE)
    BY DEF Surjection
<1>4. IsFiniteSet(DE) /\ IsFiniteSet(FE)
    BY <1>1, <1>2, <1>3, FS_Surjection
<1>5. IsFiniteSet(DE \cup FE)
    BY <1>4, FS_Union
<1>6. Kids(t, path) = DE \cup FE
    BY DEF Kids
<1> QED
    BY <1>5, <1>6

\* A part of a tree is a tree where its paths are reached.
LEMMA PartOfTree ==
    ASSUME NEW u, Tree(u), NEW t, t = [dirs |-> t.dirs, files |-> t.files],
           t.dirs \subseteq u.dirs, t.files \subseteq u.files, Reached(t)
    PROVE  Tree(t)
<1>1. Shaped(t)
    BY FS_Subset DEF Tree, Shaped
<1>2. ASSUME NEW dir \in t.dirs
      PROVE  Cardinality(Kids(t, dir)) <= MaxEntries
  <2>1. dir \in Paths /\ dir \in u.dirs /\ Shaped(u)
      BY DEF Tree, Shaped
  <2>2. Kids(t, dir) \subseteq Kids(u, dir)
      BY <1>1, <2>1, KidsHold DEF Holds
  <2>3. IsFiniteSet(Kids(u, dir))
      BY <2>1, KidsFinite
  <2>4. Cardinality(Kids(t, dir)) <= Cardinality(Kids(u, dir))
      BY <2>2, <2>3, FS_Subset
  <2>5. IsFiniteSet(Kids(t, dir)) /\ Cardinality(Kids(t, dir)) \in Nat /\ Cardinality(Kids(u, dir)) \in Nat
      BY <2>2, <2>3, FS_Subset, FS_CardinalityType
  <2>6. Cardinality(Kids(u, dir)) <= MaxEntries /\ MaxEntries \in Nat
      BY <2>1, BoundsAssumption DEF Tree
  <2> QED
      BY <2>4, <2>5, <2>6
<1> QED
    BY <1>1, <1>2 DEF Tree

LEMMA SourceTree ==
    ASSUME ListingsFit, NEW src \in Sources
    PROVE  Tree(src) /\ <<>> \in src.dirs
<1>1. Shaped(src) /\ <<>> \in src.dirs
    BY SourcesAssumption DEF Shaped, Paths
<1>2. ASSUME NEW f \in src.dirs \cup src.files, NEW path \in Paths, Below(f, path)
      PROVE  path \in src.dirs
  <2>1. f \in Paths
      BY <1>1 DEF Shaped
  <2>2. Len(path) \in 0..(Len(f) - 1) /\ SubSeq(f, 1, Len(path)) = path
      BY <1>2, <2>1, BelowPrefix
  <2>3. SubSeq(f, 1, Len(path)) \in src.dirs
      BY <2>2, SourcesAssumption
  <2> QED
      BY <2>2, <2>3
<1> QED
    BY <1>1, <1>2 DEF Tree, Reached, ListingsFit

LEMMA EmptyTree == Tree(Empty)
BY FS_EmptySet DEF Tree, Shaped, Reached, Empty

-----------------------------------------------------------------------------
(* Listings, and the calls of dlr_dir_each.                                *)

AnyEntries == [name : Names \cup Packages \cup {<<p, "mpkg">> : p \in Packages}, dir : BOOLEAN]
Frames == [path : Paths, n : Nat, i : Nat, own : Seq(AnyEntries)]
Frame(path, listing) == [path |-> path, n |-> Len(listing), i |-> 1, own |-> listing]

\* The entries from place i on.
Part(own, i, n) == {own[j] : j \in i..n}

\* A listing has each entry once.
Once(s, n) == \A a, b \in 1..n : s[a] = s[b] => a = b

LEMMA ListingWhole ==
    ASSUME NEW kids, kids \subseteq AnyEntries, IsFiniteSet(kids), Cardinality(kids) <= MaxEntries,
           NEW listing \in Listings(kids)
    PROVE  /\ listing \in Seq(AnyEntries) /\ Len(listing) <= MaxEntries
           /\ Part(listing, 1, Len(listing)) = kids /\ Once(listing, Len(listing))
<1> DEFINE n == Cardinality(kids)  D == 1..n
<1>1. n \in Nat /\ MaxEntries \in Nat /\ n <= MaxEntries
    BY FS_CardinalityType, BoundsAssumption
<1>2. (IF n < MaxEntries THEN n ELSE MaxEntries) = n
    BY <1>1
<1>3. PICK s \in SetToSeqs(kids) : listing = SubSeq(s, 1, n)
    BY <1>2 DEF Listings
<1>4. s \in [D -> kids] /\ \A a, b \in D : a # b => s[a] # s[b]
    BY <1>3 DEF SetToSeqs
<1>5. IsFiniteSet(D) /\ Cardinality(D) = n
    BY <1>1, FS_Interval
<1>6. s \in Injection(D, kids)
    BY <1>4 DEF Injection, IsInjective
<1>7. s \in Surjection(D, kids)
    BY <1>5, <1>6, FS_Injection
<1>8. \A e \in kids : \E j \in D : s[j] = e
    BY <1>7 DEF Surjection
<1> HIDE DEF n
<1>9. listing = s
  <2>1. s \in Seq(kids) /\ Len(s) = n
      BY <1>1, <1>4
  <2>2. SubSeq(s, 1, n) = s
      BY <1>1, <2>1
  <2> QED
      BY <1>3, <2>2
<1>10. listing \in Seq(AnyEntries) /\ Len(listing) = n
    BY <1>1, <1>4, <1>9
<1> QED
    BY <1>1, <1>4, <1>8, <1>9, <1>10 DEF Once, Part

\* The calls that are active, each made for an entry of the one around it.
Chain(s) ==
    /\ s \in Seq(Frames) /\ s # <<>>
    /\ \A k \in 1..Len(s) :
        /\ Len(s[k].path) = k - 1
        /\ s[k].n \in 0..MaxEntries /\ s[k].i \in 1..(s[k].n + 1)
        /\ s[k].n = Len(s[k].own) /\ Once(s[k].own, s[k].n)
    /\ \A k \in 1..(Len(s) - 1) :
        /\ s[k].i <= s[k].n /\ s[k].own[s[k].i].dir
        /\ s[k + 1].path = Append(s[k].path, s[k].own[s[k].i].name)
    /\ \A k \in 1..Len(s) : \A a \in 1..(k - 1) : Below(s[k].path, s[a].path)

\* s and t have the same call in place k, at entry i.
Like(s, t, k, i) ==
    t[k].path = s[k].path /\ t[k].n = s[k].n /\ t[k].own = s[k].own /\ t[k].i = i

LEMMA FrameMade ==
    ASSUME NEW path \in Paths, NEW listing \in Seq(AnyEntries)
    PROVE  /\ Frame(path, listing) \in Frames
           /\ Frame(path, listing).path = path /\ Frame(path, listing).n = Len(listing)
           /\ Frame(path, listing).i = 1 /\ Frame(path, listing).own = listing
BY DEF Frame, Frames

LEMMA FirstCall ==
    ASSUME NEW listing \in Seq(AnyEntries), Len(listing) <= MaxEntries, Once(listing, Len(listing)),
           NEW t, t = Append(<<>>, Frame(<<>>, listing))
    PROVE  /\ Chain(t) /\ Len(t) = 1 /\ t[1].path = <<>> /\ t[1].n = Len(listing)
           /\ t[1].i = 1 /\ t[1].own = listing
<1> DEFINE f == Frame(<<>>, listing)
<1>1. <<>> \in Paths
    BY DEF Paths
<1>2. f \in Frames /\ f.path = <<>> /\ f.n = Len(listing) /\ f.i = 1 /\ f.own = listing
    BY <1>1, FrameMade
<1>3. t = Append(<<>>, f)
    OBVIOUS
<1> HIDE DEF f
<1>4. t \in Seq(Frames) /\ Len(t) = 1 /\ t[1] = f /\ t # <<>>
    BY <1>2, <1>3
<1>5. Len(listing) \in Nat /\ MaxEntries \in Nat /\ Len(<<>>) = 0
    BY BoundsAssumption
<1>6. \A k \in 1..Len(t) : k = 1 /\ 1..(k - 1) = {}
    BY <1>4
<1> QED
    BY <1>2, <1>4, <1>5, <1>6 DEF Chain

LEMMA TopOf ==
    ASSUME NEW s, Chain(s)
    PROVE  /\ Last(s) = s[Len(s)] /\ Len(s) \in Nat \ {0} /\ Len(s) \in 1..Len(s)
           /\ \A k \in 1..Len(s) : s[k] \in Frames
           /\ \A k \in 1..Len(s) : \A j \in 1..s[k].n : s[k].own[j] \in AnyEntries
<1>1. \A k \in 1..Len(s) : s[k] \in Frames
    BY DEF Chain
<1>2. \A k \in 1..Len(s) : \A j \in 1..s[k].n : s[k].own[j] \in AnyEntries
    BY <1>1, SMTT(30) DEF Chain, Frames
<1> QED
    BY <1>1, <1>2 DEF Chain, Last

\* The innermost call past its entry.
LEMMA Advanced ==
    ASSUME NEW s, Chain(s), s[Len(s)].i <= s[Len(s)].n,
           NEW t, t = [s EXCEPT ![Len(s)].i = @ + 1]
    PROVE  /\ Chain(t) /\ Len(t) = Len(s)
           /\ \A k \in 1..(Len(s) - 1) : Like(s, t, k, s[k].i)
           /\ Like(s, t, Len(s), s[Len(s)].i + 1)
<1> DEFINE m == Len(s)
<1>1. m \in Nat \ {0} /\ m \in 1..m /\ \A k \in 1..m : s[k] \in Frames
    BY TopOf
<1>2. s \in Seq(Frames)
    BY DEF Chain
<1>3. Len(t) = m /\ DOMAIN t = 1..m
    BY <1>2
<1>4. /\ \A k \in 1..(m - 1) : t[k] = s[k] /\ Like(s, t, k, s[k].i)
      /\ t[m] = [s[m] EXCEPT !.i = @ + 1]
  <2>1. \A k \in 1..(m - 1) : k # m /\ k \in 1..m
      BY <1>1
  <2> QED
      BY <1>1, <1>2, <2>1, SMTT(30) DEF Like
<1>5. /\ t[m] \in Frames /\ t[m].path = s[m].path /\ t[m].n = s[m].n /\ t[m].own = s[m].own
      /\ t[m].i = s[m].i + 1
    BY <1>1, <1>4 DEF Frames
<1> HIDE DEF m
<1>6. \A k \in 1..m : k = m \/ k \in 1..(m - 1)
    BY <1>1
<1>7. t \in Seq(Frames) /\ t # <<>>
  <2>1. \A k \in 1..m : t[k] \in Frames
      BY <1>1, <1>4, <1>5, <1>6
  <2>2. t = [k \in 1..m |-> t[k]]
      BY <1>2, <1>3 DEF m
  <2>3. t \in [1..m -> Frames] /\ m \in Nat
      BY <1>1, <2>1, <2>2
  <2>4. t \in Seq(Frames)
      BY <2>3, SeqDef
  <2> QED
      BY <1>1, <1>3, <2>4
<1>8. \A k \in 1..m :
        /\ Len(t[k].path) = k - 1
        /\ t[k].n \in 0..MaxEntries /\ t[k].i \in 1..(t[k].n + 1)
        /\ t[k].n = Len(t[k].own) /\ Once(t[k].own, t[k].n)
  <2>1. s[m].i \in Nat /\ s[m].n \in Nat /\ s[m].i <= s[m].n
      BY <1>1 DEF Frames, m
  <2>2. \A k \in 1..m :
          /\ Len(s[k].path) = k - 1
          /\ s[k].n \in 0..MaxEntries /\ s[k].i \in 1..(s[k].n + 1)
          /\ s[k].n = Len(s[k].own) /\ Once(s[k].own, s[k].n)
      BY DEF Chain, m
  <2>3. t[m].i \in 1..(t[m].n + 1)
      BY <1>5, <2>1
  <2> QED
      BY <1>1, <1>4, <1>5, <1>6, <2>2, <2>3
<1>9. \A k \in 1..(m - 1) :
        /\ t[k].i <= t[k].n /\ t[k].own[t[k].i].dir
        /\ t[k + 1].path = Append(t[k].path, t[k].own[t[k].i].name)
  <2>1. \A k \in 1..(m - 1) :
          /\ s[k].i <= s[k].n /\ s[k].own[s[k].i].dir
          /\ s[k + 1].path = Append(s[k].path, s[k].own[s[k].i].name)
      BY DEF Chain, m
  <2>2. \A k \in 1..(m - 1) : k + 1 \in 1..m /\ t[k + 1].path = s[k + 1].path
      BY <1>1, <1>4, <1>5, <1>6
  <2> QED
      BY <1>4, <2>1, <2>2
<1>10. \A k \in 1..m : \A a \in 1..(k - 1) : Below(t[k].path, t[a].path)
  <2>1. \A k \in 1..m : \A a \in 1..(k - 1) : a \in 1..m /\ Below(s[k].path, s[a].path)
      BY <1>1 DEF Chain, m
  <2>2. \A k \in 1..m : t[k].path = s[k].path
      BY <1>4, <1>5, <1>6
  <2> QED
      BY <2>1, <2>2
<1>11. Chain(t)
    BY <1>3, <1>7, <1>8, <1>9, <1>10 DEF Chain
<1> QED
    BY <1>3, <1>4, <1>5, <1>11 DEF Like, m

\* A call for the entry that the innermost one is at.
NextCall(s, f) ==
    /\ s[Len(s)].i <= s[Len(s)].n /\ s[Len(s)].own[s[Len(s)].i].dir
    /\ s[Len(s)].own[s[Len(s)].i].name \in Names
    /\ f.path = Append(s[Len(s)].path, s[Len(s)].own[s[Len(s)].i].name)
    /\ f \in Frames /\ f.i = 1 /\ f.n = Len(f.own) /\ f.n <= MaxEntries /\ Once(f.own, f.n)

LEMMA Pushed ==
    ASSUME NEW s, Chain(s), NEW f, NextCall(s, f)
    PROVE  LET t == Append(s, f) IN
           /\ Chain(t) /\ Len(t) = Len(s) + 1 /\ t[Len(s) + 1] = f
           /\ \A k \in 1..Len(s) : t[k] = s[k]
<1> DEFINE m == Len(s)  t == Append(s, f)
<1>1. m \in Nat \ {0} /\ m \in 1..m /\ \A k \in 1..m : s[k] \in Frames
    BY TopOf
<1>2. s \in Seq(Frames)
    BY DEF Chain
<1>3. /\ s[m].i <= s[m].n /\ s[m].own[s[m].i].dir /\ s[m].own[s[m].i].name \in Names
      /\ f.path = Append(s[m].path, s[m].own[s[m].i].name)
    BY DEF NextCall
<1>4. f \in Frames /\ f.i = 1 /\ f.n = Len(f.own) /\ f.n <= MaxEntries /\ Once(f.own, f.n)
    BY DEF NextCall
<1>5. /\ t \in Seq(Frames) /\ Len(t) = m + 1 /\ t[m + 1] = f /\ t # <<>>
      /\ \A k \in 1..m : t[k] = s[k]
    BY <1>1, <1>2, <1>4
<1> HIDE DEF t
<1>6. Len(f.path) = m
  <2>1. Len(s[m].path) = m - 1 /\ s[m].path \in Paths
      BY <1>1 DEF Chain, m, Frames
  <2> QED
      BY <1>1, <1>3, <2>1, Joined
<1>7. \A k \in 1..m :
        /\ Len(s[k].path) = k - 1
        /\ s[k].n \in 0..MaxEntries /\ s[k].i \in 1..(s[k].n + 1)
        /\ s[k].n = Len(s[k].own) /\ Once(s[k].own, s[k].n)
    BY DEF Chain, m
<1>8. \A k \in 1..(m - 1) :
        /\ s[k].i <= s[k].n /\ s[k].own[s[k].i].dir
        /\ s[k + 1].path = Append(s[k].path, s[k].own[s[k].i].name)
    BY DEF Chain, m
<1>9. \A k \in 1..m : \A a \in 1..(k - 1) : Below(s[k].path, s[a].path)
    BY DEF Chain, m
<1> HIDE DEF m
<1>10. \A k \in 1..(m + 1) : k = m + 1 \/ k \in 1..m
    BY <1>1
<1>11. \A k \in 1..(m + 1) :
        /\ Len(t[k].path) = k - 1
        /\ t[k].n \in 0..MaxEntries /\ t[k].i \in 1..(t[k].n + 1)
        /\ t[k].n = Len(t[k].own) /\ Once(t[k].own, t[k].n)
  <2>1. f.n \in 0..MaxEntries /\ 1 \in 1..(f.n + 1) /\ (m + 1) - 1 = m
      BY <1>1, <1>4, BoundsAssumption DEF Frames
  <2>2. ASSUME NEW k \in 1..m
        PROVE  /\ Len(t[k].path) = k - 1
               /\ t[k].n \in 0..MaxEntries /\ t[k].i \in 1..(t[k].n + 1)
               /\ t[k].n = Len(t[k].own) /\ Once(t[k].own, t[k].n)
    <3>1. t[k] = s[k]
        BY <1>5
    <3> QED
        BY <1>7, <3>1
  <2>3. /\ Len(t[m + 1].path) = (m + 1) - 1
        /\ t[m + 1].n \in 0..MaxEntries /\ t[m + 1].i \in 1..(t[m + 1].n + 1)
        /\ t[m + 1].n = Len(t[m + 1].own) /\ Once(t[m + 1].own, t[m + 1].n)
      BY <1>4, <1>5, <1>6, <2>1
  <2> QED
      BY <1>10, <2>2, <2>3
<1>12. \A k \in 1..((m + 1) - 1) :
        /\ t[k].i <= t[k].n /\ t[k].own[t[k].i].dir
        /\ t[k + 1].path = Append(t[k].path, t[k].own[t[k].i].name)
  <2>1. \A k \in 1..((m + 1) - 1) : k = m \/ (k \in 1..(m - 1) /\ k \in 1..m /\ k + 1 \in 1..m)
      BY <1>1
  <2>2. t[m] = s[m] /\ t[m + 1] = f
      BY <1>1, <1>5
  <2>3. ASSUME NEW k \in 1..((m + 1) - 1)
        PROVE  /\ t[k].i <= t[k].n /\ t[k].own[t[k].i].dir
               /\ t[k + 1].path = Append(t[k].path, t[k].own[t[k].i].name)
    <3>1. CASE k = m
        BY <1>3, <2>2, <3>1
    <3>2. CASE k # m
      <4>1. k \in 1..(m - 1) /\ t[k] = s[k] /\ t[k + 1] = s[k + 1]
          BY <1>5, <2>1, <3>2
      <4> QED
          BY <1>8, <4>1
    <3> QED
        BY <3>1, <3>2
  <2> QED
      BY <2>3
<1>15. \A k \in 1..(m + 1) : \A a \in 1..(k - 1) : Below(t[k].path, t[a].path)
  <2>1. ASSUME NEW k \in 1..m, NEW a \in 1..(k - 1)
        PROVE  Below(t[k].path, t[a].path)
    <3>1. a \in 1..m /\ t[k] = s[k] /\ t[a] = s[a]
        BY <1>1, <1>5
    <3> QED
        BY <1>9, <3>1
  <2>2. ASSUME NEW a \in 1..m
        PROVE  Below(t[m + 1].path, t[a].path)
    <3>1. t[a] = s[a] /\ t[m + 1] = f /\ s[a].path \in Paths /\ s[m].path \in Paths
        BY <1>1, <1>5 DEF Frames
    <3>2. a = m \/ a \in 1..(m - 1)
        BY <1>1
    <3>3. s[a].path = s[m].path \/ Below(s[m].path, s[a].path)
        BY <1>1, <1>9, <3>2
    <3>4. Below(f.path, s[a].path)
        BY <1>3, <3>1, <3>3, BelowJoined
    <3> QED
        BY <3>1, <3>4
  <2>3. 1..((m + 1) - 1) = 1..m
      BY <1>1
  <2> QED
      BY <1>10, <2>1, <2>2, <2>3
<1>13. Chain(t)
    BY <1>5, <1>11, <1>12, <1>15 DEF Chain
<1>14. Chain(t) /\ Len(t) = m + 1 /\ t[m + 1] = f /\ \A k \in 1..m : t[k] = s[k]
    BY <1>5, <1>13
<1> QED
    BY <1>14 DEF m, t

\* The innermost call has returned.
LEMMA Popped ==
    ASSUME NEW s, Chain(s), Len(s) > 1,
           NEW t, t = [Front(s) EXCEPT ![Len(s) - 1].i = @ + 1]
    PROVE  /\ Chain(t) /\ Len(t) = Len(s) - 1
           /\ \A k \in 1..(Len(t) - 1) : Like(s, t, k, s[k].i)
           /\ Like(s, t, Len(t), s[Len(t)].i + 1)
<1> DEFINE m == Len(s) - 1  u == SubSeq(s, 1, m)
<1>1. m \in Nat \ {0} /\ Len(s) = m + 1 /\ \A k \in 1..(m + 1) : s[k] \in Frames
    BY TopOf
<1>2. s \in Seq(Frames)
    BY DEF Chain
<1>3. Front(s) = u
    BY DEF Front
<1>4. /\ \A k \in 1..(m + 1) :
            /\ Len(s[k].path) = k - 1
            /\ s[k].n \in 0..MaxEntries /\ s[k].i \in 1..(s[k].n + 1)
            /\ s[k].n = Len(s[k].own) /\ Once(s[k].own, s[k].n)
      /\ \A k \in 1..m :
            /\ s[k].i <= s[k].n /\ s[k].own[s[k].i].dir
            /\ s[k + 1].path = Append(s[k].path, s[k].own[s[k].i].name)
    BY <1>1 DEF Chain
<1>11. \A k \in 1..(m + 1) : \A a \in 1..(k - 1) : Below(s[k].path, s[a].path)
    BY <1>1 DEF Chain
<1>5. t = [u EXCEPT ![m].i = @ + 1]
    BY <1>3
<1> HIDE DEF m
<1>6. u \in Seq(Frames) /\ Len(u) = m /\ \A k \in 1..m : u[k] = s[k]
  <2>1. m \in Int /\ 1 \in Int /\ \A k \in 1..m : s[k] \in Frames
      BY <1>1
  <2>2. /\ SubSeq(s, 1, m) \in Seq(Frames)
        /\ Len(SubSeq(s, 1, m)) = IF 1 <= m THEN m - 1 + 1 ELSE 0
        /\ \A k \in 1..(m - 1 + 1) : SubSeq(s, 1, m)[k] = s[1 + k - 1]
      BY <2>1, SubSeqProperties
  <2>3. m - 1 + 1 = m /\ 1 <= m /\ \A k \in 1..m : 1 + k - 1 = k
      BY <1>1
  <2> QED
      BY <2>2, <2>3
<1> HIDE DEF u
<1>7. Chain(u)
  <2>1. \A k \in 1..m : k \in 1..(m + 1)
      BY <1>1
  <2>2. \A k \in 1..m :
            /\ Len(u[k].path) = k - 1
            /\ u[k].n \in 0..MaxEntries /\ u[k].i \in 1..(u[k].n + 1)
            /\ u[k].n = Len(u[k].own) /\ Once(u[k].own, u[k].n)
      BY <1>4, <1>6, <2>1
  <2>3. \A k \in 1..(m - 1) :
            /\ u[k].i <= u[k].n /\ u[k].own[u[k].i].dir
            /\ u[k + 1].path = Append(u[k].path, u[k].own[u[k].i].name)
    <3>1. \A k \in 1..(m - 1) : k \in 1..m /\ k + 1 \in 1..m
        BY <1>1
    <3> QED
        BY <1>4, <1>6, <3>1
  <2>4. u # <<>>
      BY <1>1, <1>6
  <2>5. ASSUME NEW k \in 1..m, NEW a \in 1..(k - 1)
        PROVE  Below(u[k].path, u[a].path)
    <3>1. k \in 1..(m + 1) /\ a \in 1..m /\ Below(s[k].path, s[a].path)
        BY <1>1, <1>11
    <3> QED
        BY <1>6, <3>1
  <2> QED
      BY <1>6, <2>2, <2>3, <2>4, <2>5 DEF Chain
<1>8. m \in 1..m /\ u[m].i <= u[m].n
    BY <1>1, <1>4, <1>6
<1>9. /\ Chain(t) /\ Len(t) = m
      /\ \A k \in 1..(m - 1) : Like(u, t, k, u[k].i)
      /\ Like(u, t, m, u[m].i + 1)
    BY <1>5, <1>6, <1>7, <1>8, Advanced
<1>10. \A k \in 1..(m - 1) : k \in 1..m
    BY <1>1
<1> QED
    BY <1>6, <1>8, <1>9, <1>10 DEF Like, m

-----------------------------------------------------------------------------
(* What is on disk of a package.                                           *)

OnDisk(t, src, packed) ==
    /\ Tree(t) /\ Tree(src)
    /\ t.dirs \subseteq src.dirs /\ t.files \subseteq Wanted(src)
    /\ \A dir \in t.dirs : Len(dir) <= MaxDepth
    /\ packed # Absent => packed = Wanted(src)

LEMMA WantedFiles == \A src : Wanted(src) \subseteq src.files
BY DEF Wanted

LEMMA TreeFields ==
    ASSUME NEW dirs, NEW files, NEW u, u = [dirs |-> dirs, files |-> files]
    PROVE  u.dirs = dirs /\ u.files = files /\ u = [dirs |-> u.dirs, files |-> u.files]
OBVIOUS

LEMMA NoDirNoFile ==
    ASSUME NEW t, Tree(t), t.dirs = {}
    PROVE  t = Empty
<1>1. ASSUME NEW f \in t.files
      PROVE  FALSE
  <2>1. f \in Paths /\ f # <<>> /\ <<>> \in Paths
      BY DEF Tree, Shaped, Paths
  <2>2. Len(f) > 0 /\ Len(<<>>) = 0
      BY <2>1 DEF Paths
  <2>3. Below(f, <<>>)
      BY <2>2 DEF Below
  <2> QED
      BY <2>1, <2>3 DEF Tree, Reached
<1> QED
    BY <1>1 DEF Tree, Shaped, Empty

LEMMA AddedDir ==
    ASSUME NEW t, NEW src, NEW packed, OnDisk(t, src, packed),
           NEW d \in t.dirs, NEW n \in Names, Append(d, n) \in src.dirs, Len(Append(d, n)) <= MaxDepth,
           NEW u, u = [t EXCEPT !.dirs = @ \cup {Append(d, n)}]
    PROVE  OnDisk(u, src, packed) /\ u.dirs = t.dirs \cup {Append(d, n)} /\ u.files = t.files
<1> DEFINE path == Append(d, n)
<1>1. Shaped(t) /\ Reached(t) /\ Tree(src) /\ d \in Paths /\ path \in Paths
    BY Joined DEF OnDisk, Tree, Shaped
<1>2. u = [dirs |-> t.dirs \cup {path}, files |-> t.files]
    BY <1>1 DEF Shaped
<1>3. u.dirs = t.dirs \cup {path} /\ u.files = t.files /\ u = [dirs |-> u.dirs, files |-> u.files]
    BY <1>2
<1>4. \A q \in Paths : Below(path, q) => q \in t.dirs
    BY <1>1, BelowJoined DEF Reached
<1> HIDE DEF path
<1>5. Reached(u)
    BY <1>1, <1>3, <1>4 DEF Reached
<1>6. u.dirs \subseteq src.dirs /\ u.files \subseteq Wanted(src) /\ u.files \subseteq src.files
    BY <1>3, WantedFiles DEF OnDisk, path
<1>7. Tree(u)
    BY <1>1, <1>3, <1>5, <1>6, PartOfTree
<1> QED
    BY <1>3, <1>6, <1>7 DEF OnDisk, path

LEMMA AddedFile ==
    ASSUME NEW t, NEW src, NEW packed, OnDisk(t, src, packed),
           NEW d \in t.dirs, NEW n \in Names, Append(d, n) \in Wanted(src),
           NEW u, u = [t EXCEPT !.files = @ \cup {Append(d, n)}]
    PROVE  OnDisk(u, src, packed) /\ u.dirs = t.dirs /\ u.files = t.files \cup {Append(d, n)}
<1> DEFINE path == Append(d, n)
<1>1. Shaped(t) /\ Reached(t) /\ Tree(src) /\ d \in Paths /\ path \in Paths
    BY Joined DEF OnDisk, Tree, Shaped
<1>2. u = [dirs |-> t.dirs, files |-> t.files \cup {path}]
    BY <1>1 DEF Shaped
<1>3. u.dirs = t.dirs /\ u.files = t.files \cup {path} /\ u = [dirs |-> u.dirs, files |-> u.files]
    BY <1>2
<1>4. \A q \in Paths : Below(path, q) => q \in t.dirs
    BY <1>1, BelowJoined DEF Reached
<1> HIDE DEF path
<1>5. Reached(u)
    BY <1>1, <1>3, <1>4 DEF Reached
<1>6. u.dirs \subseteq src.dirs /\ u.files \subseteq Wanted(src) /\ u.files \subseteq src.files
    BY <1>3, WantedFiles DEF OnDisk, path
<1>7. Tree(u)
    BY <1>1, <1>3, <1>5, <1>6, PartOfTree
<1> QED
    BY <1>3, <1>6, <1>7 DEF OnDisk, path

LEMMA RemovedFile ==
    ASSUME NEW t, NEW src, NEW packed, OnDisk(t, src, packed),
           NEW f, NEW u, u = [dirs |-> t.dirs, files |-> t.files \ {f}]
    PROVE  OnDisk(u, src, packed) /\ u.dirs = t.dirs /\ u.files = t.files \ {f}
<1>1. Shaped(t) /\ Reached(t) /\ Tree(src)
    BY DEF OnDisk, Tree
<1>3. u.dirs = t.dirs /\ u.files = t.files \ {f} /\ u = [dirs |-> u.dirs, files |-> u.files]
    OBVIOUS
<1>4. Reached(u)
    BY <1>1, <1>3 DEF Reached
<1>5. u.dirs \subseteq src.dirs /\ u.files \subseteq Wanted(src) /\ u.files \subseteq src.files
    BY <1>3, WantedFiles DEF OnDisk
<1>6. Tree(u)
    BY <1>1, <1>3, <1>4, <1>5, PartOfTree
<1> QED
    BY <1>3, <1>5, <1>6 DEF OnDisk

\* dlr_remove_dir of an empty directory; without the one on top nothing is left.
LEMMA RemovedDir ==
    ASSUME NEW t, NEW src, NEW packed, OnDisk(t, src, packed),
           NEW d \in t.dirs, Kids(t, d) = {}, NEW u, u = [t EXCEPT !.dirs = @ \ {d}]
    PROVE  /\ OnDisk(u, src, packed) /\ u.dirs = t.dirs \ {d} /\ u.files = t.files
           /\ d = <<>> => u = Empty
<1>1. Shaped(t) /\ Reached(t) /\ Tree(src) /\ d \in Paths /\ <<>> \in Paths /\ t.dirs \subseteq Paths
      /\ t.files \subseteq Paths \ {<<>>}
    BY DEF OnDisk, Tree, Shaped, Paths
<1>2. u = [dirs |-> t.dirs \ {d}, files |-> t.files]
    BY <1>1 DEF Shaped
<1>3. u.dirs = t.dirs \ {d} /\ u.files = t.files /\ u = [dirs |-> u.dirs, files |-> u.files]
    BY <1>2
<1>4. \A f \in t.dirs \cup t.files : ~Below(f, d)
    BY <1>1, SomeKid
<1>5. d = <<>> => u.dirs = {} /\ u.files = {}
  <2>1. ASSUME NEW f \in Paths, f # <<>>
        PROVE  Below(f, <<>>)
    <3>1. Len(f) > 0 /\ Len(<<>>) = 0
        BY <2>1 DEF Paths
    <3> QED
        BY <3>1 DEF Below
  <2> QED
      BY <1>1, <1>3, <1>4, <2>1
<1>6. Reached(u)
  <2>1. u.dirs # {} => <<>> \in u.dirs
      BY <1>1, <1>3, <1>5 DEF Reached
  <2>2. \A f \in u.dirs \cup u.files : \A path \in Paths : Below(f, path) => path \in u.dirs
      BY <1>1, <1>3, <1>4 DEF Reached
  <2> QED
      BY <2>1, <2>2 DEF Reached
<1>7. u.dirs \subseteq src.dirs /\ u.files \subseteq Wanted(src) /\ u.files \subseteq src.files
    BY <1>3, WantedFiles DEF OnDisk
<1>8. Tree(u)
    BY <1>1, <1>3, <1>6, <1>7, PartOfTree
<1>9. d = <<>> => u = Empty
    BY <1>3, <1>5 DEF Empty
<1> QED
    BY <1>3, <1>7, <1>8, <1>9 DEF OnDisk

LEMMA Begun ==
    ASSUME NEW src, Tree(src), <<>> \in src.dirs,
           NEW u, u = [Empty EXCEPT !.dirs = {<<>>}]
    PROVE  OnDisk(u, src, Absent) /\ u.dirs = {<<>>} /\ u.files = {}
<1> DEFINE top == {<<>>}
<1>1. u = [dirs |-> top, files |-> {}]
    BY DEF Empty
<1> HIDE DEF top
<1>7. u.dirs = top /\ u.files = {} /\ u = [dirs |-> u.dirs, files |-> u.files]
    BY <1>1, TreeFields, Zenon
<1>2. u.dirs = {<<>>} /\ u.files = {} /\ u = [dirs |-> u.dirs, files |-> u.files]
    BY <1>7 DEF top
<1>3. \A path \in Paths : ~Below(<<>>, path)
    BY DEF Below, Paths
<1>4. Reached(u)
    BY <1>2, <1>3 DEF Reached
<1>5. Tree(u)
    BY <1>2, <1>4, PartOfTree
<1>6. Len(<<>>) <= MaxDepth
    BY BoundsAssumption
<1> QED
    BY <1>2, <1>5, <1>6 DEF OnDisk

LEMMA KidsWithout ==
    ASSUME NEW t, NEW u, Shaped(t), Shaped(u), NEW p \in Paths, NEW e \in Entries,
           e.dir => u.dirs = t.dirs \ {Append(p, e.name)} /\ u.files = t.files,
           ~e.dir => u.dirs = t.dirs /\ u.files = t.files \ {Append(p, e.name)}
    PROVE  /\ Kids(u, p) = Kids(t, p) \ {e}
           /\ \A q \in Paths : q # p => Kids(u, q) = Kids(t, q)
<1>1. e.name \in Names /\ e.dir \in BOOLEAN /\ \A f \in Entries : f.name \in Names /\ f.dir \in BOOLEAN
    BY DEF Entries
<1>2. \A q \in Paths, f \in Entries : Append(q, f.name) = Append(p, e.name) <=> q = p /\ f.name = e.name
    BY <1>1, JoinedOnce
<1>3. \A f \in Entries : f.name = e.name /\ f.dir = e.dir <=> f = e
    BY DEF Entries
<1>4. \A q \in Paths, f \in Entries : Holds(u, q, f) <=> Holds(t, q, f) /\ ~(q = p /\ f = e)
  <2> SUFFICES ASSUME NEW q \in Paths, NEW f \in Entries
               PROVE  Holds(u, q, f) <=> Holds(t, q, f) /\ ~(q = p /\ f = e)
      OBVIOUS
  <2>1. Append(q, f.name) = Append(p, e.name) <=> q = p /\ f.name = e.name
      BY <1>2
  <2>2. f.name = e.name /\ f.dir = e.dir <=> f = e
      BY <1>3
  <2>3. e.dir = TRUE \/ e.dir = FALSE
      BY <1>1
  <2>4. f.dir = TRUE \/ f.dir = FALSE
      BY <1>1
  <2> QED
      BY <2>1, <2>2, <2>3, <2>4 DEF Holds
<1>5. \A q \in Paths : /\ Kids(t, q) = {f \in Entries : Holds(t, q, f)}
                       /\ Kids(u, q) = {f \in Entries : Holds(u, q, f)}
    BY KidsHold
<1>6. \A q \in Paths : q # p => Kids(u, q) = Kids(t, q)
    BY <1>4, <1>5
<1>7. Kids(u, p) = Kids(t, p) \ {e}
    BY <1>4, <1>5
<1> QED
    BY <1>6, <1>7

LEMMA KidsWithoutFile ==
    ASSUME NEW t, NEW u, Shaped(t), Shaped(u), NEW p \in Paths, NEW e \in Entries, ~e.dir,
           u.dirs = t.dirs, u.files = t.files \ {Append(p, e.name)}
    PROVE  /\ Kids(u, p) = Kids(t, p) \ {e}
           /\ \A q \in Paths : q # p => Kids(u, q) = Kids(t, q)
BY KidsWithout

LEMMA KidsWithoutDir ==
    ASSUME NEW t, NEW u, Shaped(t), Shaped(u), NEW p \in Paths, NEW e \in Entries, e.dir,
           u.dirs = t.dirs \ {Append(p, e.name)}, u.files = t.files
    PROVE  /\ Kids(u, p) = Kids(t, p) \ {e}
           /\ \A q \in Paths : q # p => Kids(u, q) = Kids(t, q)
BY KidsWithout

-----------------------------------------------------------------------------
(* remove_tree.                                                            *)

\* Each call has still before it what its directory still holds.
Removes(s, t) ==
    /\ Chain(s)
    /\ \A k \in 1..Len(s) :
        /\ s[k].path \in t.dirs
        /\ Part(s[k].own, s[k].i, s[k].n) = Kids(t, s[k].path)

LEMMA KidEntries ==
    ASSUME NEW t, Tree(t), NEW path \in t.dirs
    PROVE  /\ Kids(t, path) \subseteq AnyEntries /\ Kids(t, path) \subseteq Entries
           /\ IsFiniteSet(Kids(t, path)) /\ Cardinality(Kids(t, path)) <= MaxEntries
<1>1. Shaped(t) /\ path \in Paths
    BY DEF Tree, Shaped
<1>2. Entries \subseteq AnyEntries
    BY DEF Entries, AnyEntries
<1> QED
    BY <1>1, <1>2, KidsHold, KidsFinite DEF Tree

LEMMA RemoveEnters ==
    ASSUME NEW t, Tree(t), <<>> \in t.dirs, NEW listing \in Listings(Kids(t, <<>>)),
           NEW s, s = Append(<<>>, Frame(<<>>, listing))
    PROVE  Removes(s, t)
<1>1. /\ listing \in Seq(AnyEntries) /\ Len(listing) <= MaxEntries
      /\ Part(listing, 1, Len(listing)) = Kids(t, <<>>) /\ Once(listing, Len(listing))
    BY KidEntries, ListingWhole
<1>2. /\ Chain(s) /\ Len(s) = 1 /\ s[1].path = <<>> /\ s[1].n = Len(listing)
      /\ s[1].i = 1 /\ s[1].own = listing
    BY <1>1, FirstCall
<1>3. \A k \in 1..Len(s) : k = 1
    BY <1>2
<1> QED
    BY <1>1, <1>2, <1>3 DEF Removes

\* The entry a call is at is there, and where it says.
LEMMA RemoveAtEntry ==
    ASSUME NEW t, Tree(t), NEW s, Removes(s, t), NEW k \in 1..Len(s), s[k].i <= s[k].n
    PROVE  LET e == s[k].own[s[k].i] IN
           /\ s[k].path \in Paths /\ e \in Entries /\ e.name \in Names /\ e.dir \in BOOLEAN
           /\ e \in Kids(t, s[k].path)
           /\ e.dir => Append(s[k].path, e.name) \in t.dirs
           /\ ~e.dir => Append(s[k].path, e.name) \in t.files
<1> DEFINE e == s[k].own[s[k].i]
<1>1. Shaped(t) /\ s[k].path \in Paths /\ s[k].path \in t.dirs
    BY DEF Tree, Shaped, Removes
<1>2. s[k].i \in Nat /\ s[k].n \in Nat
    BY DEF Removes, Chain
<1>3. e \in Kids(t, s[k].path)
  <2>1. Part(s[k].own, s[k].i, s[k].n) = Kids(t, s[k].path)
      BY DEF Removes
  <2>2. e \in Part(s[k].own, s[k].i, s[k].n)
      BY <1>2 DEF Part
  <2> QED
      BY <2>1, <2>2
<1>4. e \in Entries /\ Holds(t, s[k].path, e)
    BY <1>1, <1>3, KidsHold
<1>5. e.name \in Names /\ e.dir \in BOOLEAN
    BY <1>4 DEF Entries
<1> HIDE DEF e
<1>6. /\ s[k].path \in Paths /\ e \in Entries /\ e.name \in Names /\ e.dir \in BOOLEAN
      /\ e \in Kids(t, s[k].path)
      /\ e.dir => Append(s[k].path, e.name) \in t.dirs
      /\ ~e.dir => Append(s[k].path, e.name) \in t.files
    BY <1>1, <1>3, <1>4, <1>5 DEF Holds
<1> QED
    BY <1>6 DEF e

LEMMA OnceLess ==
    ASSUME NEW own, NEW n \in Nat, NEW i \in 1..n, Once(own, n)
    PROVE  Part(own, i + 1, n) = Part(own, i, n) \ {own[i]}
<1>1. \A j \in i..n : j = i \/ j \in (i + 1)..n
    OBVIOUS
<1>2. \A j \in (i + 1)..n : j \in i..n /\ j \in 1..n /\ j # i
    OBVIOUS
<1> QED
    BY <1>1, <1>2 DEF Once, Part

LEMMA RemoveOneFile ==
    ASSUME NEW t, Tree(t), NEW s, Removes(s, t), s[Len(s)].i <= s[Len(s)].n,
           ~s[Len(s)].own[s[Len(s)].i].dir,
           NEW u, Tree(u), u.dirs = t.dirs,
           u.files = t.files \ {Append(s[Len(s)].path, s[Len(s)].own[s[Len(s)].i].name)},
           NEW r, r = [s EXCEPT ![Len(s)].i = @ + 1]
    PROVE  Removes(r, u)
<1> DEFINE m == Len(s)  e == s[m].own[s[m].i]  p == s[m].path
<1>1. Chain(s) /\ m \in Nat \ {0} /\ m \in 1..m
    BY TopOf DEF Removes
<1>2. p \in Paths /\ e \in Entries
    BY <1>1, RemoveAtEntry
<1>3. /\ Chain(r) /\ Len(r) = m
      /\ \A k \in 1..(m - 1) : Like(s, r, k, s[k].i)
      /\ Like(s, r, m, s[m].i + 1)
    BY <1>1, Advanced
<1>4. Kids(u, p) = Kids(t, p) \ {e} /\ \A q \in Paths : q # p => Kids(u, q) = Kids(t, q)
  <2>1. Shaped(t) /\ Shaped(u) /\ ~e.dir
      BY DEF Tree
  <2>2. u.dirs = t.dirs /\ u.files = t.files \ {Append(p, e.name)}
      OBVIOUS
  <2> HIDE DEF e, p
  <2> QED
      BY <1>2, <2>1, <2>2, KidsWithoutFile, SMTT(30)
<1>5. \A k \in 1..m : /\ s[k].path \in t.dirs /\ s[k].path \in Paths /\ Len(s[k].path) = k - 1
                      /\ Part(s[k].own, s[k].i, s[k].n) = Kids(t, s[k].path)
    BY DEF Removes, Chain, Tree, Shaped, m
<1>6. s[m].n \in Nat /\ s[m].i \in 1..s[m].n /\ Once(s[m].own, s[m].n)
    BY <1>1 DEF Chain
<1>7. Part(s[m].own, s[m].i + 1, s[m].n) = Part(s[m].own, s[m].i, s[m].n) \ {e}
    BY <1>6, OnceLess
<1> HIDE DEF m
<1>8. /\ r[m].path \in u.dirs
      /\ Part(r[m].own, r[m].i, r[m].n) = Kids(u, r[m].path)
  <2>1. r[m].path = p /\ r[m].own = s[m].own /\ r[m].i = s[m].i + 1 /\ r[m].n = s[m].n
      BY <1>3 DEF Like
  <2> HIDE DEF e
  <2> QED
      BY <1>1, <1>4, <1>5, <1>7, <2>1
<1>9. ASSUME NEW k \in 1..(m - 1)
      PROVE  /\ r[k].path \in u.dirs
             /\ Part(r[k].own, r[k].i, r[k].n) = Kids(u, r[k].path)
  <2>1. r[k].path = s[k].path /\ r[k].own = s[k].own /\ r[k].i = s[k].i /\ r[k].n = s[k].n
      BY <1>3 DEF Like
  <2>2. k \in 1..m /\ k # m
      BY <1>1
  <2>3. s[k].path # p
      BY <1>1, <1>5, <2>2
  <2> HIDE DEF p
  <2> QED
      BY <1>4, <1>5, <2>1, <2>2, <2>3
<1>10. \A k \in 1..m : k = m \/ k \in 1..(m - 1)
    BY <1>1
<1> QED
    BY <1>3, <1>8, <1>9, <1>10 DEF Removes

LEMMA RemoveGoesDown ==
    ASSUME NEW t, Tree(t), NEW s, Removes(s, t), s[Len(s)].i <= s[Len(s)].n,
           s[Len(s)].own[s[Len(s)].i].dir,
           NEW path, path = Append(s[Len(s)].path, s[Len(s)].own[s[Len(s)].i].name),
           NEW listing \in Listings(Kids(t, path)),
           NEW r, r = Append(s, Frame(path, listing))
    PROVE  Removes(r, t)
<1> DEFINE m == Len(s)  f == Frame(path, listing)
<1>1. Chain(s) /\ m \in Nat \ {0} /\ m \in 1..m
    BY TopOf DEF Removes
<1>2. path \in t.dirs /\ s[m].own[s[m].i].name \in Names
    BY <1>1, RemoveAtEntry
<1>3. /\ listing \in Seq(AnyEntries) /\ Len(listing) <= MaxEntries
      /\ Part(listing, 1, Len(listing)) = Kids(t, path) /\ Once(listing, Len(listing))
    BY <1>2, KidEntries, ListingWhole
<1>4. path \in Paths
    BY <1>2 DEF Tree, Shaped
<1>5. f \in Frames /\ f.path = path /\ f.n = Len(listing) /\ f.i = 1 /\ f.own = listing
    BY <1>3, <1>4, FrameMade
<1>6. f.n = Len(f.own) /\ f.n <= MaxEntries /\ Once(f.own, f.n) /\ r = Append(s, f)
    BY <1>3, <1>5
<1>7. f.path = Append(s[m].path, s[m].own[s[m].i].name)
    BY <1>5
<1> HIDE DEF f
<1>8. Chain(r) /\ Len(r) = m + 1 /\ r[m + 1] = f /\ \A k \in 1..m : r[k] = s[k]
  <2>1. NextCall(s, f)
      BY <1>2, <1>5, <1>6, <1>7 DEF NextCall
  <2> QED
      BY <1>1, <1>6, <2>1, Pushed
<1>9. \A k \in 1..m : s[k].path \in t.dirs /\ Part(s[k].own, s[k].i, s[k].n) = Kids(t, s[k].path)
    BY DEF Removes
<1> HIDE DEF m
<1>10. \A k \in 1..(m + 1) : k = m + 1 \/ k \in 1..m
    BY <1>1
<1>11. r[m + 1].path \in t.dirs /\ Part(r[m + 1].own, r[m + 1].i, r[m + 1].n) = Kids(t, r[m + 1].path)
    BY <1>2, <1>3, <1>5, <1>8
<1> QED
    BY <1>8, <1>9, <1>10, <1>11 DEF Removes

\* A directory whose entries are all gone is empty.
LEMMA RemoveAtEnd ==
    ASSUME NEW t, Tree(t), NEW s, Removes(s, t), s[Len(s)].i > s[Len(s)].n
    PROVE  Kids(t, s[Len(s)].path) = {} /\ s[Len(s)].path \in t.dirs
<1>1. Len(s) \in 1..Len(s)
    BY TopOf DEF Removes
<1>2. s[Len(s)].i \in Nat /\ s[Len(s)].n \in Nat
    BY <1>1 DEF Removes, Chain
<1>3. Part(s[Len(s)].own, s[Len(s)].i, s[Len(s)].n) = {}
    BY <1>2 DEF Part
<1> QED
    BY <1>1, <1>3 DEF Removes

LEMMA RemoveGoesUp ==
    ASSUME NEW t, Tree(t), NEW s, Removes(s, t), Len(s) > 1,
           NEW u, Tree(u), u.dirs = t.dirs \ {s[Len(s)].path}, u.files = t.files,
           NEW r, r = [Front(s) EXCEPT ![Len(s) - 1].i = @ + 1]
    PROVE  Removes(r, u)
<1> DEFINE m == Len(s) - 1  e == s[m].own[s[m].i]  p == s[m].path
<1>1. Chain(s) /\ m \in Nat \ {0} /\ m \in 1..m /\ Len(s) = m + 1 /\ m \in 1..Len(s)
    BY TopOf DEF Removes
<1>2. /\ s[m].i <= s[m].n /\ e.dir /\ s[m + 1].path = Append(p, e.name)
    BY <1>1 DEF Chain
<1>3. p \in Paths /\ e \in Entries
    BY <1>1, <1>2, RemoveAtEntry
<1>4. /\ Chain(r) /\ Len(r) = m
      /\ \A k \in 1..(Len(r) - 1) : Like(s, r, k, s[k].i)
      /\ Like(s, r, Len(r), s[Len(r)].i + 1)
    BY <1>1, Popped
<1>5. /\ \A k \in 1..(m - 1) : Like(s, r, k, s[k].i)
      /\ Like(s, r, m, s[m].i + 1)
    BY <1>4
<1>6. Kids(u, p) = Kids(t, p) \ {e} /\ \A q \in Paths : q # p => Kids(u, q) = Kids(t, q)
  <2>1. Shaped(t) /\ Shaped(u) /\ e.dir
      BY <1>2 DEF Tree
  <2>2. u.dirs = t.dirs \ {Append(p, e.name)} /\ u.files = t.files
      BY <1>1, <1>2
  <2> HIDE DEF e, p
  <2> QED
      BY <1>3, <2>1, <2>2, KidsWithoutDir
<1>7. \A k \in 1..(m + 1) : /\ s[k].path \in t.dirs /\ s[k].path \in Paths /\ Len(s[k].path) = k - 1
                            /\ Part(s[k].own, s[k].i, s[k].n) = Kids(t, s[k].path)
    BY <1>1 DEF Removes, Chain, Tree, Shaped
<1>8. s[m].n \in Nat /\ s[m].i \in 1..s[m].n /\ Once(s[m].own, s[m].n)
  <2>1. /\ s[m].n \in 0..MaxEntries /\ s[m].i \in 1..(s[m].n + 1) /\ Once(s[m].own, s[m].n)
      BY <1>1 DEF Chain
  <2>2. s[m].i <= s[m].n
      BY <1>2
  <2> HIDE DEF m
  <2> QED
      BY <2>1, <2>2
<1>9. Part(s[m].own, s[m].i + 1, s[m].n) = Part(s[m].own, s[m].i, s[m].n) \ {e}
    BY <1>8, OnceLess
<1>10. u.dirs = t.dirs \ {s[m + 1].path}
    BY <1>1
<1> HIDE DEF m
<1>11. \A k \in 1..m : k \in 1..(m + 1) /\ s[k].path \in u.dirs
  <2> TAKE k \in 1..m
  <2>1. k \in 1..(m + 1) /\ m + 1 \in 1..(m + 1) /\ k - 1 # (m + 1) - 1
      BY <1>1
  <2>2. s[k].path # s[m + 1].path
      BY <1>7, <2>1
  <2> QED
      BY <1>7, <1>10, <2>1, <2>2
<1>12. /\ r[m].path \in u.dirs
       /\ Part(r[m].own, r[m].i, r[m].n) = Kids(u, r[m].path)
  <2>1. r[m].path = p /\ r[m].own = s[m].own /\ r[m].i = s[m].i + 1 /\ r[m].n = s[m].n
      BY <1>5 DEF Like
  <2>2. Part(s[m].own, s[m].i, s[m].n) = Kids(t, p)
      BY <1>1, <1>7, <1>11
  <2> HIDE DEF e
  <2> QED
      BY <1>1, <1>6, <1>9, <1>11, <2>1, <2>2
<1>13. ASSUME NEW k \in 1..(m - 1)
       PROVE  /\ r[k].path \in u.dirs
              /\ Part(r[k].own, r[k].i, r[k].n) = Kids(u, r[k].path)
  <2>1. r[k].path = s[k].path /\ r[k].own = s[k].own /\ r[k].i = s[k].i /\ r[k].n = s[k].n
      BY <1>5 DEF Like
  <2>2. k \in 1..m /\ k # m /\ k \in 1..(m + 1) /\ m \in 1..(m + 1) /\ k - 1 # m - 1
      BY <1>1
  <2>3. s[k].path # p
      BY <1>7, <2>2
  <2>4. s[k].path \in Paths /\ Part(s[k].own, s[k].i, s[k].n) = Kids(t, s[k].path)
      BY <1>7, <2>2
  <2> HIDE DEF p
  <2> QED
      BY <1>6, <1>11, <2>1, <2>2, <2>3, <2>4
<1>14. \A k \in 1..m : k = m \/ k \in 1..(m - 1)
    BY <1>1
<1> QED
    BY <1>4, <1>12, <1>13, <1>14 DEF Removes

-----------------------------------------------------------------------------
(* copy_tree.                                                              *)

\* The entry e of a directory is the file f, or f lies below it.
Comes(e, path, f) == IF e.dir THEN Below(f, Append(path, e.name)) ELSE f = Append(path, e.name)
Some(own, i, n, path, f) == \E e \in Part(own, i, n) : Comes(e, path, f)

\* What is still to be copied: in the innermost call the entry it is at and
\* those behind it, in the others those behind the one they wait for.
Inner(s, f) == Some(s[Len(s)].own, s[Len(s)].i, s[Len(s)].n, s[Len(s)].path, f)
Outer(s, f) == \E k \in 1..(Len(s) - 1) : Some(s[k].own, s[k].i + 1, s[k].n, s[k].path, f)
Ahead(s, f) == Inner(s, f) \/ Outer(s, f)

Copies(s, src, t) ==
    /\ Chain(s)
    /\ \A k \in 1..Len(s) :
        /\ s[k].path \in src.dirs /\ s[k].path \in t.dirs
        /\ Part(s[k].own, 1, s[k].n) = Kids(src, s[k].path)
    /\ t.files = {f \in Wanted(src) : ~Ahead(s, f)}

LEMMA SomeKidComes ==
    ASSUME NEW t, Tree(t), NEW path \in Paths, NEW f \in t.files
    PROVE  (\E e \in Kids(t, path) : Comes(e, path, f)) <=> Below(f, path)
<1>1. Shaped(t) /\ Reached(t) /\ f \in Paths
    BY DEF Tree, Shaped
<1>2. ASSUME Below(f, path)
      PROVE  \E e \in Kids(t, path) : Comes(e, path, f)
  <2>1. PICK n \in Names : f = Append(path, n) \/ Below(f, Append(path, n))
      BY <1>1, <1>2, StepDown
  <2> DEFINE c == Append(path, n)
  <2>2. c \in Paths
      BY Joined
  <2>3. CASE f = c
    <3> DEFINE e == [name |-> n, dir |-> FALSE]
    <3>1. e \in Entries /\ e.name = n /\ e.dir = FALSE
        BY DEF Entries
    <3> HIDE DEF e
    <3>2. e \in Kids(t, path)
        BY <1>1, <2>3, <3>1, KidsHold DEF Holds
    <3> QED
        BY <2>3, <3>1, <3>2 DEF Comes
  <2>4. CASE Below(f, c)
    <3> DEFINE e == [name |-> n, dir |-> TRUE]
    <3>1. e \in Entries /\ e.name = n /\ e.dir = TRUE
        BY DEF Entries
    <3>2. c \in t.dirs
        BY <1>1, <2>2, <2>4 DEF Reached
    <3> HIDE DEF e
    <3>3. e \in Kids(t, path)
        BY <1>1, <3>1, <3>2, KidsHold DEF Holds
    <3> QED
        BY <2>4, <3>1, <3>3 DEF Comes
  <2> QED
      BY <2>1, <2>3, <2>4
<1>3. ASSUME NEW e \in Kids(t, path), Comes(e, path, f)
      PROVE  Below(f, path)
  <2>1. e \in Entries /\ e.name \in Names
      BY <1>1, KidsHold DEF Entries
  <2>2. f = Append(path, e.name) \/ Below(f, Append(path, e.name))
      BY <1>3 DEF Comes
  <2> QED
      BY <1>1, <2>1, <2>2, BelowTrans
<1> QED
    BY <1>2, <1>3

LEMMA SomeNext ==
    ASSUME NEW own, NEW n \in Nat, NEW i \in 1..n, NEW path, NEW f
    PROVE  Some(own, i, n, path, f) <=> Comes(own[i], path, f) \/ Some(own, i + 1, n, path, f)
<1>1. \A j \in i..n : j = i \/ j \in (i + 1)..n
    OBVIOUS
<1>2. i \in i..n /\ \A j \in (i + 1)..n : j \in i..n
    OBVIOUS
<1>3. Part(own, i, n) = Part(own, i + 1, n) \cup {own[i]}
    BY <1>1, <1>2 DEF Part
<1> QED
    BY <1>3 DEF Some

LEMMA SomeNone ==
    ASSUME NEW own, NEW n \in Int, NEW i \in Int, i > n, NEW path, NEW f
    PROVE  ~Some(own, i, n, path, f)
BY DEF Some, Part

\* Two directories as deep as each other with the same below them.
LEMMA SamePlace ==
    ASSUME NEW a \in Paths, NEW b \in Paths, NEW f, Len(a) = Len(b), Below(f, a), Below(f, b)
    PROVE  a = b
<1>1. \A i \in 1..Len(a) : a[i] = b[i]
    BY DEF Below
<1> QED
    BY <1>1, SeqEqual DEF Paths

LEMMA CopyStarts ==
    ASSUME NEW src, Tree(src), <<>> \in src.dirs, NEW t, t.dirs = {<<>>}, t.files = {},
           NEW listing \in Listings(Kids(src, <<>>)), NEW s, s = Append(<<>>, Frame(<<>>, listing))
    PROVE  Copies(s, src, t)
<1>1. /\ listing \in Seq(AnyEntries) /\ Len(listing) <= MaxEntries
      /\ Part(listing, 1, Len(listing)) = Kids(src, <<>>) /\ Once(listing, Len(listing))
    BY KidEntries, ListingWhole
<1>2. /\ Chain(s) /\ Len(s) = 1 /\ s[1].path = <<>> /\ s[1].n = Len(listing)
      /\ s[1].i = 1 /\ s[1].own = listing
    BY <1>1, FirstCall
<1>3. \A k \in 1..Len(s) : k = 1
    BY <1>2
<1>4. ASSUME NEW f \in Wanted(src)
      PROVE  Ahead(s, f)
  <2>1. f \in src.files /\ f \in Paths /\ f # <<>> /\ <<>> \in Paths
      BY WantedFiles DEF Tree, Shaped, Paths
  <2>2. Len(f) > 0 /\ Len(<<>>) = 0
      BY <2>1 DEF Paths
  <2>3. Below(f, <<>>)
      BY <2>2 DEF Below
  <2>4. \E e \in Kids(src, <<>>) : Comes(e, <<>>, f)
      BY <2>1, <2>3, SomeKidComes
  <2>5. Some(listing, 1, Len(listing), <<>>, f)
      BY <1>1, <2>4 DEF Some
  <2> QED
      BY <1>2, <2>5 DEF Ahead, Inner
<1>5. t.files = {f \in Wanted(src) : ~Ahead(s, f)}
    BY <1>4
<1>6. \A k \in 1..Len(s) :
        /\ s[k].path \in src.dirs /\ s[k].path \in t.dirs
        /\ Part(s[k].own, 1, s[k].n) = Kids(src, s[k].path)
    BY <1>1, <1>2, <1>3
<1> QED
    BY <1>2, <1>5, <1>6 DEF Copies

LEMMA CopyAtEntry ==
    ASSUME NEW src, Tree(src), NEW t, NEW s, Copies(s, src, t), NEW k \in 1..Len(s), s[k].i <= s[k].n
    PROVE  LET e == s[k].own[s[k].i] IN
           /\ s[k].path \in Paths /\ e \in Entries /\ e.name \in Names /\ e.dir \in BOOLEAN
           /\ s[k].i \in 1..s[k].n /\ s[k].n \in Nat
           /\ e.dir => Append(s[k].path, e.name) \in src.dirs
           /\ ~e.dir => Append(s[k].path, e.name) \in src.files
<1> DEFINE e == s[k].own[s[k].i]
<1>1. Shaped(src) /\ s[k].path \in Paths
    BY DEF Tree, Shaped, Copies
<1>2. s[k].i \in 1..s[k].n /\ s[k].n \in Nat
  <2>1. s[k].n \in 0..MaxEntries /\ s[k].i \in 1..(s[k].n + 1)
      BY DEF Copies, Chain
  <2> QED
      BY <2>1
<1>3. e \in Kids(src, s[k].path)
  <2>1. Part(s[k].own, 1, s[k].n) = Kids(src, s[k].path)
      BY DEF Copies
  <2>2. e \in Part(s[k].own, 1, s[k].n)
      BY <1>2 DEF Part
  <2> QED
      BY <2>1, <2>2
<1>4. e \in Entries /\ Holds(src, s[k].path, e)
    BY <1>1, <1>3, KidsHold
<1>5. e.name \in Names /\ e.dir \in BOOLEAN
    BY <1>4 DEF Entries
<1> HIDE DEF e
<1>6. /\ s[k].path \in Paths /\ e \in Entries /\ e.name \in Names /\ e.dir \in BOOLEAN
      /\ s[k].i \in 1..s[k].n /\ s[k].n \in Nat
      /\ e.dir => Append(s[k].path, e.name) \in src.dirs
      /\ ~e.dir => Append(s[k].path, e.name) \in src.files
    BY <1>1, <1>2, <1>4, <1>5 DEF Holds
<1> QED
    BY <1>6 DEF e

\* Going on changes what is ahead by the entry that is left behind.
LEMMA AheadAdvanced ==
    ASSUME NEW s, Chain(s), s[Len(s)].i <= s[Len(s)].n,
           NEW r, r = [s EXCEPT ![Len(s)].i = @ + 1], NEW f
    PROVE  /\ Ahead(s, f) <=> Comes(s[Len(s)].own[s[Len(s)].i], s[Len(s)].path, f) \/ Ahead(r, f)
           /\ Outer(r, f) <=> Outer(s, f)
<1> DEFINE m == Len(s)
<1>1. m \in Nat \ {0} /\ m \in 1..m
    BY TopOf
<1>2. /\ Len(r) = m
      /\ \A k \in 1..(m - 1) : Like(s, r, k, s[k].i)
      /\ Like(s, r, m, s[m].i + 1)
    BY Advanced
<1>3. s[m].n \in Nat /\ s[m].i \in 1..s[m].n
  <2>1. s[m].n \in 0..MaxEntries /\ s[m].i \in 1..(s[m].n + 1)
      BY <1>1 DEF Chain
  <2>2. s[m].i <= s[m].n
      OBVIOUS
  <2> HIDE DEF m
  <2> QED
      BY <2>1, <2>2
<1>4. Inner(r, f) <=> Some(s[m].own, s[m].i + 1, s[m].n, s[m].path, f)
    BY <1>2 DEF Inner, Like
<1>5. Inner(s, f) <=> Comes(s[m].own[s[m].i], s[m].path, f) \/ Inner(r, f)
    BY <1>3, <1>4, SomeNext DEF Inner
<1>6. Outer(r, f) <=> Outer(s, f)
  <2>1. \A k \in 1..(m - 1) : /\ r[k].own = s[k].own /\ r[k].i = s[k].i /\ r[k].n = s[k].n
                              /\ r[k].path = s[k].path
      BY <1>2 DEF Like
  <2>2. \A k \in 1..(m - 1) : Some(r[k].own, r[k].i + 1, r[k].n, r[k].path, f)
                              <=> Some(s[k].own, s[k].i + 1, s[k].n, s[k].path, f)
      BY <2>1
  <2> QED
      BY <1>2, <2>2 DEF Outer
<1> QED
    BY <1>5, <1>6 DEF Ahead

\* A file that has been copied is not ahead any more.
LEMMA CopiedIsBehind ==
    ASSUME NEW src, Tree(src), NEW t, NEW s, Copies(s, src, t), s[Len(s)].i <= s[Len(s)].n,
           ~s[Len(s)].own[s[Len(s)].i].dir,
           NEW r, r = [s EXCEPT ![Len(s)].i = @ + 1]
    PROVE  ~Ahead(r, Append(s[Len(s)].path, s[Len(s)].own[s[Len(s)].i].name))
<1> DEFINE m == Len(s)  e == s[m].own[s[m].i]  p == s[m].path  path == Append(p, e.name)
<1>1. Chain(s) /\ m \in Nat \ {0} /\ m \in 1..m
    BY TopOf DEF Copies
<1>2. p \in Paths /\ e \in Entries /\ e.name \in Names /\ s[m].i \in 1..s[m].n /\ s[m].n \in Nat
    BY <1>1, CopyAtEntry
<1>3. /\ Len(r) = m
      /\ \A k \in 1..(m - 1) : Like(s, r, k, s[k].i)
      /\ Like(s, r, m, s[m].i + 1)
    BY <1>1, Advanced
<1>4. \A k \in 1..m : /\ Len(s[k].path) = k - 1 /\ Once(s[k].own, s[k].n)
                      /\ \A a \in 1..(k - 1) : Below(s[k].path, s[a].path)
    BY <1>1 DEF Chain
<1>5. \A k \in 1..m : s[k].path \in Paths /\ Part(s[k].own, 1, s[k].n) \subseteq Entries
  <2> TAKE k \in 1..m
  <2>1. s[k].path \in src.dirs /\ Part(s[k].own, 1, s[k].n) = Kids(src, s[k].path)
      BY DEF Copies
  <2> QED
      BY <2>1, KidEntries DEF Tree, Shaped
<1>6. path \in Paths /\ Len(path) = Len(p) + 1 /\ Len(p) \in Nat
    BY <1>2, Joined
<1>7. ~Inner(r, path)
  <2>1. r[m].own = s[m].own /\ r[m].i = s[m].i + 1 /\ r[m].n = s[m].n /\ r[m].path = p
      BY <1>3 DEF Like
  <2>2. Part(s[m].own, s[m].i + 1, s[m].n) = Part(s[m].own, s[m].i, s[m].n) \ {e}
      BY <1>1, <1>2, <1>4, OnceLess
  <2>3. ASSUME NEW a \in Part(s[m].own, s[m].i + 1, s[m].n), Comes(a, p, path)
        PROVE  FALSE
    <3>1. a # e
        BY <2>2, <2>3
    <3>2. a \in Entries
      <4>1. \A j \in (s[m].i + 1)..s[m].n : j \in 1..s[m].n
          BY <1>2
      <4>2. Part(s[m].own, s[m].i + 1, s[m].n) \subseteq Part(s[m].own, 1, s[m].n)
          BY <4>1 DEF Part
      <4> QED
          BY <1>1, <1>5, <4>2
    <3>3. a.name \in Names /\ Append(p, a.name) \in Paths /\ Len(Append(p, a.name)) = Len(p) + 1
        BY <1>2, <3>2, Joined DEF Entries
    <3>4. ~a.dir
        BY <1>6, <2>3, <3>3 DEF Comes, Below
    <3>5. path = Append(p, a.name)
        BY <2>3, <3>4 DEF Comes
    <3>6. a.name = e.name
        BY <1>2, <3>3, <3>5, JoinedOnce
    <3>7. a.dir = e.dir
        BY <1>2, <3>2, <3>4 DEF Entries
    <3> HIDE DEF e
    <3>8. a = e
        BY <1>2, <3>2, <3>6, <3>7 DEF Entries
    <3> QED
        BY <3>1, <3>8
  <2> HIDE DEF path
  <2> QED
      BY <1>3, <2>1, <2>3 DEF Inner, Some
<1>8. ~Outer(r, path)
  <2> SUFFICES ASSUME NEW k \in 1..(m - 1), Some(r[k].own, r[k].i + 1, r[k].n, r[k].path, path)
               PROVE  FALSE
      BY <1>3 DEF Outer
  <2>1. r[k].own = s[k].own /\ r[k].i = s[k].i /\ r[k].n = s[k].n /\ r[k].path = s[k].path
      BY <1>3 DEF Like
  <2>2. k \in 1..m /\ k + 1 \in 1..m /\ k \in Nat /\ k < m
      BY <1>1
  <2> DEFINE b == s[k].own[s[k].i]  c == Append(s[k].path, b.name)
  <2>3. s[k].i <= s[k].n /\ b.dir /\ s[k + 1].path = c
      BY <1>1 DEF Chain
  <2>4. b \in Entries /\ b.name \in Names /\ s[k].i \in 1..s[k].n /\ s[k].n \in Nat /\ s[k].path \in Paths
      BY <2>2, <2>3, CopyAtEntry
  <2>5. Part(s[k].own, s[k].i + 1, s[k].n) = Part(s[k].own, s[k].i, s[k].n) \ {b}
      BY <1>4, <2>2, <2>4, OnceLess
  <2>6. PICK a \in Part(s[k].own, s[k].i + 1, s[k].n) : Comes(a, s[k].path, path)
      BY <2>1 DEF Some
  <2>7. a # b /\ a \in Entries /\ a.name \in Names
    <3>1. \A j \in (s[k].i + 1)..s[k].n : j \in 1..s[k].n
        BY <2>4
    <3>2. Part(s[k].own, s[k].i + 1, s[k].n) \subseteq Part(s[k].own, 1, s[k].n)
        BY <3>1 DEF Part
    <3>3. a \in Entries
        BY <1>5, <2>2, <2>6, <3>2
    <3> QED
        BY <2>5, <2>6, <3>3 DEF Entries
  <2> DEFINE d == Append(s[k].path, a.name)
  <2>8. /\ c \in Paths /\ Len(c) = Len(s[k].path) + 1 /\ d \in Paths /\ Len(d) = Len(s[k].path) + 1
      BY <2>4, <2>7, Joined
  <2>9. c = p \/ Below(p, c)
    <3>1. k + 1 = m \/ k + 1 \in 1..(m - 1)
        BY <1>1, <2>2
    <3>2. k + 1 = m => c = p
        BY <2>3
    <3>3. k + 1 \in 1..(m - 1) => Below(p, c)
        BY <1>1, <1>4, <2>3
    <3> QED
        BY <3>1, <3>2, <3>3
  <2>10. Below(path, c)
    <3> HIDE DEF c, p, e
    <3> QED
        BY <1>2, <2>8, <2>9, BelowJoined
  <2>11. Len(path) = m /\ Len(d) = k
    <3>1. Len(p) = m - 1 /\ Len(s[k].path) = k - 1
        BY <1>1, <1>4, <2>2
    <3> HIDE DEF path, p, m, d
    <3> QED
        BY <1>1, <1>6, <2>2, <2>8, <3>1
  <2> HIDE DEF path
  <2>12. a.dir /\ Below(path, d)
      BY <2>2, <2>6, <2>11 DEF Comes
  <2>13. c = d
      BY <2>8, <2>10, <2>12, SamePlace
  <2>14. a.name = b.name
      BY <2>4, <2>7, <2>13, JoinedOnce
  <2>15. a.dir = b.dir
      BY <2>3, <2>4, <2>7, <2>12 DEF Entries
  <2> HIDE DEF b
  <2>16. a = b
      BY <2>4, <2>7, <2>14, <2>15 DEF Entries
  <2> QED
      BY <2>7, <2>16
<1> QED
    BY <1>7, <1>8 DEF Ahead

LEMMA CopyOneFile ==
    ASSUME NEW src, Tree(src), NEW t, NEW s, Copies(s, src, t), s[Len(s)].i <= s[Len(s)].n,
           ~s[Len(s)].own[s[Len(s)].i].dir,
           NEW path, path = Append(s[Len(s)].path, s[Len(s)].own[s[Len(s)].i].name),
           NEW u, u.dirs = t.dirs, u.files = (t.files \cup {path}) \cap Wanted(src),
           NEW r, r = [s EXCEPT ![Len(s)].i = @ + 1]
    PROVE  Copies(r, src, u)
<1> DEFINE m == Len(s)
<1>1. Chain(s) /\ m \in Nat \ {0} /\ m \in 1..m
    BY TopOf DEF Copies
<1>2. /\ Chain(r) /\ Len(r) = m
      /\ \A k \in 1..(m - 1) : Like(s, r, k, s[k].i)
      /\ Like(s, r, m, s[m].i + 1)
    BY <1>1, Advanced
<1>3. \A f : Ahead(s, f) <=> f = path \/ Ahead(r, f)
  <2> TAKE f
  <2>1. Ahead(s, f) <=> Comes(s[m].own[s[m].i], s[m].path, f) \/ Ahead(r, f)
      BY <1>1, AheadAdvanced
  <2>2. Comes(s[m].own[s[m].i], s[m].path, f) <=> f = path
      BY DEF Comes
  <2> QED
      BY <2>1, <2>2
<1>4. ~Ahead(r, path)
    BY CopiedIsBehind
<1>5. u.files = {f \in Wanted(src) : ~Ahead(r, f)}
  <2>1. t.files = {f \in Wanted(src) : ~Ahead(s, f)}
      BY DEF Copies
  <2> QED
      BY <1>3, <1>4, <2>1
<1>6. \A k \in 1..m :
        /\ s[k].path \in src.dirs /\ s[k].path \in t.dirs
        /\ Part(s[k].own, 1, s[k].n) = Kids(src, s[k].path)
    BY DEF Copies
<1> HIDE DEF m
<1>7. \A k \in 1..m : r[k].path = s[k].path /\ r[k].own = s[k].own /\ r[k].n = s[k].n
  <2>1. \A k \in 1..m : k = m \/ k \in 1..(m - 1)
      BY <1>1
  <2> QED
      BY <1>2, <2>1 DEF Like
<1>8. \A k \in 1..m :
        /\ r[k].path \in src.dirs /\ r[k].path \in u.dirs
        /\ Part(r[k].own, 1, r[k].n) = Kids(src, r[k].path)
    BY <1>6, <1>7
<1> QED
    BY <1>2, <1>5, <1>8 DEF Copies

LEMMA CopyGoesDown ==
    ASSUME NEW src, Tree(src), NEW t, NEW s, Copies(s, src, t), s[Len(s)].i <= s[Len(s)].n,
           s[Len(s)].own[s[Len(s)].i].dir,
           NEW path, path = Append(s[Len(s)].path, s[Len(s)].own[s[Len(s)].i].name),
           NEW u, u.dirs = t.dirs \cup {path}, u.files = t.files,
           NEW listing \in Listings(Kids(src, path)),
           NEW r, r = Append(s, Frame(path, listing))
    PROVE  Copies(r, src, u)
<1> DEFINE m == Len(s)  f == Frame(path, listing)
<1>1. Chain(s) /\ m \in Nat \ {0} /\ m \in 1..m
    BY TopOf DEF Copies
<1>2. /\ path \in src.dirs /\ s[m].own[s[m].i].name \in Names
      /\ s[m].i \in 1..s[m].n /\ s[m].n \in Nat
    BY <1>1, CopyAtEntry
<1>3. /\ listing \in Seq(AnyEntries) /\ Len(listing) <= MaxEntries
      /\ Part(listing, 1, Len(listing)) = Kids(src, path) /\ Once(listing, Len(listing))
    BY <1>2, KidEntries, ListingWhole
<1>4. path \in Paths
    BY <1>2 DEF Tree, Shaped
<1>5. f \in Frames /\ f.path = path /\ f.n = Len(listing) /\ f.i = 1 /\ f.own = listing
    BY <1>3, <1>4, FrameMade
<1>6. f.n = Len(f.own) /\ f.n <= MaxEntries /\ Once(f.own, f.n) /\ r = Append(s, f)
    BY <1>3, <1>5
<1>7. f.path = Append(s[m].path, s[m].own[s[m].i].name)
    BY <1>5
<1> HIDE DEF f
<1>8. Chain(r) /\ Len(r) = m + 1 /\ r[m + 1] = f /\ \A k \in 1..m : r[k] = s[k]
  <2>1. NextCall(s, f)
      BY <1>2, <1>5, <1>6, <1>7 DEF NextCall
  <2> QED
      BY <1>1, <1>6, <2>1, Pushed
<1>9. \A k \in 1..m :
        /\ s[k].path \in src.dirs /\ s[k].path \in t.dirs
        /\ Part(s[k].own, 1, s[k].n) = Kids(src, s[k].path)
    BY DEF Copies
<1>10. ASSUME NEW g \in Wanted(src)
       PROVE  Ahead(s, g) <=> Ahead(r, g)
  <2>1. Inner(s, g) <=> Below(g, path) \/ Some(s[m].own, s[m].i + 1, s[m].n, s[m].path, g)
    <3>1. Comes(s[m].own[s[m].i], s[m].path, g) <=> Below(g, path)
        BY DEF Comes
    <3>2. Inner(s, g) <=> Some(s[m].own, s[m].i, s[m].n, s[m].path, g)
        BY DEF Inner
    <3> QED
        BY <1>2, <3>1, <3>2, SomeNext
  <2>2. Inner(r, g) <=> Below(g, path)
    <3>1. Inner(r, g) <=> Some(listing, 1, Len(listing), path, g)
      <4>1. /\ r[Len(r)].own = listing /\ r[Len(r)].i = 1 /\ r[Len(r)].n = Len(listing)
            /\ r[Len(r)].path = path
          BY <1>5, <1>8
      <4> QED
          BY <4>1 DEF Inner
    <3>2. g \in src.files
        BY WantedFiles
    <3> QED
        BY <1>3, <1>4, <3>1, <3>2, SomeKidComes DEF Some
  <2>3. Outer(r, g) <=> Outer(s, g) \/ Some(s[m].own, s[m].i + 1, s[m].n, s[m].path, g)
    <3> DEFINE In(k) == Some(s[k].own, s[k].i + 1, s[k].n, s[k].path, g)
    <3>1. Outer(s, g) <=> \E k \in 1..(m - 1) : In(k)
        BY DEF Outer
    <3>2. Outer(r, g) <=> \E k \in 1..m : Some(r[k].own, r[k].i + 1, r[k].n, r[k].path, g)
      <4> HIDE DEF m
      <4>0. Len(r) = m + 1 /\ m \in Nat
          BY <1>1, <1>8
      <4>1. 1..(Len(r) - 1) = 1..m
          BY <4>0
      <4> QED
          BY <4>1 DEF Outer
    <3>3. Outer(r, g) <=> \E k \in 1..m : In(k)
      <4>1. \A k \in 1..m : Some(r[k].own, r[k].i + 1, r[k].n, r[k].path, g) <=> In(k)
          BY <1>8
      <4> QED
          BY <3>2, <4>1
    <3> HIDE DEF In, m
    <3>4. (\E k \in 1..m : In(k)) <=> (\E k \in 1..(m - 1) : In(k)) \/ In(m)
      <4>1. \A k \in 1..m : k = m \/ k \in 1..(m - 1)
          BY <1>1
      <4>2. m \in 1..m /\ \A k \in 1..(m - 1) : k \in 1..m
          BY <1>1
      <4> QED
          BY <4>1, <4>2
    <3> QED
        BY <3>1, <3>3, <3>4 DEF In
  <2> QED
      BY <2>1, <2>2, <2>3 DEF Ahead
<1>11. u.files = {g \in Wanted(src) : ~Ahead(r, g)}
  <2>1. t.files = {g \in Wanted(src) : ~Ahead(s, g)}
      BY DEF Copies
  <2> QED
      BY <1>10, <2>1
<1> HIDE DEF m
<1>12. \A k \in 1..(m + 1) : k = m + 1 \/ k \in 1..m
    BY <1>1
<1>13. /\ r[m + 1].path \in src.dirs /\ r[m + 1].path \in u.dirs
       /\ Part(r[m + 1].own, 1, r[m + 1].n) = Kids(src, r[m + 1].path)
    BY <1>2, <1>3, <1>5, <1>8
<1>14. \A k \in 1..m :
        /\ r[k].path \in src.dirs /\ r[k].path \in u.dirs
        /\ Part(r[k].own, 1, r[k].n) = Kids(src, r[k].path)
    BY <1>8, <1>9
<1> QED
    BY <1>8, <1>11, <1>12, <1>13, <1>14 DEF Copies

LEMMA CopyGoesUp ==
    ASSUME NEW src, NEW t, NEW s, Copies(s, src, t), s[Len(s)].i > s[Len(s)].n, Len(s) > 1,
           NEW r, r = [Front(s) EXCEPT ![Len(s) - 1].i = @ + 1]
    PROVE  Copies(r, src, t)
<1> DEFINE m == Len(s) - 1
<1>1. Chain(s) /\ m \in Nat \ {0} /\ m \in 1..m /\ Len(s) = m + 1 /\ m + 1 \in 1..(m + 1)
    BY TopOf DEF Copies
<1>2. /\ Chain(r) /\ Len(r) = m
      /\ \A k \in 1..(m - 1) : Like(s, r, k, s[k].i)
      /\ Like(s, r, m, s[m].i + 1)
  <2>1. /\ Chain(r) /\ Len(r) = Len(s) - 1
        /\ \A k \in 1..(Len(r) - 1) : Like(s, r, k, s[k].i)
        /\ Like(s, r, Len(r), s[Len(r)].i + 1)
      BY <1>1, Popped
  <2> QED
      BY <2>1
<1>3. \A k \in 1..(m + 1) :
        /\ s[k].path \in src.dirs /\ s[k].path \in t.dirs
        /\ Part(s[k].own, 1, s[k].n) = Kids(src, s[k].path)
    BY <1>1 DEF Copies
<1>4. s[m + 1].n \in Int /\ s[m + 1].i \in Int /\ s[m + 1].i > s[m + 1].n
  <2>1. s[m + 1].i > s[m + 1].n
      BY <1>1
  <2>2. s[m + 1].n \in 0..MaxEntries /\ s[m + 1].i \in 1..(s[m + 1].n + 1)
      BY <1>1 DEF Chain
  <2> QED
      BY <2>1, <2>2
<1> HIDE DEF m
<1>5. ASSUME NEW f
      PROVE  Ahead(s, f) <=> Ahead(r, f)
  <2> DEFINE In(k) == Some(s[k].own, s[k].i + 1, s[k].n, s[k].path, f)
  <2>1. ~Inner(s, f)
    <3>1. ~Some(s[m + 1].own, s[m + 1].i, s[m + 1].n, s[m + 1].path, f)
        BY <1>4, SomeNone
    <3> QED
        BY <1>1, <3>1 DEF Inner
  <2>2. Inner(r, f) <=> In(m)
      BY <1>2 DEF Inner, Like
  <2>3. Outer(s, f) <=> \E k \in 1..m : In(k)
    <3>1. 1..(Len(s) - 1) = 1..m
        BY <1>1
    <3> QED
        BY <3>1 DEF Outer
  <2>4. Outer(r, f) <=> \E k \in 1..(m - 1) : In(k)
    <3>1. \A k \in 1..(m - 1) : Some(r[k].own, r[k].i + 1, r[k].n, r[k].path, f) <=> In(k)
      <4> TAKE k \in 1..(m - 1)
      <4>1. r[k].own = s[k].own /\ r[k].i = s[k].i /\ r[k].n = s[k].n /\ r[k].path = s[k].path
          BY <1>2 DEF Like
      <4> QED
          BY <4>1
    <3> QED
        BY <1>2, <3>1 DEF Outer
  <2> HIDE DEF In
  <2>5. (\E k \in 1..m : In(k)) <=> (\E k \in 1..(m - 1) : In(k)) \/ In(m)
    <3>1. \A k \in 1..m : k = m \/ k \in 1..(m - 1)
        BY <1>1
    <3>2. m \in 1..m /\ \A k \in 1..(m - 1) : k \in 1..m
        BY <1>1
    <3> QED
        BY <3>1, <3>2
  <2> QED
      BY <2>1, <2>2, <2>3, <2>4, <2>5 DEF Ahead
<1>6. t.files = {f \in Wanted(src) : ~Ahead(r, f)}
  <2>1. t.files = {f \in Wanted(src) : ~Ahead(s, f)}
      BY DEF Copies
  <2> QED
      BY <1>5, <2>1
<1>7. \A k \in 1..m : k \in 1..(m + 1) /\ r[k].path = s[k].path /\ r[k].own = s[k].own /\ r[k].n = s[k].n
  <2>1. \A k \in 1..m : (k = m \/ k \in 1..(m - 1)) /\ k \in 1..(m + 1)
      BY <1>1
  <2> QED
      BY <1>2, <2>1 DEF Like
<1>8. \A k \in 1..m :
        /\ r[k].path \in src.dirs /\ r[k].path \in t.dirs
        /\ Part(r[k].own, 1, r[k].n) = Kids(src, r[k].path)
    BY <1>3, <1>7
<1> QED
    BY <1>2, <1>6, <1>8 DEF Copies

\* The outermost call is through: all of it is there.
LEMMA CopyIsWhole ==
    ASSUME NEW src, NEW t, NEW s, Copies(s, src, t), s[Len(s)].i > s[Len(s)].n, Len(s) = 1
    PROVE  t.files = Wanted(src) /\ <<>> \in t.dirs
<1>1. Chain(s)
    BY DEF Copies
<1>2. s[1].n \in Int /\ s[1].i \in Int /\ s[1].i > s[1].n
    BY <1>1 DEF Chain
<1>3. \A f : ~Ahead(s, f)
  <2> TAKE f
  <2>1. ~Some(s[1].own, s[1].i, s[1].n, s[1].path, f)
      BY <1>2, SomeNone
  <2>2. 1..(Len(s) - 1) = {}
      OBVIOUS
  <2> QED
      BY <2>1, <2>2 DEF Ahead, Inner, Outer
<1>4. t.files = Wanted(src)
    BY <1>3 DEF Copies
<1>5. s[1].path \in t.dirs /\ s[1].path \in Seq(Names) /\ Len(s[1].path) = 0
  <2>1. s[1] \in Frames
      BY <1>1, TopOf
  <2> QED
      BY <1>1, <2>1 DEF Copies, Chain, Frames, Paths
<1>6. s[1].path = <<>>
    BY <1>5
<1> QED
    BY <1>4, <1>5, <1>6

-----------------------------------------------------------------------------
(* The inductive invariant.                                                *)

Disk ==
    /\ DOMAIN store = Packages /\ DOMAIN archive = Packages /\ DOMAIN from = Packages
    /\ \A p \in Packages : OnDisk(store[p], from[p], archive[p])

Commands ==
    /\ pkg \in Packages /\ ops \in 0..MaxOps
    /\ op \in {"idle", "copy", "pack", "undo", "repack", "remove", "list"}
    /\ result \in Results /\ spoiled \in BOOLEAN
    /\ op # "idle" => result = "none"

\* Of a package that is presented there is no archive until all of it is
\* there, and what remove_tree has still to do is what is still there.
Walks ==
    /\ op \in {"idle", "pack", "repack"} => stack = <<>>
    /\ op = "copy" => Copies(stack, from[pkg], store[pkg])
    /\ op = "pack" => store[pkg].files = Wanted(from[pkg]) /\ <<>> \in store[pkg].dirs
    /\ op = "repack" => HasManifest(store[pkg])
    /\ op \in {"undo", "remove"} => Removes(stack, store[pkg])
    /\ op \in {"copy", "pack", "undo"} => archive[pkg] = Absent
    /\ op = "remove" /\ ~spoiled => archive[pkg] = Absent
    /\ result \in {"failed", "removed"} /\ ~spoiled => store[pkg] = Empty /\ archive[pkg] = Absent

Inv == Disk /\ Commands /\ Walks

\* An entry is read where the call has put it.
Own == AtEntry => Current = Top.own[Top.i]

-----------------------------------------------------------------------------
(* Parts of the steps.                                                     *)

LEMMA Entering ==
    ASSUME NEW path, NEW kids, NEW frames, Enter(path, kids, frames)
    PROVE  \E listing \in Listings(kids) : stack' = Append(frames, Frame(path, listing))
BY DEF Enter, Frame

LEMMA Here ==
    ASSUME Own, Chain(stack)
    PROVE  /\ Top = stack[Len(stack)] /\ (AtEntry => Current = stack[Len(stack)].own[stack[Len(stack)].i])
           /\ AtEntry <=> stack[Len(stack)].i <= stack[Len(stack)].n
           /\ AtEnd <=> stack[Len(stack)].i > stack[Len(stack)].n
           /\ AtEntry => EntryPath = Append(stack[Len(stack)].path, stack[Len(stack)].own[stack[Len(stack)].i].name)
<1>1. Last(stack) = stack[Len(stack)] /\ stack # <<>>
    BY TopOf DEF Chain
<1> QED
    BY <1>1 DEF Own, Top, AtEntry, AtEnd, EntryPath

LEMMA DiskChanged ==
    ASSUME Disk, NEW x,
           DOMAIN store' = Packages /\ DOMAIN archive' = Packages /\ DOMAIN from' = Packages,
           \A q \in Packages : q # x => store'[q] = store[q] /\ archive'[q] = archive[q] /\ from'[q] = from[q],
           OnDisk(store'[x], from'[x], archive'[x])
    PROVE  Disk'
BY DEF Disk

\* A command that ends without a claim about its package.
LEMMA Ended ==
    ASSUME op' = "idle", stack' = <<>>, result' \notin {"failed", "removed", "listed"}
    PROVE  Walks'
BY DEF Walks

LEMMA Counted ==
    ASSUME Commands, NEW command, Begin(command)
    PROVE  /\ ops' \in 0..MaxOps /\ pkg' \in Packages /\ reported' = <<>>
           /\ op = "idle" /\ command \in Operations
<1>1. /\ ops \in 0..MaxOps /\ ops < MaxOps /\ ops' = ops + 1
      /\ pkg' \in Packages /\ reported' = <<>> /\ op = "idle" /\ command \in Operations
    BY DEF Begin, Commands
<1> QED
    BY <1>1, BoundsAssumption

LEMMA RootOfWalk ==
    ASSUME NEW s, Chain(s)
    PROVE  s[1].path = <<>> /\ 1 \in 1..Len(s)
<1>1. Len(s) \in Nat \ {0} /\ s[1] \in Frames /\ 1 \in 1..Len(s)
    BY TopOf
<1>2. Len(s[1].path) = 0 /\ s[1].path \in Seq(Names)
    BY <1>1 DEF Chain, Frames, Paths
<1> QED
    BY <1>1, <1>2

\* dlr_reg_present gives up: what it has made is being removed.
LEMMA GivingUp ==
    ASSUME Disk', NEW t, t = store'[pkg], <<>> \in t.dirs, pkg \in Packages,
           UndoCopy(t), UNCHANGED <<pkg, archive, reported, result, spoiled, ops>>,
           Commands, Walks, op \in {"copy", "pack"}
    PROVE  Commands' /\ Walks'
<1>1. op' = "undo" /\ Enter(<<>>, Kids(t, <<>>), <<>>) /\ result = "none"
    BY DEF UndoCopy, Commands
<1>3. PICK listing \in Listings(Kids(t, <<>>)) : stack' = Append(<<>>, Frame(<<>>, listing))
    BY <1>1, Entering
<1>4. Tree(t)
    BY DEF Disk, OnDisk
<1>5. Removes(stack', t)
    BY <1>3, <1>4, RemoveEnters
<1>6. Commands'
    BY <1>1 DEF Commands
<1>7. Walks'
    BY <1>1, <1>5 DEF Walks
<1> QED
    BY <1>6, <1>7

-----------------------------------------------------------------------------
(* dlr_reg_present and dlr_reg_rebuild keep the invariant.                 *)

LEMMA PresentRefusedKeeps ==
    ASSUME Inv, PresentRefused
    PROVE  Inv'
<1>1. /\ op' = "idle" /\ stack' = <<>> /\ result' = "refused" /\ buffer' = <<>> /\ reported' = <<>>
      /\ pkg' \in Packages /\ spoiled' = FALSE /\ UNCHANGED <<store, archive, from>>
      /\ ops' \in 0..MaxOps
    BY Counted DEF PresentRefused, Finish, Inv
<1>2. Disk'
    BY <1>1 DEF Inv, Disk
<1>3. Commands'
    BY <1>1 DEF Commands, Results
<1>4. Walks'
    BY <1>1, Ended DEF Inv
<1> QED
    BY <1>2, <1>3, <1>4 DEF Inv

LEMMA PresentBeginsKeeps ==
    ASSUME ListingsFit, Inv, PresentBegins
    PROVE  Inv'
<1> DEFINE x == pkg'  made == [store EXCEPT ![x].dirs = {<<>>}]
<1>1. PICK src \in Sources :
        /\ store[x].dirs = {} /\ archive[x] = Absent
        /\ from' = [from EXCEPT ![x] = src]
        /\ \/ /\ store' = made /\ op' = "copy" /\ result' = "none"
              /\ Enter(<<>>, Kids(src, <<>>), <<>>)
           \/ store' = made /\ result' = "none" /\ UndoCopy(made[x])
           \/ store' = store /\ Finish("failed")
    BY DEF PresentBegins
<1>2. /\ reported' = <<>> /\ spoiled' = FALSE
      /\ x \in Packages /\ archive' = archive /\ ops' \in 0..MaxOps
    BY Counted DEF PresentBegins, Inv
<1>3. Tree(src) /\ <<>> \in src.dirs
    BY SourceTree
<1>4. store[x] = Empty
    BY <1>1, <1>2, NoDirNoFile DEF Inv, Disk, OnDisk
<1> DEFINE t == [Empty EXCEPT !.dirs = {<<>>}]
<1>5. /\ made[x] = t /\ from'[x] = src /\ archive'[x] = Absent
      /\ DOMAIN made = Packages /\ DOMAIN archive' = Packages /\ DOMAIN from' = Packages
      /\ \A q \in Packages : q # x => made[q] = store[q] /\ archive'[q] = archive[q] /\ from'[q] = from[q]
    BY <1>1, <1>2, <1>4 DEF Inv, Disk
<1>6. OnDisk(t, src, Absent) /\ t.dirs = {<<>>} /\ t.files = {} /\ <<>> \in t.dirs
    BY <1>3, Begun
<1> HIDE DEF t, x, made
<1>7. CASE store' = store /\ Finish("failed")
  <2>1. op' = "idle" /\ stack' = <<>> /\ result' = "failed"
      BY <1>7 DEF Finish
  <2>2. Disk'
    <3>1. OnDisk(Empty, src, Absent)
      <4>1. Empty.dirs = {} /\ Empty.files = {}
          BY DEF Empty
      <4> QED
          BY <1>3, <4>1, EmptyTree DEF OnDisk
    <3>2. DOMAIN store' = Packages /\ \A q \in Packages : store'[q] = store[q]
        BY <1>7 DEF Inv, Disk
    <3>3. OnDisk(store'[x], from'[x], archive'[x])
        BY <1>2, <1>4, <1>5, <3>1, <3>2
    <3> QED
        BY <1>5, <3>2, <3>3, DiskChanged DEF Inv
  <2>3. Commands'
      BY <1>2, <2>1 DEF Commands, Results, x
  <2>4. store'[x] = Empty /\ archive'[x] = Absent
      BY <1>4, <1>5, <1>7
  <2>5. Walks'
      BY <2>1, <2>4 DEF Walks, x
  <2> QED
      BY <2>2, <2>3, <2>5 DEF Inv
<1>8. CASE store' = made
  <2>1. store'[x] = t
      BY <1>5, <1>8
  <2>2. Disk'
    <3>1. OnDisk(store'[x], from'[x], archive'[x])
        BY <1>5, <1>6, <2>1
    <3> QED
        BY <1>5, <1>8, <3>1, DiskChanged DEF Inv
  <2>3. CASE op' = "copy" /\ result' = "none" /\ Enter(<<>>, Kids(src, <<>>), <<>>)
    <3>1. PICK listing \in Listings(Kids(src, <<>>)) : stack' = Append(<<>>, Frame(<<>>, listing))
        BY <2>3, Entering
    <3>2. Copies(stack', src, t)
        BY <1>3, <1>6, <3>1, CopyStarts
    <3>3. Commands'
        BY <1>2, <2>3 DEF Commands, Results, x
    <3>4. Walks'
        BY <1>5, <2>1, <2>3, <3>2 DEF Walks, x
    <3> QED
        BY <2>2, <3>3, <3>4 DEF Inv
  <2>4. CASE result' = "none" /\ UndoCopy(made[x])
    <3>1. op' = "undo" /\ Enter(<<>>, Kids(t, <<>>), <<>>)
        BY <1>5, <2>4 DEF UndoCopy
    <3>2. PICK listing \in Listings(Kids(t, <<>>)) : stack' = Append(<<>>, Frame(<<>>, listing))
        BY <3>1, Entering
    <3>3. Removes(stack', t)
        BY <1>6, <3>2, RemoveEnters DEF OnDisk
    <3>4. Commands'
        BY <1>2, <2>4, <3>1 DEF Commands, Results, x
    <3>5. Walks'
        BY <1>5, <2>1, <2>4, <3>1, <3>3 DEF Walks, x
    <3> QED
        BY <2>2, <3>4, <3>5 DEF Inv
  <2> QED
      BY <1>1, <1>8, <2>3, <2>4, <1>7
<1> QED
    BY <1>1, <1>7, <1>8

LEMMA CopyFileKeeps ==
    ASSUME Own, Inv, CopyFile
    PROVE  Inv'
<1> DEFINE m == Len(stack)  e == stack[m].own[stack[m].i]  path == Append(stack[m].path, e.name)
           src == from[pkg]  t == store[pkg]
<1>1. /\ op = "copy" /\ AtEntry /\ ~Current.dir /\ pkg \in Packages /\ result = "none"
      /\ UNCHANGED <<archive, from, pkg, reported, result, spoiled, ops>>
    BY DEF CopyFile, Inv, Commands
<1>2. Copies(stack, src, t) /\ archive[pkg] = Absent
    BY <1>1 DEF Inv, Walks
<1>3. Chain(stack)
    BY <1>2 DEF Copies
<1>4. Current = e /\ stack[m].i <= stack[m].n /\ EntryPath = path /\ ~e.dir
    BY <1>1, <1>3, Here
<1>5. OnDisk(t, src, Absent) /\ Tree(src)
    BY <1>1, <1>2 DEF Inv, Disk, OnDisk
<1>6. m \in Nat \ {0} /\ m \in 1..m
    BY <1>3, TopOf
<1>7. /\ stack[m].path \in Paths /\ e \in Entries /\ e.name \in Names
      /\ path \in src.files
    BY <1>2, <1>4, <1>5, <1>6, CopyAtEntry
<1>8. stack[m].path \in t.dirs /\ <<>> \in t.dirs /\ Len(stack[m].path) = m - 1
    BY <1>2, <1>3, <1>6, RootOfWalk DEF Copies, Chain
<1>9. path \in Wanted(src) <=> ~(m = 1 /\ e.name \in ArchiveNames)
  <2>1. ASSUME m = 1
        PROVE  path = <<e.name>>
    <3>1. stack[m].path = <<>>
        BY <1>3, <2>1, RootOfWalk
    <3> QED
        BY <3>1
  <2>2. ASSUME NEW a \in ArchiveNames, path = <<a>>
        PROVE  m = 1 /\ e.name = a
    <3>1. Len(path) = Len(stack[m].path) + 1 /\ path[Len(stack[m].path) + 1] = e.name
        BY <1>7, Joined
    <3> HIDE DEF path, e
    <3>2. Len(path) = 1 /\ path[1] = a
        BY <2>2
    <3>3. m - 1 + 1 = 1
        BY <1>6, <1>8, <3>1, <3>2
    <3> HIDE DEF m
    <3> QED
        BY <1>6, <1>8, <3>1, <3>2, <3>3
  <2> HIDE DEF path, e, m, src
  <2> QED
      BY <1>7, <2>1, <2>2 DEF Wanted
<1> DEFINE created == [store EXCEPT ![pkg].files = @ \cup {path}]  u == [t EXCEPT !.files = @ \cup {path}]
<1>10. /\ created[pkg] = u /\ DOMAIN created = Packages
       /\ \A q \in Packages : q # pkg => created[q] = store[q]
    BY <1>1 DEF Inv, Disk
<1>11. ASSUME path \in Wanted(src)
       PROVE  OnDisk(u, src, Absent) /\ u.dirs = t.dirs /\ u.files = t.files \cup {path}
    BY <1>5, <1>7, <1>8, <1>11, AddedFile
<1>12. \/ /\ m = 1 /\ e.name \in ArchiveNames
          /\ NextEntry /\ UNCHANGED <<store, op, buffer>>
       \/ /\ ~(m = 1 /\ e.name \in ArchiveNames)
          /\ store' = created /\ NextEntry /\ UNCHANGED <<op, buffer>>
       \/ /\ ~(m = 1 /\ e.name \in ArchiveNames)
          /\ store' \in {store, created} /\ UndoCopy(store'[pkg])
    BY <1>4 DEF CopyFile
<1> HIDE DEF created, u, t, src, path, e, m
<1>13. ASSUME store' = store \/ (store' = created /\ path \in Wanted(src))
       PROVE  Disk'
  <2>1. CASE store' = store
      BY <1>1, <2>1 DEF Inv, Disk
  <2>2. CASE store' = created /\ path \in Wanted(src)
    <3>1. OnDisk(store'[pkg], from'[pkg], archive'[pkg])
        BY <1>1, <1>2, <1>10, <1>11, <2>2 DEF src
    <3> QED
        BY <1>1, <1>10, <2>2, <3>1, DiskChanged DEF Inv, Disk
  <2> QED
      BY <1>13, <2>1, <2>2
<1>14. ASSUME NextEntry, UNCHANGED <<op, buffer>>, Disk',
              NEW v, v = store'[pkg], v.dirs = t.dirs, v.files = (t.files \cup {path}) \cap Wanted(src)
       PROVE  Inv'
  <2>1. stack' = [stack EXCEPT ![m].i = @ + 1]
      BY <1>14 DEF NextEntry, m
  <2>2. Copies(stack', src, v)
      BY <1>2, <1>4, <1>5, <1>14, <2>1, CopyOneFile DEF m, e, path
  <2>3. Commands'
      BY <1>1, <1>14 DEF Inv, Commands
  <2>4. Walks'
      BY <1>1, <1>2, <1>14, <2>2 DEF Walks, src
  <2> QED
      BY <1>14, <2>3, <2>4 DEF Inv
<1>15. t.files \subseteq Wanted(src)
    BY <1>5 DEF OnDisk
<1>16. CASE m = 1 /\ e.name \in ArchiveNames /\ NextEntry /\ UNCHANGED <<store, op, buffer>>
  <2>1. t.files = (t.files \cup {path}) \cap Wanted(src)
      BY <1>9, <1>15, <1>16
  <2>2. t = store'[pkg] /\ Disk'
      BY <1>13, <1>16 DEF t
  <2> QED
      BY <1>14, <1>16, <2>1, <2>2
<1>17. CASE ~(m = 1 /\ e.name \in ArchiveNames) /\ store' = created /\ NextEntry /\ UNCHANGED <<op, buffer>>
  <2>1. u.dirs = t.dirs /\ u.files = (t.files \cup {path}) \cap Wanted(src)
      BY <1>9, <1>11, <1>15, <1>17
  <2>2. u = store'[pkg] /\ Disk'
      BY <1>9, <1>10, <1>13, <1>17
  <2> QED
      BY <1>14, <1>17, <2>1, <2>2
<1>18. CASE ~(m = 1 /\ e.name \in ArchiveNames) /\ store' \in {store, created} /\ UndoCopy(store'[pkg])
  <2>1. Disk' /\ <<>> \in store'[pkg].dirs
      BY <1>8, <1>9, <1>10, <1>11, <1>13, <1>18 DEF t
  <2>2. Commands' /\ Walks'
      BY <1>1, <1>18, <2>1, GivingUp DEF Inv
  <2> QED
      BY <2>1, <2>2 DEF Inv
<1> QED
    BY <1>12, <1>16, <1>17, <1>18

LEMMA CopyDirKeeps ==
    ASSUME Own, Inv, CopyDir
    PROVE  Inv'
<1> DEFINE m == Len(stack)  e == stack[m].own[stack[m].i]  path == Append(stack[m].path, e.name)
           src == from[pkg]  t == store[pkg]
<1>1. /\ op = "copy" /\ AtEntry /\ Current.dir /\ pkg \in Packages /\ result = "none"
      /\ UNCHANGED <<archive, from, pkg, reported, result, spoiled, ops>>
    BY DEF CopyDir, Inv, Commands
<1>2. Copies(stack, src, t) /\ archive[pkg] = Absent
    BY <1>1 DEF Inv, Walks
<1>3. Chain(stack)
    BY <1>2 DEF Copies
<1>4. Current = e /\ stack[m].i <= stack[m].n /\ EntryPath = path /\ e.dir
    BY <1>1, <1>3, Here
<1>5. OnDisk(t, src, Absent) /\ Tree(src)
    BY <1>1, <1>2 DEF Inv, Disk, OnDisk
<1>6. m \in Nat \ {0} /\ m \in 1..m
    BY <1>3, TopOf
<1>7. /\ stack[m].path \in Paths /\ e \in Entries /\ e.name \in Names
      /\ path \in src.dirs
    BY <1>2, <1>4, <1>5, <1>6, CopyAtEntry
<1>8. stack[m].path \in t.dirs /\ <<>> \in t.dirs /\ Len(stack[m].path) = m - 1
    BY <1>2, <1>3, <1>6, RootOfWalk DEF Copies, Chain
<1>9. Len(path) = m
  <2>1. Len(path) = Len(stack[m].path) + 1
      BY <1>7, Joined
  <2> HIDE DEF path, m
  <2> QED
      BY <1>6, <1>8, <2>1
<1> DEFINE made == [store EXCEPT ![pkg].dirs = @ \cup {path}]  u == [t EXCEPT !.dirs = @ \cup {path}]
<1>10. /\ made[pkg] = u /\ DOMAIN made = Packages
       /\ \A q \in Packages : q # pkg => made[q] = store[q]
    BY <1>1 DEF Inv, Disk
<1>11. \/ /\ m <= MaxDepth /\ store' = made /\ UNCHANGED op
          /\ Enter(path, Kids(src, path), stack)
       \/ /\ m <= MaxDepth /\ store' = made /\ UndoCopy(made[pkg])
       \/ /\ store' = store /\ UndoCopy(store[pkg])
    BY <1>4, <1>7 DEF CopyDir
<1>12. ASSUME m <= MaxDepth
       PROVE  OnDisk(u, src, Absent) /\ u.dirs = t.dirs \cup {path} /\ u.files = t.files
    BY <1>5, <1>7, <1>8, <1>9, <1>12, AddedDir
<1> HIDE DEF made, u, t, src, path, e, m
<1>13. CASE m <= MaxDepth /\ store' = made /\ UNCHANGED op /\ Enter(path, Kids(src, path), stack)
  <2>1. Disk'
    <3>1. OnDisk(store'[pkg], from'[pkg], archive'[pkg])
        BY <1>1, <1>2, <1>10, <1>12, <1>13 DEF src
    <3> QED
        BY <1>1, <1>10, <1>13, <3>1, DiskChanged DEF Inv, Disk
  <2>3. PICK listing \in Listings(Kids(src, path)) : stack' = Append(stack, Frame(path, listing))
      BY <1>13, Entering
  <2>4. Copies(stack', src, u)
      BY <1>2, <1>4, <1>5, <1>12, <1>13, <2>3, CopyGoesDown DEF m, e, path
  <2>5. Commands'
      BY <1>1, <1>13 DEF Inv, Commands
  <2>6. Walks'
      BY <1>1, <1>2, <1>10, <1>13, <2>4 DEF Walks, src
  <2> QED
      BY <2>1, <2>5, <2>6 DEF Inv
<1>14. CASE store' = store /\ UndoCopy(store[pkg])
  <2>1. Disk' /\ <<>> \in store'[pkg].dirs
      BY <1>1, <1>8, <1>14 DEF Inv, Disk, t
  <2>2. Commands' /\ Walks'
      BY <1>1, <1>14, <2>1, GivingUp DEF Inv
  <2> QED
      BY <2>1, <2>2 DEF Inv
<1>15. CASE m <= MaxDepth /\ store' = made /\ UndoCopy(made[pkg])
  <2>1. Disk'
    <3>1. OnDisk(store'[pkg], from'[pkg], archive'[pkg])
        BY <1>1, <1>2, <1>10, <1>12, <1>15 DEF src
    <3> QED
        BY <1>1, <1>10, <1>15, <3>1, DiskChanged DEF Inv, Disk
  <2>2. <<>> \in store'[pkg].dirs /\ made[pkg] = store'[pkg]
      BY <1>8, <1>10, <1>12, <1>15
  <2>3. Commands' /\ Walks'
      BY <1>1, <1>15, <2>1, <2>2, GivingUp DEF Inv
  <2> QED
      BY <2>1, <2>3 DEF Inv
<1> QED
    BY <1>11, <1>13, <1>14, <1>15

LEMMA CopyReturnsKeeps ==
    ASSUME Own, Inv, CopyReturns
    PROVE  Inv'
<1>1. /\ op = "copy" /\ AtEnd /\ pkg \in Packages /\ result = "none"
      /\ UNCHANGED <<store, archive, from, pkg, buffer, reported, result, spoiled, ops>>
    BY DEF CopyReturns, Inv, Commands
<1>2. Copies(stack, from[pkg], store[pkg]) /\ archive[pkg] = Absent
    BY <1>1 DEF Inv, Walks
<1>3. Chain(stack)
    BY <1>2 DEF Copies
<1>4. stack[Len(stack)].i > stack[Len(stack)].n
    BY <1>1, <1>3, Here
<1>5. Disk'
    BY <1>1 DEF Inv, Disk
<1>6. CASE Len(stack) = 1 /\ op' = "pack" /\ stack' = <<>>
  <2>1. store[pkg].files = Wanted(from[pkg]) /\ <<>> \in store[pkg].dirs
      BY <1>2, <1>4, <1>6, CopyIsWhole
  <2>2. Commands'
      BY <1>1, <1>6 DEF Inv, Commands
  <2>3. Walks'
      BY <1>1, <1>2, <1>6, <2>1 DEF Walks
  <2> QED
      BY <1>5, <2>2, <2>3 DEF Inv
<1>7. CASE Len(stack) # 1 /\ Return /\ UNCHANGED op
  <2>1. Len(stack) > 1
    <3> DEFINE m == Len(stack)
    <3>1. m \in Nat \ {0} /\ m # 1
        BY <1>3, <1>7, TopOf
    <3> HIDE DEF m
    <3>2. m > 1
        BY <3>1
    <3> QED
        BY <3>2 DEF m
  <2>2. stack' = [Front(stack) EXCEPT ![Len(stack) - 1].i = @ + 1]
      BY <1>7 DEF Return
  <2>3. Copies(stack', from[pkg], store[pkg])
      BY <1>2, <1>4, <2>1, <2>2, CopyGoesUp
  <2>4. Commands'
      BY <1>1, <1>7 DEF Inv, Commands
  <2>5. Walks'
      BY <1>1, <1>2, <1>7, <2>3 DEF Walks
  <2> QED
      BY <1>5, <2>4, <2>5 DEF Inv
<1> QED
    BY <1>6, <1>7 DEF CopyReturns

LEMMA PackKeeps ==
    ASSUME Inv, Pack
    PROVE  Inv'
<1>1. /\ op = "pack" /\ pkg \in Packages /\ result = "none"
      /\ UNCHANGED <<store, from, pkg, reported, spoiled, ops>>
      /\ store[pkg].files = Wanted(from[pkg]) /\ <<>> \in store[pkg].dirs
    BY DEF Pack, Inv, Commands, Walks
<1>2. CASE archive' = [archive EXCEPT ![pkg] = store[pkg].files] /\ Finish("presented")
  <2>1. op' = "idle" /\ result' = "presented" /\ stack' = <<>> /\ buffer' = <<>>
      BY <1>2 DEF Finish
  <2>2. archive'[pkg] = Wanted(from[pkg]) /\ DOMAIN archive' = Packages
        /\ \A q \in Packages : q # pkg => archive'[q] = archive[q]
      BY <1>1, <1>2 DEF Inv, Disk
  <2>3. Disk'
    <3>1. OnDisk(store'[pkg], from'[pkg], archive'[pkg])
        BY <1>1, <2>2 DEF Inv, Disk, OnDisk
    <3> QED
        BY <1>1, <2>2, <3>1, DiskChanged DEF Inv, Disk
  <2>4. Commands'
      BY <1>1, <2>1 DEF Inv, Commands, Results
  <2>5. Walks'
      BY <1>1, <2>1, Ended DEF Inv
  <2> QED
      BY <2>3, <2>4, <2>5 DEF Inv
<1>3. CASE UndoCopy(store[pkg]) /\ UNCHANGED <<archive, result>>
  <2>1. Disk'
      BY <1>1, <1>3 DEF Inv, Disk
  <2>2. Commands' /\ Walks'
      BY <1>1, <1>3, <2>1, GivingUp DEF Inv
  <2> QED
      BY <2>1, <2>2 DEF Inv
<1> QED
    BY <1>2, <1>3 DEF Pack

LEMMA RebuildBeginsKeeps ==
    ASSUME Inv, RebuildBegins
    PROVE  Inv'
<1> DEFINE x == pkg'
<1>1. /\ x \in Packages /\ reported' = <<>> /\ ops' \in 0..MaxOps /\ op = "idle"
      /\ store' = store /\ from' = from
    BY Counted DEF RebuildBegins, Inv
<1>2. /\ archive' = [archive EXCEPT ![x] = Absent] \/ archive' = archive
      /\ spoiled' \in BOOLEAN /\ stack' = <<>>
      /\ \/ HasManifest(store[x]) /\ op' = "repack" /\ result' = "none"
         \/ op' = "idle" /\ result' = "refused"
    BY DEF RebuildBegins, Finish
<1>3. OnDisk(store[x], from[x], archive[x])
    BY <1>1 DEF Inv, Disk
<1>4. Disk'
  <2>1. DOMAIN archive' = Packages /\ \A q \in Packages : q # x => archive'[q] = archive[q]
      BY <1>2 DEF Inv, Disk
  <2>2. archive'[x] = Absent \/ archive'[x] = archive[x]
      BY <1>1, <1>2 DEF Inv, Disk
  <2>3. OnDisk(store'[x], from'[x], archive'[x])
      BY <1>1, <1>3, <2>2 DEF OnDisk
  <2> HIDE DEF x
  <2> QED
      BY <1>1, <2>1, <2>3, DiskChanged DEF Inv, Disk
<1>5. Commands'
    BY <1>1, <1>2 DEF Commands, Results
<1>6. Walks'
    BY <1>1, <1>2 DEF Walks, HasManifest
<1> QED
    BY <1>4, <1>5, <1>6 DEF Inv

\* A half-done directory that is packed as it is holds no archive at its
\* top either.
LEMMA RepackKeeps ==
    ASSUME Inv, Repack
    PROVE  Inv'
<1>1. /\ pkg \in Packages /\ op = "repack" /\ UNCHANGED <<store, pkg, reported, spoiled, ops>>
    BY DEF Repack, Inv, Commands
<1>2. OnDisk(store[pkg], from[pkg], archive[pkg])
    BY <1>1 DEF Inv, Disk
<1>3. ASSUME /\ archive' = [archive EXCEPT ![pkg] = store[pkg].files]
             /\ from' = IF store[pkg].files = Wanted(from[pkg]) THEN from
                        ELSE [from EXCEPT ![pkg] = store[pkg]]
      PROVE  Disk'
  <2>1. /\ DOMAIN from' = Packages /\ DOMAIN archive' = Packages /\ DOMAIN store' = Packages
        /\ \A q \in Packages : q # pkg => store'[q] = store[q] /\ archive'[q] = archive[q] /\ from'[q] = from[q]
        /\ archive'[pkg] = store[pkg].files
      BY <1>1, <1>3 DEF Inv, Disk
  <2>2. Wanted(store[pkg]) = store[pkg].files
    <3>1. store[pkg].files \subseteq Wanted(from[pkg])
        BY <1>2 DEF OnDisk
    <3> QED
        BY <3>1 DEF Wanted
  <2>3. \/ from'[pkg] = from[pkg] /\ store[pkg].files = Wanted(from[pkg])
        \/ from'[pkg] = store[pkg]
      BY <1>1, <1>3 DEF Inv, Disk
  <2>4. OnDisk(store'[pkg], from'[pkg], archive'[pkg])
      BY <1>1, <1>2, <2>1, <2>2, <2>3 DEF OnDisk
  <2> QED
      BY <1>1, <2>1, <2>4, DiskChanged DEF Inv
<1>4. ASSUME UNCHANGED <<archive, from>>
      PROVE  Disk'
    BY <1>1, <1>4 DEF Inv, Disk
<1>5. Disk'
    BY <1>3, <1>4 DEF Repack
<1>6. op' = "idle" /\ stack' = <<>> /\ result' \in {"rebuilt", "failed rebuild"}
    BY DEF Repack, Finish
<1>7. Commands'
    BY <1>1, <1>6 DEF Inv, Commands, Results
<1>8. Walks'
  <2>1. result' \notin {"failed", "removed", "listed"}
      BY <1>6
  <2> QED
      BY <1>6, <2>1, Ended
<1> QED
    BY <1>5, <1>7, <1>8 DEF Inv

-----------------------------------------------------------------------------
(* dlr_reg_remove and remove_tree keep the invariant.                      *)

LEMMA RemoveBeginsKeeps ==
    ASSUME Inv, RemoveBegins
    PROVE  Inv'
<1> DEFINE x == pkg'  t == store[x]
<1>1. /\ x \in Packages /\ reported' = <<>> /\ ops' \in 0..MaxOps /\ op = "idle"
      /\ store' = store /\ from' = from
    BY Counted DEF RemoveBegins, Inv
<1>2. \/ archive' = [archive EXCEPT ![x] = Absent] /\ spoiled' = FALSE
      \/ archive' = archive /\ spoiled' = TRUE
    BY DEF RemoveBegins
<1>3. OnDisk(t, from[x], archive[x])
    BY <1>1 DEF Inv, Disk
<1>4. Disk'
  <2>1. DOMAIN archive' = Packages /\ \A q \in Packages : q # x => archive'[q] = archive[q]
      BY <1>2 DEF Inv, Disk
  <2>2. archive'[x] = Absent \/ archive'[x] = archive[x]
      BY <1>1, <1>2 DEF Inv, Disk
  <2>3. OnDisk(store'[x], from'[x], archive'[x])
      BY <1>1, <1>3, <2>2 DEF OnDisk
  <2> HIDE DEF x
  <2> QED
      BY <1>1, <2>1, <2>3, DiskChanged DEF Inv, Disk
<1>5. spoiled' \in BOOLEAN /\ (~spoiled' => archive'[x] = Absent)
    BY <1>1, <1>2 DEF Inv, Disk
<1>6. CASE t.dirs # {} /\ op' = "remove" /\ result' = "none" /\ Enter(<<>>, Kids(t, <<>>), <<>>)
  <2>2. PICK listing \in Listings(Kids(t, <<>>)) : stack' = Append(<<>>, Frame(<<>>, listing))
      BY <1>6, Entering
  <2>3. Tree(t) /\ <<>> \in t.dirs
      BY <1>3, <1>6 DEF OnDisk, Tree, Reached
  <2>4. Removes(stack', t)
      BY <2>2, <2>3, RemoveEnters
  <2>5. Commands'
      BY <1>1, <1>5, <1>6 DEF Commands, Results
  <2>6. Walks'
      BY <1>1, <1>5, <1>6, <2>4 DEF Walks
  <2> QED
      BY <1>4, <2>5, <2>6 DEF Inv
<1>7. CASE t.dirs = {} /\ Finish("removed")
  <2>1. op' = "idle" /\ result' = "removed" /\ stack' = <<>> /\ buffer' = <<>>
      BY <1>7 DEF Finish
  <2>2. t = Empty
      BY <1>3, <1>7, NoDirNoFile DEF OnDisk
  <2>3. Commands'
      BY <1>1, <1>5, <2>1 DEF Commands, Results
  <2>4. Walks'
      BY <1>1, <1>5, <2>1, <2>2 DEF Walks
  <2> QED
      BY <1>4, <2>3, <2>4 DEF Inv
<1> QED
    BY <1>6, <1>7 DEF RemoveBegins

\* remove_tree stops, having spoiled something or being through.
LEMMA RemovingEnds ==
    ASSUME Inv, Disk', RemoveEnds, Removing, UNCHANGED <<archive, pkg, reported, ops>>,
           spoiled' \in BOOLEAN, spoiled => spoiled', ~spoiled' => store'[pkg] = Empty
    PROVE  Inv'
<1>1. /\ op' = "idle" /\ result' \in {"failed", "removed"} /\ stack' = <<>> /\ buffer' = <<>>
    BY DEF RemoveEnds, Finish
<1>2. ~spoiled => archive[pkg] = Absent
    BY DEF Removing, Inv, Walks
<1>3. Commands'
    BY <1>1 DEF Inv, Commands, Results
<1>4. Walks'
    BY <1>1, <1>2 DEF Walks
<1> QED
    BY <1>3, <1>4 DEF Inv

\* remove_tree goes on.
LEMMA RemovingGoesOn ==
    ASSUME Inv, Disk', Removing, Removes(stack', store'[pkg]),
           UNCHANGED <<op, archive, pkg, reported, result, spoiled, ops>>
    PROVE  Inv'
<1>1. op \in {"undo", "remove"} /\ op' = op /\ result = "none"
    BY DEF Removing, Inv, Commands
<1>2. Commands'
    BY <1>1 DEF Inv, Commands
<1>3. Walks'
    BY <1>1 DEF Inv, Walks
<1> QED
    BY <1>2, <1>3 DEF Inv

LEMMA RemovingNow ==
    ASSUME Inv, Removing
    PROVE  /\ Removes(stack, store[pkg]) /\ Chain(stack) /\ pkg \in Packages
           /\ OnDisk(store[pkg], from[pkg], archive[pkg]) /\ Tree(store[pkg])
           /\ Len(stack) \in Nat \ {0} /\ Len(stack) \in 1..Len(stack) /\ spoiled \in BOOLEAN
<1>1. Removes(stack, store[pkg]) /\ pkg \in Packages /\ spoiled \in BOOLEAN
    BY DEF Removing, Inv, Walks, Commands
<1>2. OnDisk(store[pkg], from[pkg], archive[pkg]) /\ Tree(store[pkg])
    BY <1>1 DEF Inv, Disk, OnDisk
<1>3. Chain(stack)
    BY <1>1 DEF Removes
<1> QED
    BY <1>1, <1>2, <1>3, TopOf

LEMMA RemoveFileKeeps ==
    ASSUME Own, Inv, RemoveFile
    PROVE  Inv'
<1> DEFINE m == Len(stack)  e == stack[m].own[stack[m].i]  path == Append(stack[m].path, e.name)
           t == store[pkg]
<1>1. Removing /\ AtEntry /\ ~Current.dir /\ UNCHANGED <<archive, from, pkg, reported, ops>>
    BY DEF RemoveFile
<1>2. /\ Removes(stack, t) /\ Chain(stack) /\ pkg \in Packages
      /\ OnDisk(t, from[pkg], archive[pkg]) /\ Tree(t) /\ m \in 1..m /\ spoiled \in BOOLEAN
    BY <1>1, RemovingNow
<1>3. Current = e /\ stack[m].i <= stack[m].n /\ EntryPath = path /\ ~e.dir
    BY <1>1, <1>2, Here
<1>4. path \in t.files
    BY <1>2, <1>3, RemoveAtEntry
<1> DEFINE less == [store EXCEPT ![pkg].files = @ \ {path}]  u == [t EXCEPT !.files = @ \ {path}]
<1>5. /\ less[pkg] = u /\ DOMAIN less = Packages
      /\ \A q \in Packages : q # pkg => less[q] = store[q]
    BY <1>2 DEF Inv, Disk
<1>6. OnDisk(u, from[pkg], archive[pkg]) /\ u.dirs = t.dirs /\ u.files = t.files \ {path}
  <2>1. t = [dirs |-> t.dirs, files |-> t.files] /\ OnDisk(t, from[pkg], archive[pkg])
      BY <1>2 DEF OnDisk, Tree, Shaped
  <2> HIDE DEF t, path
  <2>2. u = [dirs |-> t.dirs, files |-> t.files \ {path}]
      BY <2>1
  <2> HIDE DEF u
  <2> QED
      BY <2>1, <2>2, RemovedFile
<1>7. \/ store' = less /\ NextEntry /\ UNCHANGED <<op, result, buffer, spoiled>>
      \/ store' = store /\ RemoveEnds /\ spoiled' = TRUE
    BY <1>3, <1>4 DEF RemoveFile
<1> HIDE DEF less, u, t, path, e, m
<1>8. CASE store' = less /\ NextEntry /\ UNCHANGED <<op, result, buffer, spoiled>>
  <2>1. Disk'
    <3>1. OnDisk(store'[pkg], from'[pkg], archive'[pkg])
        BY <1>1, <1>5, <1>6, <1>8
    <3> QED
        BY <1>1, <1>5, <1>8, <3>1, DiskChanged DEF Inv, Disk
  <2>2. stack' = [stack EXCEPT ![m].i = @ + 1]
      BY <1>8 DEF NextEntry, m
  <2>3. Tree(u)
      BY <1>6 DEF OnDisk
  <2>4. Removes(stack', u)
      BY <1>2, <1>3, <1>6, <2>2, <2>3, RemoveOneFile DEF m, e, path
  <2>5. Removes(stack', store'[pkg])
      BY <1>5, <1>8, <2>4
  <2> QED
      BY <1>1, <1>2, <1>8, <2>1, <2>5, RemovingGoesOn
<1>9. CASE store' = store /\ RemoveEnds /\ spoiled' = TRUE
  <2>1. Disk'
      BY <1>1, <1>9 DEF Inv, Disk
  <2> QED
      BY <1>1, <1>9, <2>1, RemovingEnds
<1> QED
    BY <1>7, <1>8, <1>9

\* No directory is too deep for remove_tree: copy_tree has made none below
\* DLR_COPY_MAX_DEPTH.
LEMMA RemoveDirKeeps ==
    ASSUME Own, Inv, RemoveDir
    PROVE  Inv'
<1> DEFINE m == Len(stack)  e == stack[m].own[stack[m].i]  path == Append(stack[m].path, e.name)
           t == store[pkg]
<1>1. Removing /\ AtEntry /\ Current.dir /\ UNCHANGED <<store, archive, from, pkg, reported, spoiled, ops>>
    BY DEF RemoveDir
<1>2. /\ Removes(stack, t) /\ Chain(stack) /\ pkg \in Packages
      /\ OnDisk(t, from[pkg], archive[pkg]) /\ Tree(t) /\ m \in 1..m /\ m \in Nat \ {0}
    BY <1>1, RemovingNow
<1>3. Current = e /\ stack[m].i <= stack[m].n /\ EntryPath = path /\ e.dir
    BY <1>1, <1>2, Here
<1>4. path \in t.dirs /\ stack[m].path \in Paths /\ e.name \in Names
    BY <1>2, <1>3, RemoveAtEntry
<1>5. Len(path) = m
  <2>1. Len(path) = Len(stack[m].path) + 1 /\ Len(stack[m].path) = m - 1
      BY <1>2, <1>4, Joined DEF Chain
  <2> HIDE DEF path, m
  <2> QED
      BY <1>2, <2>1
<1>6. m <= MaxDepth + 2
  <2>1. Len(path) <= MaxDepth /\ MaxDepth \in Nat
      BY <1>2, <1>4, BoundsAssumption DEF OnDisk
  <2> HIDE DEF path, m
  <2> QED
      BY <1>2, <1>5, <2>1
<1>7. Enter(path, Kids(t, path), stack) /\ UNCHANGED <<op, result>>
    BY <1>3, <1>4, <1>6 DEF RemoveDir
<1> HIDE DEF t, path, e, m
<1>9. PICK listing \in Listings(Kids(t, path)) : stack' = Append(stack, Frame(path, listing))
    BY <1>7, Entering
<1>10. Removes(stack', t)
    BY <1>2, <1>3, <1>9, RemoveGoesDown DEF m, e, path
<1>11. Disk'
    BY <1>1 DEF Inv, Disk
<1>12. Removes(stack', store'[pkg])
    BY <1>1, <1>10 DEF t
<1> QED
    BY <1>1, <1>7, <1>11, <1>12, RemovingGoesOn

LEMMA RemoveReturnsKeeps ==
    ASSUME Own, Inv, RemoveReturns
    PROVE  Inv'
<1> DEFINE m == Len(stack)  path == stack[m].path  t == store[pkg]
<1>1. Removing /\ AtEnd /\ UNCHANGED <<archive, from, pkg, reported, ops>>
    BY DEF RemoveReturns
<1>2. /\ Removes(stack, t) /\ Chain(stack) /\ pkg \in Packages
      /\ OnDisk(t, from[pkg], archive[pkg]) /\ Tree(t) /\ m \in 1..m /\ spoiled \in BOOLEAN
      /\ m \in Nat \ {0}
    BY <1>1, RemovingNow
<1>3. Top.path = path /\ stack[m].i > stack[m].n
    BY <1>1, <1>2, Here
<1>4. Kids(t, path) = {} /\ path \in t.dirs
    BY <1>2, <1>3, RemoveAtEnd
<1> DEFINE less == [store EXCEPT ![pkg].dirs = @ \ {path}]  u == [t EXCEPT !.dirs = @ \ {path}]
<1>5. /\ less[pkg] = u /\ DOMAIN less = Packages
      /\ \A q \in Packages : q # pkg => less[q] = store[q]
    BY <1>2 DEF Inv, Disk
<1>6. /\ OnDisk(u, from[pkg], archive[pkg]) /\ u.dirs = t.dirs \ {path} /\ u.files = t.files
      /\ path = <<>> => u = Empty
    BY <1>2, <1>4, RemovedDir
<1>7. \/ store' = less /\ m > 1 /\ Return /\ UNCHANGED <<op, result, buffer, spoiled>>
      \/ store' = less /\ ~(m > 1) /\ RemoveEnds /\ spoiled' = spoiled
      \/ store' = store /\ RemoveEnds /\ spoiled' = TRUE
    BY <1>3, <1>4 DEF RemoveReturns
<1> HIDE DEF less, u, t, path, m
<1>8. ASSUME store' = less
      PROVE  Disk'
  <2>1. OnDisk(store'[pkg], from'[pkg], archive'[pkg])
      BY <1>1, <1>5, <1>6, <1>8
  <2> QED
      BY <1>1, <1>5, <1>8, <2>1, DiskChanged DEF Inv, Disk
<1>9. CASE store' = less /\ m > 1 /\ Return /\ UNCHANGED <<op, result, buffer, spoiled>>
  <2>1. stack' = [Front(stack) EXCEPT ![m - 1].i = @ + 1]
      BY <1>9 DEF Return, m
  <2>2. Tree(u)
      BY <1>6 DEF OnDisk
  <2>3. Removes(stack', u)
      BY <1>2, <1>6, <1>9, <2>1, <2>2, RemoveGoesUp DEF m, path
  <2>4. Removes(stack', store'[pkg])
      BY <1>5, <1>9, <2>3
  <2> QED
      BY <1>1, <1>2, <1>8, <1>9, <2>4, RemovingGoesOn
<1>10. CASE store' = less /\ ~(m > 1) /\ RemoveEnds /\ spoiled' = spoiled
  <2>1. m = 1
      BY <1>2, <1>10
  <2>2. path = <<>>
      BY <1>2, <2>1, RootOfWalk DEF path
  <2>3. store'[pkg] = Empty
      BY <1>5, <1>6, <1>10, <2>2
  <2> QED
      BY <1>1, <1>2, <1>8, <1>10, <2>3, RemovingEnds
<1>11. CASE store' = store /\ RemoveEnds /\ spoiled' = TRUE
  <2>1. Disk'
      BY <1>1, <1>11 DEF Inv, Disk
  <2> QED
      BY <1>1, <1>11, <2>1, RemovingEnds
<1> QED
    BY <1>7, <1>9, <1>10, <1>11

-----------------------------------------------------------------------------
(* The listing of the store root.                                          *)

LEMMA ImageFits ==
    ASSUME NEW S, IsFiniteSet(S), NEW f, DOMAIN f = S, NEW T, T = {f[a] : a \in S}
    PROVE  IsFiniteSet(T) /\ Cardinality(T) <= Cardinality(S)
<1> DEFINE g == [a \in S |-> f[a]]
<1>1. g \in Surjection(S, T)
    BY DEF Surjection
<1> QED
    BY <1>1, FS_Surjection

\* A directory and an archive for every package at most: all fit.
LEMMA RootListed ==
    ASSUME ListingsFit
    PROVE  RootKids \subseteq AnyEntries /\ IsFiniteSet(RootKids) /\ Cardinality(RootKids) <= MaxEntries
<1> DEFINE A == {q \in Packages : store[q].dirs # {}}  B == {q \in Packages : archive[q] # Absent}
           f == [p \in A |-> Entry(p, TRUE)]  g == [p \in B |-> Entry(<<p, "mpkg">>, FALSE)]
           S == {f[p] : p \in A}  T == {g[p] : p \in B}
<1>1. RootKids = S \cup T
  <2>1. S = {Entry(p, TRUE) : p \in A}
      OBVIOUS
  <2>2. T = {Entry(<<p, "mpkg">>, FALSE) : p \in B}
      OBVIOUS
  <2> QED
      BY <2>1, <2>2 DEF RootKids
<1>2. S \subseteq AnyEntries /\ T \subseteq AnyEntries
  <2>1. \A p \in Packages : Entry(p, TRUE) \in AnyEntries /\ Entry(<<p, "mpkg">>, FALSE) \in AnyEntries
    <3> TAKE p \in Packages
    <3>1. p \in Names \cup Packages \cup {<<q, "mpkg">> : q \in Packages}
        OBVIOUS
    <3>2. <<p, "mpkg">> \in Names \cup Packages \cup {<<q, "mpkg">> : q \in Packages}
        OBVIOUS
    <3> QED
        BY <3>1, <3>2 DEF Entry, AnyEntries
  <2>2. (\A p \in A : f[p] = Entry(p, TRUE)) /\ A \subseteq Packages
      OBVIOUS
  <2>3. (\A p \in B : g[p] = Entry(<<p, "mpkg">>, FALSE)) /\ B \subseteq Packages
      OBVIOUS
  <2> HIDE DEF f, g, A, B
  <2> QED
      BY <2>1, <2>2, <2>3
<1>3. /\ IsFiniteSet(A) /\ Cardinality(A) <= Cardinality(Packages)
      /\ IsFiniteSet(B) /\ Cardinality(B) <= Cardinality(Packages)
  <2>1. A \in SUBSET Packages /\ B \in SUBSET Packages
      OBVIOUS
  <2> HIDE DEF A, B
  <2> QED
      BY <2>1, FS_Subset, NamesAssumption
<1>4. DOMAIN f = A /\ DOMAIN g = B
    OBVIOUS
<1> HIDE DEF A, B, f, g
<1>5. IsFiniteSet(S) /\ Cardinality(S) <= Cardinality(A)
    BY <1>3, <1>4, ImageFits
<1>6. IsFiniteSet(T) /\ Cardinality(T) <= Cardinality(B)
    BY <1>3, <1>4, ImageFits
<1> HIDE DEF S, T
<1>7. /\ IsFiniteSet(S \cup T)
      /\ Cardinality(S \cup T) = Cardinality(S) + Cardinality(T) - Cardinality(S \cap T)
    BY <1>5, <1>6, FS_Union
<1>8. IsFiniteSet(S \cap T)
    BY <1>5, FS_Subset
<1>9. /\ Cardinality(S) \in Nat /\ Cardinality(T) \in Nat /\ Cardinality(S \cap T) \in Nat
      /\ Cardinality(A) \in Nat /\ Cardinality(B) \in Nat /\ Cardinality(Packages) \in Nat
    BY <1>3, <1>5, <1>6, <1>8, FS_CardinalityType, NamesAssumption
<1>10. Cardinality(S \cup T) <= 2 * Cardinality(Packages) /\ Cardinality(S \cup T) \in Int
    BY <1>3, <1>5, <1>6, <1>7, <1>9
<1>11. 2 * Cardinality(Packages) <= MaxEntries /\ MaxEntries \in Nat
    BY BoundsAssumption DEF ListingsFit
<1>12. Cardinality(S \cup T) <= MaxEntries
    BY <1>9, <1>10, <1>11
<1> QED
    BY <1>1, <1>2, <1>7, <1>12

\* What the calls on package directories and archives of the root stand for.
LEMMA RootEntry ==
    ASSUME NEW e \in RootKids, e.dir
    PROVE  e.name \in Packages /\ e = Entry(e.name, TRUE)
<1>1. CASE \E p \in Packages : e = Entry(p, TRUE)
    BY <1>1 DEF Entry
<1>2. CASE \E p \in Packages : e = Entry(<<p, "mpkg">>, FALSE)
    BY <1>2 DEF Entry
<1> QED
    BY <1>1, <1>2 DEF RootKids

LEMMA PresentedListed ==
    ASSUME NEW p \in Packages, IsPresented(p)
    PROVE  Entry(p, TRUE) \in RootKids
BY DEF IsPresented, RootKids

LEMMA Named ==
    ASSUME NEW p
    PROVE  Entry(p, TRUE).name = p /\ Entry(p, TRUE).dir = TRUE
BY DEF Entry

-----------------------------------------------------------------------------
(* Every step keeps the invariant.                                         *)

\* dlr_reg_search touches nothing on disk.
LEMMA ListKeeps ==
    ASSUME Inv, ListSteps
    PROVE  Inv'
<1>1. /\ UNCHANGED <<store, archive, from>> /\ op' \in {"list", "idle"} /\ pkg' \in Packages
      /\ result' \in {"none", "listed"} /\ (op' = "list" => result' = "none")
      /\ spoiled' \in BOOLEAN /\ ops' \in 0..MaxOps /\ (op' = "idle" => stack' = <<>>)
  <2>1. CASE ListBegins
      BY <2>1, Counted DEF ListBegins, Inv
  <2>2. CASE ListSkips
      BY <2>2 DEF ListSkips, Inv, Commands
  <2>3. CASE ListReports
      BY <2>3 DEF ListReports, Inv, Commands
  <2>4. CASE ListEnds
      BY <2>4 DEF ListEnds, Finish, Inv, Commands
  <2> QED
      BY <2>1, <2>2, <2>3, <2>4 DEF ListSteps
<1>2. Disk'
    BY <1>1 DEF Inv, Disk
<1>3. Commands'
    BY <1>1 DEF Commands, Results
<1>4. Walks'
    BY <1>1 DEF Walks
<1> QED
    BY <1>2, <1>3, <1>4 DEF Inv

LEMMA CrashKeeps ==
    ASSUME Inv, Crash
    PROVE  Inv'
<1>1. /\ op' = "idle" /\ result' = "killed" /\ stack' = <<>>
      /\ UNCHANGED <<store, archive, from, pkg, reported, spoiled, ops>>
    BY DEF Crash, Finish
<1>2. Disk'
    BY <1>1 DEF Inv, Disk
<1>3. Commands'
    BY <1>1 DEF Inv, Commands, Results
<1>4. Walks'
    BY <1>1, Ended
<1> QED
    BY <1>2, <1>3, <1>4 DEF Inv

LEMMA StutterKeeps ==
    ASSUME Inv, UNCHANGED vars
    PROVE  Inv'
<1>1. Disk'
    BY DEF Inv, Disk, vars
<1>2. Commands'
    BY DEF Inv, Commands, vars
<1>3. Walks'
    BY DEF Inv, Walks, vars
<1> QED
    BY <1>1, <1>2, <1>3 DEF Inv

LEMMA InitInv ==
    ASSUME Init
    PROVE  Inv
<1>1. /\ store = [p \in Packages |-> Empty] /\ archive = [p \in Packages |-> Absent]
      /\ from = [p \in Packages |-> Empty]
    BY DEF Init
<1>2. /\ op = "idle" /\ stack = <<>>
      /\ result = "none" /\ spoiled = FALSE /\ ops = 0 /\ pkg \in Packages
    BY NamesAssumption DEF Init
<1>3. OnDisk(Empty, Empty, Absent)
  <2>1. Empty.dirs = {} /\ Empty.files = {}
      BY DEF Empty
  <2> QED
      BY <2>1, EmptyTree DEF OnDisk
<1>4. Disk
    BY <1>1, <1>3 DEF Disk
<1>5. Commands
  <2>1. ops \in 0..MaxOps
      BY <1>2, BoundsAssumption
  <2> QED
      BY <1>2, <2>1 DEF Commands, Results
<1>6. Walks
    BY <1>2 DEF Walks
<1> QED
    BY <1>4, <1>5, <1>6 DEF Inv

LEMMA Keeps ==
    ASSUME ListingsFit, Inv, op # "list" => Own, [Next]_vars
    PROVE  Inv'
<1>1. CASE PresentRefused \/ PresentBegins \/ Pack
    BY <1>1, PresentRefusedKeeps, PresentBeginsKeeps, PackKeeps
<1>2. CASE CopyFile \/ CopyDir \/ CopyReturns
  <2>1. Own
      BY <1>2 DEF CopyFile, CopyDir, CopyReturns
  <2> QED
      BY <1>2, <2>1, CopyFileKeeps, CopyDirKeeps, CopyReturnsKeeps
<1>3. CASE Rebuild
    BY <1>3, RebuildBeginsKeeps, RepackKeeps DEF Rebuild
<1>4. CASE RemoveBegins
    BY <1>4, RemoveBeginsKeeps
<1>5. CASE RemoveFile \/ RemoveDir \/ RemoveReturns
  <2>1. Own
      BY <1>5 DEF RemoveFile, RemoveDir, RemoveReturns, Removing
  <2> QED
      BY <1>5, <2>1, RemoveFileKeeps, RemoveDirKeeps, RemoveReturnsKeeps
<1>6. CASE ListSteps
    BY <1>6, ListKeeps
<1>7. CASE Crash
    BY <1>7, CrashKeeps
<1>8. CASE UNCHANGED vars
    BY <1>8, StutterKeeps
<1> QED
    BY <1>1, <1>2, <1>3, <1>4, <1>5, <1>6, <1>7, <1>8 DEF Next, PresentSteps, RemoveSteps

-----------------------------------------------------------------------------
(* Each call with an array of its own: what a listing reports.             *)

LEMMA OwnPrivate == ~SharedBuffer => Own
BY DEF Own, Current

\* The packages a listing has called back for are those that are not ahead.
AtStore == Chain(stack) /\ Len(stack) = 1
Lists ==
    /\ AtStore
    /\ Part(stack[1].own, 1, stack[1].n) = RootKids
    /\ ToSet(reported) = {p \in Packages : IsPresented(p)
                                           /\ Entry(p, TRUE) \notin Part(stack[1].own, stack[1].i, stack[1].n)}
Told ==
    /\ reported \in Seq(Packages) /\ Len(reported) = Cardinality(ToSet(reported))
    /\ op = "list" => Lists
    /\ result = "listed" => ToSet(reported) = {p \in Packages : IsPresented(p)}

LEMMA NothingTold == <<>> \in Seq(Packages) /\ Len(<<>>) = Cardinality(ToSet(<<>>))
<1>1. ToSet(<<>>) = {} /\ Len(<<>>) = 0
    BY DEF ToSet
<1> QED
    BY <1>1, FS_EmptySet

\* The walk of the root at an entry: what it is, and what is ahead of it.
AtRoot(e) ==
    /\ e \in RootKids /\ e \in Part(stack[1].own, stack[1].i, stack[1].n)
    /\ Current = e
    /\ [stack EXCEPT ![Len(stack)].i = @ + 1] = [stack EXCEPT ![1].i = @ + 1]
    /\ LET s == [stack EXCEPT ![1].i = @ + 1] IN
        /\ Chain(s) /\ Len(s) = 1
        /\ Part(s[1].own, 1, s[1].n) = RootKids
        /\ Part(s[1].own, s[1].i, s[1].n) = Part(stack[1].own, stack[1].i, stack[1].n) \ {e}

LEMMA RootAdvances ==
    ASSUME ~SharedBuffer, Lists, AtEntry
    PROVE  AtRoot(stack[1].own[stack[1].i])
<1> DEFINE e == stack[1].own[stack[1].i]  s == [stack EXCEPT ![1].i = @ + 1]
           own == stack[1].own  i == stack[1].i  n == stack[1].n
<1>1. Chain(stack) /\ Len(stack) = 1 /\ Part(own, 1, n) = RootKids
    BY DEF Lists, AtStore
<1>2. i <= n /\ Current = e
    BY <1>1, OwnPrivate, Here
<1>3. n \in Nat /\ i \in 1..n /\ Once(own, n)
  <2>1. n \in 0..MaxEntries /\ i \in 1..(n + 1) /\ Once(own, n)
      BY <1>1 DEF Chain
  <2> HIDE DEF n, i
  <2> QED
      BY <1>2, <2>1
<1>4. Chain(s) /\ Len(s) = 1 /\ Like(stack, s, 1, i + 1)
  <2>1. s = [stack EXCEPT ![Len(stack)].i = @ + 1]
      BY <1>1
  <2> HIDE DEF s
  <2> QED
      BY <1>1, <1>2, <2>1, Advanced
<1>5. s[1].own = own /\ s[1].n = n /\ s[1].i = i + 1
    BY <1>4 DEF Like
<1> HIDE DEF n, i, own, s
<1>6. e \in Part(own, i, n) /\ e \in Part(own, 1, n)
    BY <1>3 DEF Part, n, i, own
<1>7. Part(own, i + 1, n) = Part(own, i, n) \ {own[i]}
    BY <1>3, OnceLess
<1>8. e = own[i]
    BY DEF own, i
<1> QED
    BY <1>1, <1>2, <1>4, <1>5, <1>6, <1>7, <1>8 DEF AtRoot, s, own, i, n

LEMMA OneMore ==
    ASSUME NEW s \in Seq(Packages), NEW p \in Packages, p \notin ToSet(s), Len(s) = Cardinality(ToSet(s))
    PROVE  /\ Append(s, p) \in Seq(Packages) /\ ToSet(Append(s, p)) = ToSet(s) \cup {p}
           /\ Len(Append(s, p)) = Cardinality(ToSet(Append(s, p)))
<1>1. /\ Append(s, p) \in Seq(Packages) /\ Len(s) \in Nat /\ Len(Append(s, p)) = Len(s) + 1
      /\ \A k \in 1..Len(s) : Append(s, p)[k] = s[k]
      /\ Append(s, p)[Len(s) + 1] = p
    OBVIOUS
<1> DEFINE m == Len(s)  t == Append(s, p)
<1>2. /\ m \in Nat /\ Len(t) = m + 1 /\ t[m + 1] = p /\ \A k \in 1..m : t[k] = s[k]
    BY <1>1
<1>3. ToSet(t) = {t[k] : k \in 1..(m + 1)} /\ ToSet(s) = {s[k] : k \in 1..m}
  <2>1. t \in Seq(Packages) /\ DOMAIN t = 1..Len(t) /\ DOMAIN s = 1..m
      BY <1>1
  <2>2. DOMAIN t = 1..(m + 1)
      BY <1>2, <2>1
  <2> HIDE DEF t, m
  <2> QED
      BY <2>1, <2>2 DEF ToSet
<1> HIDE DEF m, t
<1>4. ToSet(t) = ToSet(s) \cup {p}
  <2>1. \A k \in 1..(m + 1) : k = m + 1 \/ k \in 1..m
      BY <1>2
  <2>2. m + 1 \in 1..(m + 1) /\ \A k \in 1..m : k \in 1..(m + 1)
      BY <1>2
  <2> QED
      BY <1>2, <1>3, <2>1, <2>2
<1>5. ToSet(s) \in SUBSET Packages
    BY DEF ToSet
<1>6. IsFiniteSet(ToSet(s))
    BY <1>5, FS_Subset, NamesAssumption
<1>7. Cardinality(ToSet(t)) = Cardinality(ToSet(s)) + 1
    BY <1>4, <1>6, FS_AddElement
<1> QED
    BY <1>1, <1>4, <1>7 DEF t, m

LEMMA ListBeginsTold ==
    ASSUME ~SharedBuffer, ListingsFit, Inv, ListBegins
    PROVE  Told'
<1>1. /\ op' = "list" /\ result' = "none" /\ spoiled' = FALSE /\ Enter(<<>>, RootKids, <<>>)
      /\ pkg' \in Packages /\ reported' = <<>> /\ ops' \in 0..MaxOps
      /\ UNCHANGED <<store, archive, from>>
    BY Counted DEF ListBegins, Inv
<1>4. PICK listing \in Listings(RootKids) : stack' = Append(<<>>, Frame(<<>>, listing))
    BY <1>1, Entering
<1>5. /\ listing \in Seq(AnyEntries) /\ Len(listing) <= MaxEntries
      /\ Part(listing, 1, Len(listing)) = RootKids /\ Once(listing, Len(listing))
    BY RootListed, ListingWhole
<1>6. /\ Chain(stack') /\ Len(stack') = 1 /\ stack'[1].n = Len(listing)
      /\ stack'[1].i = 1 /\ stack'[1].own = listing
    BY <1>4, <1>5, FirstCall
<1>9. RootKids' = RootKids /\ \A p \in Packages : IsPresented(p)' = IsPresented(p)
    BY <1>1 DEF RootKids, IsPresented
<1>10. Part(stack'[1].own, stack'[1].i, stack'[1].n) = RootKids
    BY <1>5, <1>6
<1>11. ToSet(reported') = {}
    BY <1>1 DEF ToSet
<1>12. Lists'
  <2>1. ToSet(reported') = {p \in Packages : IsPresented(p)' /\ Entry(p, TRUE) \notin RootKids}
      BY <1>9, <1>11, PresentedListed
  <2>2. ToSet(reported') = {p \in Packages : IsPresented(p)'
                              /\ Entry(p, TRUE) \notin Part(stack'[1].own, stack'[1].i, stack'[1].n)}
      BY <1>10, <2>1
  <2>3. Part(stack'[1].own, 1, stack'[1].n) = RootKids'
      BY <1>6, <1>9, <1>10
  <2> QED
      BY <1>6, <2>2, <2>3 DEF Lists, AtStore
<1> QED
    BY <1>1, <1>12, NothingTold DEF Told

LEMMA ListSkipsTold ==
    ASSUME ~SharedBuffer, Inv, Told, ListSkips
    PROVE  Told'
<1> DEFINE e == stack[1].own[stack[1].i]
<1>1. /\ op = "list" /\ AtEntry /\ ~(Current.dir /\ IsPresented(Current.name)) /\ NextEntry
      /\ UNCHANGED <<store, archive, from, op, pkg, buffer, reported, result, spoiled, ops>>
    BY DEF ListSkips
<1>2. Lists
    BY <1>1 DEF Told
<1>3. AtRoot(e)
    BY <1>1, <1>2, RootAdvances
<1> HIDE DEF e
<1>4. stack' = [stack EXCEPT ![1].i = @ + 1] /\ Current = e
    BY <1>1, <1>3 DEF NextEntry, AtRoot
<1>5. /\ Chain(stack') /\ Len(stack') = 1
      /\ Part(stack'[1].own, 1, stack'[1].n) = RootKids
      /\ Part(stack'[1].own, stack'[1].i, stack'[1].n) = Part(stack[1].own, stack[1].i, stack[1].n) \ {e}
    BY <1>3, <1>4 DEF AtRoot
<1>6. RootKids' = RootKids /\ \A p \in Packages : IsPresented(p)' = IsPresented(p)
    BY <1>1 DEF RootKids, IsPresented
<1>7. \A p \in Packages : IsPresented(p) => Entry(p, TRUE) # e
    BY <1>1, <1>4, Named
<1>8. Lists'
  <2>1. ToSet(reported) = {p \in Packages : IsPresented(p)
                              /\ Entry(p, TRUE) \notin Part(stack'[1].own, stack'[1].i, stack'[1].n)}
      BY <1>2, <1>5, <1>7 DEF Lists
  <2>2. ToSet(reported)' = ToSet(reported)
      BY <1>1 DEF ToSet
  <2>3. ToSet(reported') = {p \in Packages : IsPresented(p)'
                              /\ Entry(p, TRUE) \notin Part(stack'[1].own, stack'[1].i, stack'[1].n)}
      BY <1>6, <2>1, <2>2
  <2> QED
      BY <1>5, <1>6, <2>3 DEF Lists, AtStore
<1>11. result = "none"
    BY <1>1 DEF Inv, Commands
<1> QED
    BY <1>1, <1>8, <1>11 DEF Told

LEMMA ListReportsTold ==
    ASSUME ~SharedBuffer, Inv, Told, ListReports
    PROVE  Told'
<1> DEFINE e == stack[1].own[stack[1].i]  p == e.name
<1>1. /\ op = "list" /\ AtEntry /\ Current.dir /\ IsPresented(Current.name) /\ NextEntry
      /\ reported' = Append(reported, Current.name) /\ buffer' = <<>>
      /\ UNCHANGED <<store, archive, from, op, pkg, result, spoiled, ops>>
    BY DEF ListReports
<1>2. Lists
    BY <1>1 DEF Told
<1>3. AtRoot(e)
    BY <1>1, <1>2, RootAdvances
<1> HIDE DEF e
<1>4. stack' = [stack EXCEPT ![1].i = @ + 1] /\ Current = e
    BY <1>1, <1>3 DEF NextEntry, AtRoot
<1>5. /\ Chain(stack') /\ Len(stack') = 1
      /\ Part(stack'[1].own, 1, stack'[1].n) = RootKids
      /\ Part(stack'[1].own, stack'[1].i, stack'[1].n) = Part(stack[1].own, stack[1].i, stack[1].n) \ {e}
      /\ e \in Part(stack[1].own, stack[1].i, stack[1].n)
    BY <1>3, <1>4 DEF AtRoot
<1>6. p \in Packages /\ e = Entry(p, TRUE) /\ IsPresented(p)
    BY <1>1, <1>3, <1>4, RootEntry DEF AtRoot
<1>7. RootKids' = RootKids /\ \A q \in Packages : IsPresented(q)' = IsPresented(q)
    BY <1>1 DEF RootKids, IsPresented
<1>8. \A q \in Packages : Entry(q, TRUE) = e <=> q = p
    BY <1>6, Named
<1>9. p \notin ToSet(reported)
    BY <1>2, <1>5, <1>6 DEF Lists
<1>10. /\ reported' \in Seq(Packages) /\ ToSet(reported') = ToSet(reported) \cup {p}
       /\ Len(reported') = Cardinality(ToSet(reported'))
  <2>1. reported \in Seq(Packages) /\ Len(reported) = Cardinality(ToSet(reported)) /\ reported' = Append(reported, p)
      BY <1>1, <1>4 DEF Told
  <2> HIDE DEF p
  <2> QED
      BY <1>6, <1>9, <2>1, OneMore
<1> HIDE DEF p
<1>11. Lists'
  <2>1. ToSet(reported) = {q \in Packages : IsPresented(q)
                              /\ Entry(q, TRUE) \notin Part(stack[1].own, stack[1].i, stack[1].n)}
      BY <1>2 DEF Lists
  <2>2. ToSet(reported') = {q \in Packages : IsPresented(q)
                              /\ Entry(q, TRUE) \notin Part(stack'[1].own, stack'[1].i, stack'[1].n)}
      BY <1>5, <1>6, <1>8, <1>10, <2>1
  <2>3. ToSet(reported') = {q \in Packages : IsPresented(q)'
                              /\ Entry(q, TRUE) \notin Part(stack'[1].own, stack'[1].i, stack'[1].n)}
      BY <1>7, <2>2
  <2> QED
      BY <1>5, <1>7, <2>3 DEF Lists, AtStore
<1>13. result = "none"
    BY <1>1 DEF Inv, Commands
<1> QED
    BY <1>1, <1>10, <1>11, <1>13 DEF Told

LEMMA ListEndsTold ==
    ASSUME ~SharedBuffer, Inv, Told, ListEnds
    PROVE  Told'
<1>1. /\ op = "list" /\ AtEnd /\ op' = "idle" /\ result' = "listed" /\ stack' = <<>> /\ buffer' = <<>>
      /\ UNCHANGED <<store, archive, from, pkg, reported, spoiled, ops>>
    BY DEF ListEnds, Finish
<1>2. Lists
    BY <1>1 DEF Told
<1>3. Chain(stack) /\ Len(stack) = 1
    BY <1>2 DEF Lists, AtStore
<1>4. stack[1].i > stack[1].n
    BY <1>1, <1>3, OwnPrivate, Here
<1>5. Part(stack[1].own, stack[1].i, stack[1].n) = {}
  <2>1. stack[1].n \in 0..MaxEntries /\ stack[1].i \in 1..(stack[1].n + 1)
      BY <1>3 DEF Chain
  <2>2. stack[1].i..stack[1].n = {}
      BY <1>4, <2>1
  <2> QED
      BY <2>2 DEF Part
<1>6. ToSet(reported) = {p \in Packages : IsPresented(p)}
    BY <1>2, <1>5 DEF Lists
<1>7. \A p \in Packages : IsPresented(p)' = IsPresented(p)
    BY <1>1 DEF IsPresented
<1>8. ToSet(reported') = {p \in Packages : IsPresented(p)'}
    BY <1>1, <1>6, <1>7
<1> QED
    BY <1>1, <1>8 DEF Told

LEMMA StutterTold ==
    ASSUME Told, UNCHANGED vars
    PROVE  Told'
<1>1. RootKids' = RootKids /\ \A p \in Packages : IsPresented(p)' = IsPresented(p)
    BY DEF RootKids, IsPresented, vars
<1>2. Lists <=> Lists'
    BY <1>1 DEF Lists, AtStore, vars
<1>3. UNCHANGED <<reported, op, result>>
    BY DEF vars
<1> QED
    BY <1>1, <1>2, <1>3 DEF Told

\* Nothing but dlr_reg_search calls back, and nothing else says how it ended.
LEMMA ToldStays ==
    ASSUME Told, op' # "list", result' # "listed", reported' = reported \/ reported' = <<>>
    PROVE  Told'
BY NothingTold DEF Told

LEMMA Quiet ==
    ASSUME Inv, PresentSteps \/ Rebuild \/ RemoveSteps \/ Crash
    PROVE  op' # "list" /\ result' # "listed" /\ (reported' = reported \/ reported' = <<>>)
<1>1. op # "idle" => result = "none"
    BY DEF Inv, Commands
<1>2. CASE PresentRefused \/ PresentBegins \/ RemoveBegins
    BY <1>2 DEF PresentRefused, PresentBegins, UndoCopy, RemoveBegins, Begin, Finish
<1>7. CASE Rebuild
    BY <1>7 DEF Rebuild, RebuildBegins, Repack, Begin, Finish
<1>3. CASE CopyFile \/ CopyDir
    BY <1>1, <1>3 DEF CopyFile, CopyDir, UndoCopy
<1>4. CASE CopyReturns \/ Pack
    BY <1>1, <1>4 DEF CopyReturns, Pack, UndoCopy, Finish
<1>5. CASE RemoveFile \/ RemoveDir \/ RemoveReturns
    BY <1>1, <1>5 DEF RemoveFile, RemoveDir, RemoveReturns, Removing, RemoveEnds, Finish
<1>6. CASE Crash
    BY <1>6 DEF Crash, Finish
<1> QED
    BY <1>2, <1>3, <1>4, <1>5, <1>6, <1>7 DEF PresentSteps, RemoveSteps

LEMMA ToldKeeps ==
    ASSUME ~SharedBuffer, ListingsFit, Inv, Told, [Next]_vars
    PROVE  Told'
<1>1. CASE PresentSteps \/ Rebuild \/ RemoveSteps \/ Crash
    BY <1>1, Quiet, ToldStays
<1>2. CASE ListSteps
    BY <1>2, ListBeginsTold, ListSkipsTold, ListReportsTold, ListEndsTold DEF ListSteps
<1>3. CASE UNCHANGED vars
    BY <1>3, StutterTold
<1> QED
    BY <1>1, <1>2, <1>3 DEF Next

LEMMA BufferUnused ==
    ASSUME ~SharedBuffer, buffer = <<>>, [Next]_vars
    PROVE  buffer' = <<>>
<1>1. \A path, kids, frames : Enter(path, kids, frames) => buffer' = <<>>
    BY DEF Enter
<1>2. CASE PresentSteps
  <2>1. CASE PresentRefused \/ CopyReturns
      BY <2>1 DEF PresentRefused, CopyReturns, Finish
  <2>2. CASE PresentBegins \/ CopyFile \/ CopyDir \/ Pack
      BY <1>1, <2>2 DEF PresentBegins, CopyFile, CopyDir, Pack, UndoCopy, Finish
  <2> QED
      BY <1>2, <2>1, <2>2 DEF PresentSteps
<1>3. CASE Rebuild \/ Crash
    BY <1>3 DEF Rebuild, RebuildBegins, Repack, Crash, Finish
<1>4. CASE RemoveSteps
    BY <1>1, <1>4 DEF RemoveSteps, RemoveBegins, RemoveFile, RemoveDir, RemoveReturns, RemoveEnds, Finish
<1>5. CASE ListSteps
    BY <1>1, <1>5 DEF ListSteps, ListBegins, ListSkips, ListReports, ListEnds, Finish
<1>6. CASE UNCHANGED vars
    BY <1>6 DEF vars
<1> QED
    BY <1>2, <1>3, <1>4, <1>5, <1>6 DEF Next

-----------------------------------------------------------------------------
(* One array for all calls, and no directory that leads to a second call.  *)

FlatStore == \A p \in Packages : from[p].dirs \subseteq {<<>>}

\* The call has the array for itself.
OneCall == Len(stack) = 1 /\ \A j \in 1..stack[1].n : buffer[j] = stack[1].own[j]

\* A listing promises nothing, as finding a manifest overwrites it.
Shared ==
    /\ buffer \in Seq(AnyEntries) /\ Len(buffer) <= MaxEntries /\ reported \in Seq(Packages)
    /\ FlatStore
    /\ op = "list" => AtStore /\ stack[1].n <= Len(buffer)
    /\ op # "list" /\ stack # <<>> => OneCall

LEMMA Overlaid ==
    ASSUME buffer \in Seq(AnyEntries), Len(buffer) <= MaxEntries,
           NEW listing \in Seq(AnyEntries), Len(listing) <= MaxEntries
    PROVE  /\ Overlay(listing) \in Seq(AnyEntries) /\ Len(Overlay(listing)) <= MaxEntries
           /\ Len(listing) <= Len(Overlay(listing)) /\ Len(buffer) <= Len(Overlay(listing))
           /\ \A j \in 1..Len(listing) : Overlay(listing)[j] = listing[j]
<1> DEFINE k == Len(listing)  n == Len(buffer)  rest == SubSeq(buffer, k + 1, n)
<1>1. k \in Nat /\ n \in Nat /\ \A i \in 1..n : buffer[i] \in AnyEntries
    OBVIOUS
<1>2. k + 1 \in Int /\ n \in Int /\ \A i \in (k + 1)..n : buffer[i] \in AnyEntries
    BY <1>1
<1>3. rest \in Seq(AnyEntries) /\ Len(rest) = IF k + 1 <= n THEN n - (k + 1) + 1 ELSE 0
  <2> HIDE DEF k, n
  <2> QED
      BY <1>2, SubSeqProperties
<1>4. /\ Overlay(listing) = listing \o rest /\ listing \o rest \in Seq(AnyEntries)
      /\ Len(listing \o rest) = k + Len(rest)
      /\ \A j \in 1..(k + Len(rest)) : (listing \o rest)[j] = IF j <= k THEN listing[j] ELSE rest[j - k]
  <2>1. Overlay(listing) = listing \o rest
      BY DEF Overlay
  <2> HIDE DEF rest
  <2> QED
      BY <1>3, <2>1, ConcatProperties
<1> HIDE DEF rest
<1>5. k <= MaxEntries /\ n <= MaxEntries /\ MaxEntries \in Nat
    BY BoundsAssumption
<1> DEFINE m == Len(rest)
<1>6. m \in Nat /\ (k + 1 <= n => m = n - k) /\ (~(k + 1 <= n) => m = 0)
    BY <1>1, <1>3
<1> HIDE DEF m, k, n
<1>7. k + m <= MaxEntries /\ k <= k + m /\ n <= k + m /\ \A j \in 1..k : j \in 1..(k + m) /\ j <= k
    BY <1>1, <1>5, <1>6
<1> QED
    BY <1>4, <1>7 DEF k, n, m

LEMMA Chained ==
    ASSUME Inv, op # "list", stack # <<>>
    PROVE  Chain(stack)
BY DEF Inv, Commands, Walks, Copies, Removes

LEMMA ChainedNext ==
    ASSUME Inv', op' # "list", stack' # <<>>
    PROVE  Chain(stack')
BY DEF Inv, Commands, Walks, Copies, Removes

LEMMA EmptyArray == <<>> \in Seq(AnyEntries) /\ Len(<<>>) <= MaxEntries
BY BoundsAssumption

\* Finding the manifest of a package lists its directory.
LEMMA ManifestListed ==
    ASSUME Inv, NEW p \in Packages, IsPresented(p), NEW listing \in Listings(Kids(store[p], <<>>))
    PROVE  listing \in Seq(AnyEntries) /\ Len(listing) <= MaxEntries
<1> DEFINE t == store[p]
<1>1. Tree(t) /\ t.dirs # {}
    BY DEF Inv, Disk, OnDisk, IsPresented
<1> HIDE DEF t
<1>2. <<>> \in t.dirs
    BY <1>1 DEF Tree, Reached
<1>3. Kids(t, <<>>) \subseteq AnyEntries /\ IsFiniteSet(Kids(t, <<>>)) /\ Cardinality(Kids(t, <<>>)) <= MaxEntries
    BY <1>1, <1>2, KidEntries
<1> QED
    BY <1>3, ListingWhole DEF t

\* Where the walk is, whatever array it reads.
LEMMA Position ==
    ASSUME Chain(stack), Len(stack) = 1
    PROVE  /\ Top = stack[1] /\ stack[1] \in Frames /\ stack[1].n \in Nat /\ stack[1].i \in 1..(stack[1].n + 1)
           /\ AtEntry <=> stack[1].i <= stack[1].n
<1>1. Last(stack) = stack[1] /\ stack # <<>> /\ stack[1] \in Frames /\ 1 \in 1..Len(stack)
    BY TopOf DEF Chain
<1>2. stack[1].n \in 0..MaxEntries /\ stack[1].i \in 1..(stack[1].n + 1)
    BY <1>1 DEF Chain
<1> QED
    BY <1>1, <1>2 DEF Top, AtEntry

LEMMA OwnShared ==
    ASSUME Inv, Shared, op # "list"
    PROVE  Own
<1> SUFFICES ASSUME AtEntry PROVE Current = Top.own[Top.i]
    BY DEF Own
<1>1. stack # <<>> /\ OneCall
    BY DEF AtEntry, Shared
<1>2. Chain(stack)
    BY <1>1, Chained
<1>3. Top = stack[1] /\ stack[1].i \in 1..stack[1].n
    BY <1>1, <1>2, Position DEF OneCall
<1> QED
    BY <1>1, <1>3 DEF Current, OneCall

\* A walk begins.
LEMMA RootEnters ==
    ASSUME SharedBuffer, buffer \in Seq(AnyEntries), Len(buffer) <= MaxEntries,
           NEW kids, Enter(<<>>, kids, <<>>), Chain(stack')
    PROVE  /\ buffer' \in Seq(AnyEntries) /\ Len(buffer') <= MaxEntries
           /\ OneCall' /\ stack'[1].n <= Len(buffer')
<1>1. PICK listing \in Listings(kids) :
        buffer' = Overlay(listing) /\ stack' = Append(<<>>, Frame(<<>>, listing))
    BY DEF Enter, Frame
<1> DEFINE f == Frame(<<>>, listing)
<1>2. f.n = Len(listing) /\ f.own = listing
    BY DEF Frame
<1> HIDE DEF f
<1>3. stack' = <<f>>
    BY <1>1 DEF f
<1>4. Len(stack') = 1 /\ stack'[1] = f
    BY <1>3
<1>5. f \in Frames /\ f.n \in 0..MaxEntries
    BY <1>4 DEF Chain
<1>6. listing \in Seq(AnyEntries) /\ Len(listing) <= MaxEntries
  <2>1. f.own \in Seq(AnyEntries)
      BY <1>5 DEF Frames
  <2>2. f.n <= MaxEntries
      BY <1>5
  <2> QED
      BY <1>2, <2>1, <2>2
<1>7. /\ Overlay(listing) \in Seq(AnyEntries) /\ Len(Overlay(listing)) <= MaxEntries
      /\ Len(listing) <= Len(Overlay(listing))
      /\ \A j \in 1..Len(listing) : Overlay(listing)[j] = listing[j]
    BY <1>6, Overlaid
<1> QED
    BY <1>1, <1>2, <1>4, <1>7 DEF OneCall

\* What a step that is not of a listing does to the walk.
LEMMA WalkStep ==
    ASSUME SharedBuffer, Inv, Shared, PresentSteps \/ Rebuild \/ RemoveSteps \/ Crash
    PROVE  \/ stack' = <<>> /\ (buffer' = buffer \/ buffer' = <<>>)
           \/ op # "list" /\ AtEntry /\ NextEntry /\ buffer' = buffer
           \/ \E kids : Enter(<<>>, kids, <<>>)
<1>1. \A t : UndoCopy(t) => \E kids : Enter(<<>>, kids, <<>>)
    BY DEF UndoCopy
<1>2. ASSUME op # "list", AtEntry \/ AtEnd
      PROVE  stack # <<>> /\ Len(stack) = 1 /\ Chain(stack) /\ Own /\ 1 \in 1..Len(stack)
  <2>1. stack # <<>> /\ Len(stack) = 1
      BY <1>2 DEF AtEntry, AtEnd, Shared, OneCall
  <2> QED
      BY <1>2, <2>1, Chained, OwnShared
<1>3. FlatStore
    BY DEF Shared
<1>4. CASE PresentRefused \/ Rebuild \/ Crash
    BY <1>4 DEF PresentRefused, Rebuild, RebuildBegins, Repack, Crash, Finish
<1>5. CASE PresentBegins
    BY <1>1, <1>5 DEF PresentBegins, Finish
<1>6. CASE CopyFile
    BY <1>1, <1>6 DEF CopyFile
<1>7. CASE CopyDir
  <2> DEFINE e == stack[1].own[stack[1].i]
  <2>1. op = "copy" /\ AtEntry /\ Current.dir
      BY <1>7 DEF CopyDir
  <2>2. Len(stack) = 1 /\ Chain(stack) /\ Own /\ 1 \in 1..Len(stack)
      BY <1>2, <2>1
  <2>3. Current = e /\ stack[1].i <= stack[1].n
      BY <2>1, <2>2, Here
  <2>4. Copies(stack, from[pkg], store[pkg]) /\ Tree(from[pkg]) /\ from[pkg].dirs \subseteq {<<>>}
      BY <1>3, <2>1 DEF Inv, Walks, Commands, Disk, OnDisk, FlatStore
  <2>5. stack[1].path \in Paths /\ e.name \in Names /\ (e.dir => Append(stack[1].path, e.name) \in from[pkg].dirs)
      BY <2>2, <2>3, <2>4, CopyAtEntry
  <2> HIDE DEF e
  <2>6. Append(stack[1].path, e.name) # <<>>
      BY <2>5, Joined
  <2> QED
      BY <2>1, <2>3, <2>4, <2>5, <2>6
<1>8. CASE CopyReturns
    BY <1>2, <1>8 DEF CopyReturns
<1>9. CASE Pack
    BY <1>1, <1>9 DEF Pack, Finish
<1>10. CASE RemoveBegins
    BY <1>10 DEF RemoveBegins, Finish
<1>11. CASE RemoveFile
    BY <1>11 DEF RemoveFile, Removing, RemoveEnds, Finish
<1>12. CASE RemoveDir
  <2> DEFINE e == stack[1].own[stack[1].i]
  <2>1. Removing /\ op # "list" /\ AtEntry /\ Current.dir
      BY <1>12 DEF RemoveDir, Removing
  <2>2. Len(stack) = 1 /\ Chain(stack) /\ Own /\ 1 \in 1..Len(stack)
      BY <1>2, <2>1
  <2>3. Current = e /\ stack[1].i <= stack[1].n
      BY <2>1, <2>2, Here
  <2>4. Removes(stack, store[pkg]) /\ Tree(store[pkg]) /\ OnDisk(store[pkg], from[pkg], archive[pkg]) /\ pkg \in Packages
      BY <2>1, RemovingNow
  <2>5. store[pkg].dirs \subseteq {<<>>}
      BY <1>3, <2>4 DEF OnDisk, FlatStore
  <2>6. stack[1].path \in Paths /\ e.name \in Names /\ (e.dir => Append(stack[1].path, e.name) \in store[pkg].dirs)
      BY <2>2, <2>3, <2>4, RemoveAtEntry
  <2> HIDE DEF e
  <2>7. Append(stack[1].path, e.name) # <<>>
      BY <2>6, Joined
  <2> QED
      BY <2>1, <2>3, <2>5, <2>6, <2>7
<1>13. CASE RemoveReturns
  <2>1. op # "list" /\ AtEnd
      BY <1>13 DEF RemoveReturns, Removing
  <2>2. Len(stack) = 1
      BY <1>2, <2>1
  <2>3. ~(Len(stack) > 1)
      BY <2>2
  <2> QED
      BY <1>13, <2>3 DEF RemoveReturns, RemoveEnds, Finish
<1> QED
    BY <1>4, <1>5, <1>6, <1>7, <1>8, <1>9, <1>10, <1>11, <1>12, <1>13 DEF PresentSteps, RemoveSteps

\* What a directory of the store was made from: a source, or what a rebuild
\* has found.
LEMMA FromChanges ==
    ASSUME Inv, [Next]_vars
    PROVE  \/ from' = from
           \/ \E x \in Packages : \E src :
                /\ src \in Sources \/ (HasManifest(src) /\ src = store[x])
                /\ from' = [from EXCEPT ![x] = src]
<1>1. CASE PresentBegins
  <2>1. pkg' \in Packages /\ \E src \in Sources : from' = [from EXCEPT ![pkg'] = src]
      BY <1>1 DEF PresentBegins, Begin
  <2> QED
      BY <2>1
<1>2. CASE Rebuild
  <2>1. CASE RebuildBegins
      BY <2>1 DEF RebuildBegins
  <2>2. CASE Repack
    <3>1. pkg \in Packages /\ HasManifest(store[pkg])
        BY <2>2 DEF Repack, Inv, Commands, Walks
    <3>2. from' = from \/ from' = [from EXCEPT ![pkg] = store[pkg]]
        BY <2>2 DEF Repack
    <3> QED
        BY <3>1, <3>2
  <2> QED
      BY <1>2, <2>1, <2>2 DEF Rebuild
<1>3. CASE PresentRefused \/ CopyFile \/ CopyDir \/ CopyReturns \/ Pack
    BY <1>3 DEF PresentRefused, CopyFile, CopyDir, CopyReturns, Pack
<1>4. CASE RemoveSteps
    BY <1>4 DEF RemoveSteps, RemoveBegins, RemoveFile, RemoveDir, RemoveReturns
<1>5. CASE ListSteps
    BY <1>5 DEF ListSteps, ListBegins, ListSkips, ListReports, ListEnds
<1>6. CASE Crash \/ UNCHANGED vars
    BY <1>6 DEF Crash, vars
<1> QED
    BY <1>1, <1>2, <1>3, <1>4, <1>5, <1>6 DEF Next, PresentSteps

LEMMA FlatStays ==
    ASSUME Flat, Inv, FlatStore, [Next]_vars
    PROVE  FlatStore'
<1>1. CASE from' = from
    BY <1>1 DEF FlatStore
<1>2. ASSUME NEW x \in Packages, NEW src, src \in Sources \/ src = store[x],
             from' = [from EXCEPT ![x] = src]
      PROVE  FlatStore'
  <2>1. store[x].dirs \subseteq from[x].dirs /\ DOMAIN from = Packages
      BY DEF Inv, Disk, OnDisk
  <2>2. src.dirs \subseteq {<<>>}
      BY <1>2, <2>1 DEF Flat, FlatStore
  <2>3. \A p \in Packages : from'[p] = from[p] \/ from'[p] = src
      BY <1>2, <2>1
  <2> QED
      BY <2>2, <2>3 DEF FlatStore
<1> QED
    BY <1>1, <1>2, FromChanges

\* The listing's own steps.
LEMMA ListShared ==
    ASSUME SharedBuffer, ListingsFit, Inv, Shared, ListSteps
    PROVE  /\ buffer' \in Seq(AnyEntries) /\ Len(buffer') <= MaxEntries /\ reported' \in Seq(Packages)
           /\ op' = "list" => AtStore' /\ stack'[1].n <= Len(buffer')
           /\ op' # "list" => stack' = <<>>
<1>1. buffer \in Seq(AnyEntries) /\ Len(buffer) <= MaxEntries /\ reported \in Seq(Packages)
    BY DEF Shared
<1>2. CASE ListBegins
  <2>1. reported' = <<>> /\ op' = "list" /\ Enter(<<>>, RootKids, <<>>)
      BY <1>2 DEF ListBegins, Begin
  <2>2. PICK listing \in Listings(RootKids) : stack' = Append(<<>>, Frame(<<>>, listing))
      BY <2>1, Entering
  <2>3. /\ listing \in Seq(AnyEntries) /\ Len(listing) <= MaxEntries /\ Once(listing, Len(listing))
      BY RootListed, ListingWhole
  <2>4. Chain(stack') /\ Len(stack') = 1
      BY <2>2, <2>3, FirstCall
  <2>5. buffer' \in Seq(AnyEntries) /\ Len(buffer') <= MaxEntries /\ stack'[1].n <= Len(buffer')
      BY <1>1, <2>1, <2>4, RootEnters
  <2> QED
      BY <2>1, <2>4, <2>5 DEF AtStore
<1>3. ASSUME op = "list", AtEntry, NextEntry
      PROVE  AtStore' /\ stack'[1].n = stack[1].n /\ stack[1].n <= Len(buffer)
  <2>1. Chain(stack) /\ Len(stack) = 1 /\ stack[1].n <= Len(buffer)
      BY <1>3 DEF Shared, AtStore
  <2>2. stack[1].i <= stack[1].n
      BY <1>3, <2>1, Position
  <2>3. Chain(stack') /\ Len(stack') = 1 /\ Like(stack, stack', 1, stack[1].i + 1)
      BY <1>3, <2>1, <2>2, Advanced DEF NextEntry
  <2> QED
      BY <2>1, <2>3 DEF AtStore, Like
<1>4. CASE ListSkips
    BY <1>1, <1>3, <1>4 DEF ListSkips
<1>5. CASE ListReports
  <2>1. op = "list" /\ op' = op /\ AtEntry /\ NextEntry /\ Current.name \in Packages
        /\ reported' = Append(reported, Current.name)
      BY <1>5 DEF ListReports, IsPresented
  <2>2. PICK listing \in Listings(Kids(store[Current.name], <<>>)) : buffer' = Overlay(listing)
      BY <1>5 DEF ListReports
  <2>3. listing \in Seq(AnyEntries) /\ Len(listing) <= MaxEntries
    <3>1. Current.name \in Packages /\ IsPresented(Current.name)
        BY <1>5 DEF ListReports, IsPresented
    <3> QED
        BY <2>2, <3>1, ManifestListed
  <2>4. buffer' \in Seq(AnyEntries) /\ Len(buffer') <= MaxEntries /\ Len(buffer) <= Len(buffer')
      BY <1>1, <2>2, <2>3, Overlaid
  <2>5. reported' \in Seq(Packages)
      BY <1>1, <2>1
  <2>6. AtStore' /\ stack'[1].n = stack[1].n /\ stack[1].n <= Len(buffer)
      BY <1>3, <2>1
  <2>7. stack[1].n \in Nat /\ Len(buffer) \in Nat /\ Len(buffer') \in Nat
    <3>1. Len(buffer) \in Nat /\ Len(buffer') \in Nat
        BY <1>1, <2>4
    <3>2. Chain(stack) /\ Len(stack) = 1
        BY <2>1 DEF Shared, AtStore
    <3> QED
        BY <3>1, <3>2, Position
  <2>8. stack'[1].n <= Len(buffer')
      BY <2>4, <2>6, <2>7
  <2> QED
      BY <2>1, <2>4, <2>5, <2>6, <2>8
<1>6. CASE ListEnds
  <2>1. buffer' = <<>> /\ stack' = <<>> /\ op' = "idle" /\ reported' = reported
      BY <1>6 DEF ListEnds, Finish
  <2> QED
      BY <1>1, <2>1, EmptyArray
<1> QED
    BY <1>2, <1>4, <1>5, <1>6 DEF ListSteps

LEMMA SharedKeeps ==
    ASSUME SharedBuffer, Flat, ListingsFit, Inv, Inv', Shared, [Next]_vars
    PROVE  Shared'
<1>1. FlatStore'
    BY FlatStays DEF Shared
<1>2. buffer \in Seq(AnyEntries) /\ Len(buffer) <= MaxEntries /\ reported \in Seq(Packages)
    BY DEF Shared
<1>3. CASE PresentSteps \/ Rebuild \/ RemoveSteps \/ Crash
  <2>1. op' # "list" /\ reported' \in Seq(Packages)
      BY <1>2, <1>3, Quiet, NothingTold
  <2>2. CASE stack' = <<>> /\ (buffer' = buffer \/ buffer' = <<>>)
    <3>1. buffer' \in Seq(AnyEntries) /\ Len(buffer') <= MaxEntries
        BY <1>2, <2>2, EmptyArray
    <3> QED
        BY <1>1, <2>1, <2>2, <3>1 DEF Shared
  <2>3. CASE op # "list" /\ AtEntry /\ NextEntry /\ buffer' = buffer
    <3>1. stack # <<>> /\ OneCall
        BY <2>3 DEF Shared, AtEntry
    <3>2. Chain(stack) /\ Len(stack) = 1
        BY <2>3, <3>1, Chained DEF OneCall
    <3>3. stack[1].i <= stack[1].n
        BY <2>3, <3>2, Position
    <3>4. Len(stack') = 1 /\ Like(stack, stack', 1, stack[1].i + 1)
        BY <2>3, <3>2, <3>3, Advanced DEF NextEntry
    <3>5. OneCall'
        BY <2>3, <3>1, <3>4 DEF OneCall, Like
    <3> QED
        BY <1>1, <1>2, <2>1, <2>3, <3>5 DEF Shared
  <2>4. CASE \E kids : Enter(<<>>, kids, <<>>)
    <3>1. stack' # <<>>
        BY <2>4, Entering
    <3>2. Chain(stack')
        BY <2>1, <3>1, ChainedNext
    <3>3. buffer' \in Seq(AnyEntries) /\ Len(buffer') <= MaxEntries /\ OneCall'
        BY <1>2, <2>4, <3>2, RootEnters
    <3> QED
        BY <1>1, <2>1, <3>3 DEF Shared
  <2> QED
      BY <1>3, <2>2, <2>3, <2>4, WalkStep
<1>4. CASE ListSteps
    BY <1>1, <1>4, ListShared DEF Shared
<1>5. CASE UNCHANGED vars
    BY <1>5 DEF Shared, FlatStore, AtStore, OneCall, vars
<1> QED
    BY <1>3, <1>4, <1>5 DEF Next

-----------------------------------------------------------------------------
(* The behaviours.                                                         *)

Ports == IF SharedBuffer THEN Shared ELSE Told /\ buffer = <<>>

LEMMA PortsInit ==
    ASSUME Init
    PROVE  Ports
<1>1. /\ from = [p \in Packages |-> Empty] /\ Empty.dirs = {} /\ result = "none"
      /\ op = "idle" /\ stack = <<>> /\ buffer = <<>> /\ reported = <<>>
    BY DEF Init, Empty
<1>2. FlatStore
    BY <1>1 DEF FlatStore
<1>3. Told
    BY <1>1, NothingTold DEF Told
<1>4. Shared
    BY <1>1, <1>2, EmptyArray, NothingTold DEF Shared
<1> QED
    BY <1>1, <1>3, <1>4 DEF Ports

LEMMA PortsKeep ==
    ASSUME SharedBuffer => Flat, ListingsFit, Inv, Ports, [Next]_vars
    PROVE  Inv' /\ Ports'
<1>1. op # "list" => Own
    BY OwnPrivate, OwnShared DEF Ports
<1>2. Inv'
    BY <1>1, Keeps
<1>3. CASE SharedBuffer
    BY <1>2, <1>3, SharedKeeps DEF Ports
<1>4. CASE ~SharedBuffer
  <2>1. Told /\ buffer = <<>>
      BY <1>4 DEF Ports
  <2>2. Told' /\ buffer' = <<>>
      BY <1>4, <2>1, ToldKeeps, BufferUnused
  <2> QED
      BY <1>2, <1>4, <2>2 DEF Ports
<1> QED
    BY <1>2, <1>3, <1>4

LEMMA InvAlways ==
    ASSUME SharedBuffer => Flat, ListingsFit
    PROVE  Spec => [](Inv /\ Ports)
<1>1. Init => Inv /\ Ports
    BY InitInv, PortsInit
<1>2. Inv /\ Ports /\ [Next]_vars => Inv' /\ Ports'
    BY PortsKeep
<1> QED
    BY <1>1, <1>2, PTL DEF Spec

\* Where a directory of the store comes from, unless it was rebuilt: a
\* source.
Origins == \A p \in Packages : from[p] \in Sources \cup {Empty} \/ HasManifest(from[p])

LEMMA OriginsKept ==
    ASSUME Inv, Origins, [Next]_vars
    PROVE  Origins'
<1>1. CASE from' = from
    BY <1>1 DEF Origins
<1>2. ASSUME NEW x \in Packages, NEW src, src \in Sources \/ HasManifest(src),
             from' = [from EXCEPT ![x] = src]
      PROVE  Origins'
  <2>1. DOMAIN from = Packages
      BY DEF Inv, Disk
  <2>2. \A p \in Packages : from'[p] = from[p] \/ from'[p] = src
      BY <1>2, <2>1
  <2> QED
      BY <1>2, <2>2 DEF Origins, HasManifest
<1> QED
    BY <1>1, <1>2, FromChanges

LEMMA OriginsAlways ==
    ASSUME SharedBuffer => Flat, ListingsFit
    PROVE  Spec => []Origins
<1>1. Init => Origins
  <2> SUFFICES ASSUME Init PROVE Origins
      OBVIOUS
  <2>1. \A p \in Packages : from[p] = Empty
      BY DEF Init
  <2> QED
      BY <2>1 DEF Origins
<1>2. Inv /\ Origins /\ [Next]_vars => Origins'
    BY OriginsKept
<1> QED
    BY <1>1, <1>2, InvAlways, PTL DEF Spec

-----------------------------------------------------------------------------
(* The theorems: where no directory holds more entries than a listing, on  *)
(* the host port, whose every listing has an array of its own, and but for *)
(* the last on Minimal-OS, if no package has directories.                  *)

\* Every variable keeps its type, and no call of dlr_dir_each runs past its
\* array.
THEOREM TypesHold ==
    ASSUME SharedBuffer => Flat, ListingsFit
    PROVE  Spec => []TypeOK
<1>1. Inv /\ Ports /\ Origins => TypeOK
  <2> SUFFICES ASSUME Inv, Ports, Origins PROVE TypeOK
      OBVIOUS
  <2>1. \A p \in Packages : DOMAIN store[p] = {"dirs", "files"}
    <3> TAKE p \in Packages
    <3>1. store[p] = [dirs |-> store[p].dirs, files |-> store[p].files]
        BY DEF Inv, Disk, OnDisk, Tree, Shaped
    <3> DEFINE dirs == store[p].dirs  files == store[p].files
    <3>2. store[p] = [dirs |-> dirs, files |-> files]
        BY <3>1
    <3> HIDE DEF dirs, files
    <3>3. DOMAIN [dirs |-> dirs, files |-> files] = {"dirs", "files"}
        OBVIOUS
    <3> QED
        BY <3>2, <3>3
  <2>2. ASSUME NEW k \in 1..Len(stack)
        PROVE  stack[k].n \in 0..MaxEntries /\ stack[k].i \in 1..(stack[k].n + 1)
    <3>1. stack = <<>> \/ Chain(stack)
        BY Chained DEF Ports, Told, Lists, AtStore, Shared
    <3>2. stack # <<>>
        OBVIOUS
    <3> QED
        BY <3>1, <3>2 DEF Chain
  <2>3. Len(buffer) <= MaxEntries
    <3>1. CASE SharedBuffer
        BY <3>1 DEF Ports, Shared
    <3>2. CASE ~SharedBuffer
      <4>1. Len(buffer) = 0
          BY <3>2 DEF Ports
      <4> QED
          BY <4>1, BoundsAssumption
    <3> QED
        BY <3>1, <3>2
  <2>4. ToSet(reported) \subseteq Packages
      BY DEF Ports, Told, Shared, ToSet
  <2>5. /\ pkg \in Packages /\ ops \in 0..MaxOps /\ result \in Results /\ spoiled \in BOOLEAN
        /\ op \in {"idle", "copy", "pack", "undo", "repack", "remove", "list"}
      BY DEF Inv, Commands
  <2> QED
      BY <2>1, <2>2, <2>3, <2>4, <2>5 DEF TypeOK, Origins
<1> QED
    BY <1>1, InvAlways, OriginsAlways, PTL

\* A package that clients can be given is whole: the recursive copy_tree has
\* left no file out when build_archive packs the directory, and a half-done
\* directory is only ever packed by a rebuild, which archives all that is
\* there.
THEOREM OffersAreWhole ==
    ASSUME SharedBuffer => Flat, ListingsFit
    PROVE  Spec => []OfferedIsWhole
<1>1. Inv => OfferedIsWhole
    BY DEF Inv, Disk, OnDisk, OfferedIsWhole
<1> QED
    BY <1>1, InvAlways, PTL

\* A dlr_reg_present that fails, at whatever entry of whatever directory,
\* has removed all it made when it returns, if deleting worked.
THEOREM FailuresLeaveNothing ==
    ASSUME SharedBuffer => Flat, ListingsFit
    PROVE  Spec => []FailedLeavesNothing
<1>1. Inv => FailedLeavesNothing
    BY DEF Inv, Walks, FailedLeavesNothing
<1> QED
    BY <1>1, InvAlways, PTL

\* dlr_reg_remove leaves nothing of a package, whatever state an earlier
\* command left it in, if deleting worked: remove_tree misses no entry and
\* goes as deep as copy_tree ever went.
THEOREM RemovalsAreComplete ==
    ASSUME SharedBuffer => Flat, ListingsFit
    PROVE  Spec => []RemovedIsGone
<1>1. Inv => RemovedIsGone
    BY DEF Inv, Walks, RemovedIsGone
<1> QED
    BY <1>1, InvAlways, PTL

\* dlr_reg_search calls back once for every presented package and for
\* nothing else, if each call has an array of its own.
THEOREM ListingsAreExact ==
    ASSUME ~SharedBuffer, ListingsFit
    PROVE  Spec => []ListIsExact
<1>1. Ports => ListIsExact
    BY DEF Ports, Told, ListIsExact
<1> QED
    BY <1>1, InvAlways, PTL
=============================================================================
