---------------------------- MODULE MemFSProofs ----------------------------
(***************************************************************************)
(* The inode table of memfs, for every number of inodes, names and links:  *)
(* the directories form a tree, every link is counted, the entries are     *)
(* consistent, and a listing is exact although the directory changes.      *)
(***************************************************************************)
EXTENDS MemFS, FiniteSetTheorems, TLAPS

-----------------------------------------------------------------------------
(* The entries of one directory *)

\* An entry without a type has no name, and the other way round.
EntriesOK(es) ==
    /\ es \in Seq(Dirents)
    /\ \A k \in DOMAIN es : es[k].type = "DT_Unknown" <=> es[k].name = NoName

\* A nonempty set of natural numbers has a least element.
LEMMA LeastNatural ==
    ASSUME NEW S \in SUBSET Nat, S # {}
    PROVE  \E n \in S : \A m \in S : n <= m
<1>1. PICK n \in S : \A m \in S : ~ (<<m, n>> \in OpToRel(<, Nat))
  BY NatLessThanWellFounded, WFMin, Zenon
<1>2. ASSUME NEW m \in S, m < n PROVE FALSE
  <2>1. <<m, n>> \in Nat \X Nat /\ <<m, n>>[1] < <<m, n>>[2]
    BY <1>2, Zenon
  <2>2. <<m, n>> \in {ss \in Nat \X Nat : ss[1] < ss[2]}
    BY <2>1, Zenon
  <2> QED
    BY <1>1, <2>2, Zenon DEF OpToRel
<1> QED
  BY <1>2

\* Min of FiniteSetsExt is that element.
LEMMA MinOfNaturals ==
    ASSUME NEW S \in SUBSET Nat, S # {}
    PROVE  Min(S) \in S /\ \A m \in S : Min(S) <= m
BY LeastNatural, Zenon DEF Min

\* A nonempty set of natural numbers with an upper bound has a greatest one, Max.
LEMMA MaxOfNaturals ==
    ASSUME NEW S \in SUBSET Nat, S # {}, NEW b \in Nat, \A m \in S : m <= b
    PROVE  Max(S) \in S /\ \A m \in S : Max(S) >= m
<1> DEFINE T == {b - m : m \in S}
<1>0. \A m \in S : m \in Nat /\ b - m \in Nat
  OBVIOUS
<1>1. T \in SUBSET Nat /\ T # {}
  BY <1>0, Zenon
<1>2. PICK t \in T : \A u \in T : t <= u
  BY <1>1, LeastNatural, Zenon
<1>3. PICK x \in S : t = b - x
  BY <1>2, Zenon
<1>4. ASSUME NEW m \in S PROVE x >= m
  <2>1. b - x <= b - m
    BY <1>2, <1>3, Zenon
  <2> QED
    BY <1>0, <2>1
<1> QED
  BY <1>4, Zenon DEF Max

\* The used indices are indices.
LEMMA UsedAreIndices ==
    ASSUME NEW es, EntriesOK(es)
    PROVE  /\ Used(es) \subseteq DOMAIN es /\ DOMAIN es \subseteq Nat \ {0}
           /\ \A k \in DOMAIN es : es[k] \in Dirents /\ k <= Len(es)
           /\ \A k \in Used(es) : es[k].name \in Names
<1>1. DOMAIN es = 1 .. Len(es) /\ Len(es) \in Nat
  BY DEF EntriesOK
<1>2. \A k \in DOMAIN es : es[k] \in Dirents
  BY DEF EntriesOK
<1>3. \A k \in Used(es) : es[k].name \in Names
  <2>1. \A k \in DOMAIN es : es[k].name \in Names \cup {NoName}
    BY <1>2, Zenon DEF Dirents
  <2> QED
    BY <2>1, Zenon DEF EntriesOK, Used
<1> QED
  BY <1>1, <1>2, <1>3 DEF Used

\* findChild: the index of a used entry with the name, or 0 if no used entry has it.
LEMMA FoundChild ==
    ASSUME NEW es, EntriesOK(es), NEW n \in Names
    PROVE  /\ findChild(es, n) = 0 => \A k \in Used(es) : es[k].name # n
           /\ findChild(es, n) # 0 => findChild(es, n) \in Used(es) /\ es[findChild(es, n)].name = n
<1> DEFINE found == {i \in DOMAIN es : es[i].name = n}
<1>1. found \subseteq Used(es)
  BY MemFSAssumption, Zenon DEF EntriesOK, Used
<1>2. found \in SUBSET Nat /\ 0 \notin found
  BY UsedAreIndices
<1>3. findChild(es, n) = IF found = {} THEN 0 ELSE Min(found)
  BY Zenon DEF findChild
<1>4. CASE found = {}
  BY <1>3, <1>4, UsedAreIndices, Zenon
<1>5. CASE found # {}
  <2>1. Min(found) \in found
    BY <1>2, <1>5, MinOfNaturals, Zenon
  <2> QED
    BY <1>1, <1>2, <1>3, <1>5, <2>1, Zenon
<1> QED
  BY <1>4, <1>5, Zenon

\* AddChild takes an index that is not used and leaves the others alone.
LEMMA ChildAdded ==
    ASSUME NEW es, EntriesOK(es), NEW id \in IDs, NEW n \in Names,
           NEW t \in DirentTypes \ {"DT_Unknown"}
    PROVE  \E k \in Nat :
             /\ k \notin Used(es)
             /\ EntriesOK(AddChild(es, id, n, t))
             /\ Used(AddChild(es, id, n, t)) = Used(es) \cup {k}
             /\ AddChild(es, id, n, t)[k] = [ino |-> id, name |-> n, type |-> t]
             /\ \A j \in Used(es) : AddChild(es, id, n, t)[j] = es[j]
<1> DEFINE e == [ino |-> id, name |-> n, type |-> t]
           gaps == DOMAIN es \ Used(es)
<1>1. e \in Dirents /\ e.name = n /\ e.type = t /\ n # NoName /\ t # "DT_Unknown"
  BY MemFSAssumption DEF Dirents
<1> HIDE DEF e
<1>2. AddChild(es, id, n, t) = IF gaps = {} THEN Append(es, e) ELSE [es EXCEPT ![Min(gaps)] = e]
  BY Zenon DEF AddChild, e
<1>3. CASE gaps = {}
  <2> DEFINE k == Len(es) + 1
             new == Append(es, e)
  <2>0. es \in Seq(Dirents) /\ Len(es) \in Nat /\ DOMAIN es = 1 .. Len(es)
    BY DEF EntriesOK
  <2>1. new \in Seq(Dirents) /\ DOMAIN new = 1 .. k /\ new[k] = e /\ \A j \in 1 .. Len(es) : new[j] = es[j]
    BY <1>1, <2>0
  <2>2. DOMAIN new = DOMAIN es \cup {k} /\ k \notin DOMAIN es /\ k \in Nat
    BY <2>0, <2>1
  <2> HIDE DEF k, new
  <2>3. \A j \in DOMAIN es : new[j] = es[j]
    BY <2>0, <2>1, Zenon
  <2>4. EntriesOK(new) /\ Used(new) = Used(es) \cup {k}
    BY <1>1, <2>1, <2>2, <2>3, Zenon DEF EntriesOK, Used
  <2>5. k \notin Used(es) /\ \A j \in Used(es) : new[j] = es[j]
    BY <2>2, <2>3, Zenon DEF Used
  <2>6. AddChild(es, id, n, t) = new
    BY <1>2, <1>3, Zenon DEF new
  <2> QED
    BY <2>1, <2>2, <2>4, <2>5, <2>6, Zenon DEF e
<1>4. CASE gaps # {}
  <2> DEFINE k == Min(gaps)
             new == [es EXCEPT ![k] = e]
  <2>0. gaps \in SUBSET Nat
    BY UsedAreIndices
  <2>1. k \in gaps
    BY <1>4, <2>0, MinOfNaturals, Zenon
  <2> HIDE DEF k
  <2>2. new \in Seq(Dirents) /\ DOMAIN new = DOMAIN es /\ new[k] = e
        /\ \A j \in DOMAIN es : j # k => new[j] = es[j]
    BY <1>1, <2>1 DEF EntriesOK
  <2> HIDE DEF new
  <2>4. EntriesOK(new) /\ Used(new) = Used(es) \cup {k}
    BY <1>1, <2>1, <2>2, ZenonT(40) DEF EntriesOK, Used
  <2>5. k \notin Used(es) /\ k \in Nat
    BY <2>0, <2>1, Zenon
  <2>6. \A j \in Used(es) : new[j] = es[j]
    BY <2>2, <2>5, Zenon DEF Used
  <2>7. AddChild(es, id, n, t) = new
    BY <1>2, <1>4, Zenon DEF new, k
  <2> QED
    BY <2>2, <2>4, <2>5, <2>6, <2>7, Zenon DEF e
<1> QED
  BY <1>3, <1>4, Zenon

\* AddChild keeps the array in order.
LEMMA AddedOK ==
    ASSUME NEW es, EntriesOK(es), NEW id \in IDs, NEW n \in Names,
           NEW t \in DirentTypes \ {"DT_Unknown"}
    PROVE  EntriesOK(AddChild(es, id, n, t))
BY ChildAdded, Zenon

\* RemoveChild frees the index of the name and leaves the others alone.
LEMMA ChildRemoved ==
    ASSUME NEW es, EntriesOK(es), NEW n, findChild(es, n) \in Used(es)
    PROVE  /\ EntriesOK(RemoveChild(es, n))
           /\ Used(RemoveChild(es, n)) = Used(es) \ {findChild(es, n)}
           /\ \A j \in Used(es) \ {findChild(es, n)} : RemoveChild(es, n)[j] = es[j]
<1> DEFINE k == findChild(es, n)
           new == [es EXCEPT ![k] = Unused]
<1>1. Unused \in Dirents /\ Unused.type = "DT_Unknown" /\ Unused.name = NoName
  BY DEF Unused, Dirents, DirentTypes
<1>2. k \in DOMAIN es
  BY Zenon DEF Used
<1> HIDE DEF k
<1>3. new \in Seq(Dirents) /\ DOMAIN new = DOMAIN es /\ new[k] = Unused
      /\ \A j \in DOMAIN es : j # k => new[j] = es[j]
  BY <1>1, <1>2 DEF EntriesOK
<1> HIDE DEF new
<1>4. EntriesOK(new) /\ Used(new) = Used(es) \ {k}
  BY <1>1, <1>2, <1>3, Zenon DEF EntriesOK, Used
<1>5. \A j \in Used(es) \ {k} : new[j] = es[j]
  BY <1>3, Zenon DEF Used
<1>6. RemoveChild(es, n) = new
  BY Zenon DEF RemoveChild, new, k
<1> QED
  BY <1>4, <1>5, <1>6, Zenon DEF k

-----------------------------------------------------------------------------
(* The table *)

InodeRecords == [kind : Kinds, nlink : Nat, entries : Seq(Dirents)]

\* The table with other entries for p, and with another link count for c.
WithEntries(T, p, es) == [T EXCEPT ![p].entries = es]
WithNlink(T, c, x) == [T EXCEPT ![c].nlink = x]

EntriesSet(T, p, es, new) ==
    /\ new \in Seq(InodeRecords) /\ Len(new) = Len(T) /\ DOMAIN new = DOMAIN T
    /\ new[p].entries = es
    /\ \A i \in DOMAIN T : i # p => new[i] = T[i]
    /\ \A i \in DOMAIN T : new[i].kind = T[i].kind /\ new[i].nlink = T[i].nlink

NlinkSet(T, c, x, new) ==
    /\ new \in Seq(InodeRecords) /\ Len(new) = Len(T) /\ DOMAIN new = DOMAIN T
    /\ new[c].nlink = x
    /\ \A i \in DOMAIN T : i # c => new[i] = T[i]
    /\ \A i \in DOMAIN T : new[i].kind = T[i].kind /\ new[i].entries = T[i].entries

\* Replacing the entries of one inode.
LEMMA SetEntries ==
    ASSUME NEW T, NEW p \in DOMAIN T, NEW es, T \in Seq(InodeRecords), es \in Seq(Dirents),
           NEW new, new = WithEntries(T, p, es)
    PROVE  EntriesSet(T, p, es, new)
<1> USE DEF EntriesSet
<1>1. PICK r \in InodeRecords : r = T[p]
  OBVIOUS
<1> DEFINE s == [r EXCEPT !.entries = es]
<1>2. s \in InodeRecords /\ s.entries = es /\ s.kind = r.kind /\ s.nlink = r.nlink
  BY Zenon DEF InodeRecords
<1>3. new = [T EXCEPT ![p] = s]
  BY <1>1, Zenon DEF WithEntries
<1> HIDE DEF s
<1> QED
  BY <1>1, <1>2, <1>3

\* Setting the link count of one inode.
LEMMA SetNlink ==
    ASSUME NEW T, NEW c \in DOMAIN T, NEW x, T \in Seq(InodeRecords), x \in Nat,
           NEW new, new = WithNlink(T, c, x)
    PROVE  NlinkSet(T, c, x, new)
<1> USE DEF NlinkSet
<1>1. PICK r \in InodeRecords : r = T[c]
  OBVIOUS
<1> DEFINE s == [r EXCEPT !.nlink = x]
<1>2. s \in InodeRecords /\ s.nlink = x /\ s.kind = r.kind /\ s.entries = r.entries
  BY Zenon DEF InodeRecords
<1>3. new = [T EXCEPT ![c] = s]
  BY <1>1, Zenon DEF WithNlink
<1> HIDE DEF s
<1> QED
  BY <1>1, <1>2, <1>3

\* The links to i in a table, as places: the inode and the index of a used entry.
Links(T, i) ==
    UNION {{<<p, k>> : k \in {k \in Used(T[p].entries) : T[p].entries[k].ino = i}} : p \in DOMAIN T}

\* The place of entry k of p.
Place(p, k) == <<p, k>>

\* Places are different if the inode or the index is.
LEMMA PlacesDiffer == \A p, k, q, j : Place(p, k) = Place(q, j) <=> p = q /\ k = j
BY DEF Place

\* A link to i is the place of a used entry that refers to i.
LEMMA LinkIsPlace ==
    ASSUME NEW T, NEW i
    PROVE  /\ \A p, k : Place(p, k) \in Links(T, i) <=>
                          p \in DOMAIN T /\ k \in Used(T[p].entries) /\ T[p].entries[k].ino = i
           /\ \A l \in Links(T, i) : \E p, k : l = Place(p, k)
<1> DEFINE At(q) == {Place(q, j) : j \in {j \in Used(T[q].entries) : T[q].entries[j].ino = i}}
<1>1. Links(T, i) = UNION {At(q) : q \in DOMAIN T}
  BY Zenon DEF Links, Place
<1>2. \A q, l : l \in At(q) <=> \E j \in Used(T[q].entries) : l = Place(q, j) /\ T[q].entries[j].ino = i
  BY Zenon
<1> HIDE DEF At
<1>3. \A l : l \in Links(T, i) <=> \E q \in DOMAIN T : l \in At(q)
  BY <1>1, Zenon
<1>4. ASSUME NEW p, NEW k, Place(p, k) \in Links(T, i)
      PROVE  p \in DOMAIN T /\ k \in Used(T[p].entries) /\ T[p].entries[k].ino = i
  <2>1. PICK q \in DOMAIN T : Place(p, k) \in At(q)
    BY <1>3, <1>4, Zenon
  <2>2. PICK j \in Used(T[q].entries) : Place(p, k) = Place(q, j) /\ T[q].entries[j].ino = i
    BY <1>2, <2>1, Zenon
  <2>3. p = q /\ k = j
    BY <2>2, PlacesDiffer
  <2> QED
    BY <2>2, <2>3, Zenon
<1>5. ASSUME NEW p, NEW k, p \in DOMAIN T, k \in Used(T[p].entries), T[p].entries[k].ino = i
      PROVE  Place(p, k) \in Links(T, i)
  BY <1>2, <1>3, <1>5, Zenon
<1>6. ASSUME NEW l \in Links(T, i) PROVE \E p, k : l = Place(p, k)
  BY <1>2, <1>3
<1> QED
  BY <1>4, <1>5, <1>6, Zenon

\* Every link is a place.
LEMMA LinksArePlaces == \A T, i : \A l \in Links(T, i) : \E p, k : l = Place(p, k)
BY LinkIsPlace

\* LinksTo is Links of the table.
LEMMA LinksOfTable == \A i : LinksTo(i) = Links(inodes, i)
BY Zenon DEF LinksTo, Links, Allocated

\* A set of inodes that has the parents of its inodes.
UpClosed(T, S) ==
    S \in SUBSET (DOMAIN T) /\ \A i \in S : \A p, k : Place(p, k) \in Links(T, i) => p \in S

\* What Within asks for.
LEMMA WithinIs == \A p, d : Within(p, d) <=> \A S : UpClosed(inodes, S) /\ p \in S => d \in S
<1>1. \A S : Parents(S) = {l[1] : l \in UNION {Links(inodes, i) : i \in S}}
  BY LinksOfTable, Zenon DEF Parents
<1>2. ASSUME NEW S PROVE Parents(S) \subseteq S <=> \A i \in S : \A p, k : Place(p, k) \in Links(inodes, i) => p \in S
  <2>0. \A p, k : Place(p, k)[1] = p
    BY DEF Place
  <2>1. ASSUME Parents(S) \subseteq S, NEW i \in S, NEW p, NEW k, Place(p, k) \in Links(inodes, i) PROVE p \in S
    <3>1. Place(p, k) \in UNION {Links(inodes, j) : j \in S}
      BY <2>1, Zenon
    <3>2. Place(p, k)[1] \in Parents(S)
      BY <1>1, <3>1, Zenon
    <3> QED
      BY <2>0, <2>1, <3>2, Zenon
  <2>2. ASSUME \A i \in S : \A p, k : Place(p, k) \in Links(inodes, i) => p \in S PROVE Parents(S) \subseteq S
    <3> SUFFICES ASSUME NEW l \in UNION {Links(inodes, i) : i \in S} PROVE l[1] \in S
      BY <1>1, Zenon
    <3>1. PICK i \in S : l \in Links(inodes, i)
      BY Zenon
    <3>2. PICK p, k : l = Place(p, k)
      BY <3>1, LinkIsPlace
    <3> QED
      BY <2>0, <2>2, <3>1, <3>2, Zenon
  <2> QED
    BY <2>1, <2>2, Zenon
<1>3. \A S : UpClosed(inodes, S) <=> S \in SUBSET Allocated /\ Parents(S) \subseteq S
  BY <1>2, Zenon DEF UpClosed, Allocated
<1> QED
  BY <1>3, Zenon DEF Within

-----------------------------------------------------------------------------
(* The invariant of the table *)

Root == RootInodeID

\* Types, and the entries of each inode by themselves.
Shape(T) ==
    /\ T \in Seq(InodeRecords) /\ Len(T) \in 1 .. MaxInodes /\ T[Root].kind = "dir"
    /\ \A p \in DOMAIN T :
         /\ EntriesOK(T[p].entries) /\ (T[p].kind # "dir" => T[p].entries = << >>)
         /\ \A j, k \in Used(T[p].entries) : T[p].entries[j].name = T[p].entries[k].name => j = k

\* What the entries refer to.
Refs(T) ==
    \A p \in DOMAIN T : \A k \in Used(T[p].entries) :
      /\ T[p].entries[k].ino \in DOMAIN T \ {Root}
      /\ T[p].entries[k].type = "DT_Directory" <=> T[T[p].entries[k].ino].kind = "dir"

\* The links can be counted, and none is uncounted.
Counted(T) ==
    \A i \in DOMAIN T :
      /\ IsFiniteSet(Links(T, i))
      /\ i # Root => Cardinality(Links(T, i)) <= T[i].nlink

\* d is the root or below it.
UnderRoot(T, d) == \A S : UpClosed(T, S) /\ d \in S => Root \in S

\* A directory has one link at most; if it has one it is below the root, else it is empty.
Tree(T) ==
    \A d \in DOMAIN T : T[d].kind = "dir" =>
      /\ \A l, m \in Links(T, d) : l = m
      /\ Links(T, d) # {} => UnderRoot(T, d)
      /\ d # Root /\ Links(T, d) = {} => Used(T[d].entries) = {}

Sound(T) == Shape(T) /\ Refs(T) /\ Counted(T) /\ Tree(T)

\* The used entry k of p is there and not among the places R.
Kept(T, R, p, k) == p \in DOMAIN T /\ k \in Used(T[p].entries) /\ Place(p, k) \notin R

\* U is T without the entries at the places R, with e at the places A: a name that p did
\* not have, or no longer has.
Edited(T, U, R, A, e) ==
    /\ U \in Seq(InodeRecords) /\ Len(U) \in 1 .. MaxInodes /\ DOMAIN T \subseteq DOMAIN U
    /\ \A p \in DOMAIN T : U[p].kind = T[p].kind
    /\ \A p \in DOMAIN U : EntriesOK(U[p].entries) /\ (U[p].kind # "dir" => U[p].entries = << >>)
    /\ \A p \in DOMAIN U : \A k : k \in Used(U[p].entries) <=> Place(p, k) \in A \/ Kept(T, R, p, k)
    /\ \A p, k : Kept(T, R, p, k) => U[p].entries[k] = T[p].entries[k]
    /\ \A p, k : Place(p, k) \in A =>
         /\ p \in DOMAIN T /\ U[p].entries[k] = e
         /\ \A j : Place(p, j) \in A => j = k
         /\ e.ino \in DOMAIN U \ {Root} /\ (e.type = "DT_Directory" <=> U[e.ino].kind = "dir")
         /\ \A j \in Used(T[p].entries) :
              T[p].entries[j].name = e.name => Place(p, j) \in R /\ T[p].entries[j].ino # e.ino

\* The links after an edit.
LEMMA EditedLinks ==
    ASSUME NEW T, NEW U, NEW R, NEW A, NEW e, Edited(T, U, R, A, e)
    PROVE  \A i, p, k : Place(p, k) \in Links(U, i) <=>
                          \/ Place(p, k) \in A /\ e.ino = i
                          \/ Place(p, k) \in Links(T, i) /\ Place(p, k) \notin R
<1> SUFFICES ASSUME NEW i, NEW p, NEW k
             PROVE  Place(p, k) \in Links(U, i) <=>
                          \/ Place(p, k) \in A /\ e.ino = i
                          \/ Place(p, k) \in Links(T, i) /\ Place(p, k) \notin R
  BY Zenon
<1>1. Place(p, k) \in Links(U, i) <=> p \in DOMAIN U /\ k \in Used(U[p].entries) /\ U[p].entries[k].ino = i
  BY LinkIsPlace
<1>2. Place(p, k) \in Links(T, i) <=> p \in DOMAIN T /\ k \in Used(T[p].entries) /\ T[p].entries[k].ino = i
  BY LinkIsPlace
<1>3. p \in DOMAIN T => p \in DOMAIN U
  BY Zenon DEF Edited
<1>4. p \in DOMAIN U => (k \in Used(U[p].entries) <=> Place(p, k) \in A \/ Kept(T, R, p, k))
  BY Zenon DEF Edited
<1>5. Kept(T, R, p, k) => U[p].entries[k] = T[p].entries[k]
  BY Zenon DEF Edited
<1>6. Place(p, k) \in A => p \in DOMAIN T /\ U[p].entries[k] = e
  BY Zenon DEF Edited
<1> QED
  BY <1>1, <1>2, <1>3, <1>4, <1>5, <1>6, Zenon DEF Kept

\* An edit keeps the entries of each inode in shape, and what they refer to.
LEMMA EditedShape ==
    ASSUME NEW T, NEW U, NEW R, NEW A, NEW e, Edited(T, U, R, A, e), Shape(T), Refs(T)
    PROVE  Shape(U) /\ Refs(U)
<1>0. Root \in DOMAIN T /\ DOMAIN T \subseteq DOMAIN U
  BY DEF Shape, Edited, Root, RootInodeID
<1>1. U[Root].kind = "dir"
  BY <1>0, Zenon DEF Edited, Shape
<1>2. ASSUME NEW p \in DOMAIN U, NEW j \in Used(U[p].entries), NEW k \in Used(U[p].entries),
             U[p].entries[j].name = U[p].entries[k].name
      PROVE  j = k
  <2>1. /\ Place(p, j) \in A \/ Kept(T, R, p, j)
        /\ Place(p, k) \in A \/ Kept(T, R, p, k)
    BY Zenon DEF Edited
  <2>2. CASE Kept(T, R, p, j) /\ Kept(T, R, p, k)
    BY <1>2, <2>2 DEF Edited, Kept, Shape
  <2>3. CASE Place(p, j) \in A /\ Kept(T, R, p, k)
    BY <1>2, <2>3 DEF Edited, Kept
  <2>4. CASE Place(p, k) \in A /\ Kept(T, R, p, j)
    BY <1>2, <2>4 DEF Edited, Kept
  <2>5. CASE Place(p, j) \in A /\ Place(p, k) \in A
    BY <2>5, Zenon DEF Edited
  <2> QED
    BY <2>1, <2>2, <2>3, <2>4, <2>5, Zenon
<1>3. ASSUME NEW p \in DOMAIN U, NEW k \in Used(U[p].entries)
      PROVE  /\ U[p].entries[k].ino \in DOMAIN U \ {Root}
             /\ U[p].entries[k].type = "DT_Directory" <=> U[U[p].entries[k].ino].kind = "dir"
  <2>1. Place(p, k) \in A \/ Kept(T, R, p, k)
    BY Zenon DEF Edited
  <2>2. CASE Place(p, k) \in A
    BY <2>2, Zenon DEF Edited
  <2>3. CASE Kept(T, R, p, k)
    <3>1. U[p].entries[k] = T[p].entries[k] /\ p \in DOMAIN T /\ k \in Used(T[p].entries)
      BY <2>3, ZenonT(40) DEF Edited, Kept
    <3>2. U[p].entries[k].ino \in DOMAIN T \ {Root}
      BY <3>1, Zenon DEF Refs
    <3>3. U[U[p].entries[k].ino].kind = T[U[p].entries[k].ino].kind
      BY <3>2, Zenon DEF Edited
    <3> QED
      BY <1>0, <3>1, <3>2, <3>3, ZenonT(40) DEF Refs
  <2> QED
    BY <2>1, <2>2, <2>3, Zenon
<1> QED
  BY <1>1, <1>2, <1>3, Zenon DEF Shape, Refs, Edited

\* The same as sets, if A is a set of places.
LEMMA EditedLinkSets ==
    ASSUME NEW T, NEW U, NEW R, NEW A, NEW e, Edited(T, U, R, A, e),
           \A a \in A : \E p, k : a = Place(p, k)
    PROVE  \A i : Links(U, i) = (Links(T, i) \ R) \cup (IF e.ino = i THEN A ELSE {})
<1> SUFFICES ASSUME NEW i PROVE Links(U, i) = (Links(T, i) \ R) \cup (IF e.ino = i THEN A ELSE {})
  BY Zenon
<1>1. ASSUME NEW l \in Links(U, i) PROVE l \in (Links(T, i) \ R) \cup (IF e.ino = i THEN A ELSE {})
  <2>1. PICK p, k : l = Place(p, k)
    BY LinksArePlaces
  <2> QED
    BY <2>1, EditedLinks
<1>2. ASSUME NEW l \in Links(T, i), l \notin R PROVE l \in Links(U, i)
  <2>1. PICK p, k : l = Place(p, k)
    BY LinksArePlaces
  <2> QED
    BY <1>2, <2>1, EditedLinks
<1>3. ASSUME NEW l \in A, e.ino = i PROVE l \in Links(U, i)
  <2>1. PICK p, k : l = Place(p, k)
    BY Zenon
  <2> QED
    BY <1>3, <2>1, EditedLinks
<1> QED
  BY <1>1, <1>2, <1>3, Zenon

-----------------------------------------------------------------------------
(* The tree *)

\* A parent is in the table.
LEMMA ParentsAllocated == \A T, i, p, k : Place(p, k) \in Links(T, i) => p \in DOMAIN T
BY LinkIsPlace

\* The way from d to the root is still there in U, if no inode on it lost a link: W has the
\* inodes of S that may be on it.
LEMMA Climb ==
    ASSUME NEW T, NEW U, NEW S, UpClosed(U, S), NEW W \in SUBSET (S \cap DOMAIN T),
           \A i \in W : Links(T, i) \subseteq Links(U, i),
           \A i \in W : \A p, k : Place(p, k) \in Links(T, i) /\ p \in S => p \in W,
           NEW d \in W, UnderRoot(T, d)
    PROVE  Root \in S
<1>1. ASSUME NEW i \in W, NEW p, NEW k, Place(p, k) \in Links(T, i) PROVE p \in W
  <2>1. Place(p, k) \in Links(U, i)
    BY <1>1, Zenon
  <2>2. p \in S
    BY <2>1, Zenon DEF UpClosed
  <2> QED
    BY <1>1, <2>2, Zenon
<1>2. UpClosed(T, W)
  BY <1>1, Zenon DEF UpClosed
<1> QED
  BY <1>2, Zenon DEF UnderRoot

\* Only what has used entries is a parent.
LEMMA EmptyIsNoParent ==
    ASSUME NEW T, NEW c, Used(T[c].entries) = {}
    PROVE  \A i, p, k : Place(p, k) \in Links(T, i) => p \notin {c}
BY LinkIsPlace

\* A set of one element counts as one.
LEMMA Singletons == \A x : IsFiniteSet({x}) /\ Cardinality({x}) = 1
BY FS_Singleton, Zenon

\* Link counts are numbers, and so are the numbers of links.
LEMMA CountsAreNumbers ==
    ASSUME NEW T, Shape(T), Counted(T)
    PROVE  \A i \in DOMAIN T : T[i].nlink \in Nat /\ Cardinality(Links(T, i)) \in Nat
<1>1. \A i \in DOMAIN T : T[i] \in InodeRecords
  BY DEF Shape
<1>2. \A i \in DOMAIN T : Cardinality(Links(T, i)) \in Nat
  BY FS_CardinalityType, Zenon DEF Counted
<1> QED
  BY <1>1, <1>2, Zenon DEF InodeRecords

\* A link to a new inode, or one more to something that is no directory.
LEMMA LinkAdded ==
    ASSUME NEW T, NEW U, NEW p, NEW k, NEW e, Sound(T), Edited(T, U, {}, {Place(p, k)}, e),
           p \in DOMAIN T, T[p].kind = "dir", p = Root \/ Links(T, p) # {},
           DOMAIN U = DOMAIN T \cup {e.ino},
           \A i \in DOMAIN T \ {e.ino} : U[i].nlink = T[i].nlink,
           IF e.ino \in DOMAIN T THEN T[e.ino].kind # "dir" /\ U[e.ino].nlink = T[e.ino].nlink + 1
           ELSE U[e.ino].nlink = 1
    PROVE  Sound(U)
<1>0. Shape(T) /\ Refs(T) /\ Counted(T) /\ Tree(T)
  BY Zenon DEF Sound
<1>1. Shape(U) /\ Refs(U)
  BY <1>0, EditedShape, Zenon
<1>2. \A i : Links(U, i) = (Links(T, i) \ {}) \cup (IF e.ino = i THEN {Place(p, k)} ELSE {})
  BY EditedLinkSets
<1>3. \A i : i # e.ino => Links(U, i) = Links(T, i)
  BY <1>2, Zenon
<1>4. Links(U, e.ino) = Links(T, e.ino) \cup {Place(p, k)}
  BY <1>2, Zenon
<1>5. e.ino \notin DOMAIN T => Links(T, e.ino) = {}
  <2> SUFFICES ASSUME e.ino \notin DOMAIN T, NEW l \in Links(T, e.ino) PROVE FALSE
    BY Zenon
  <2>1. PICK q, j : l = Place(q, j)
    BY LinksArePlaces
  <2>2. q \in DOMAIN T /\ j \in Used(T[q].entries) /\ T[q].entries[j].ino = e.ino
    BY <2>1, LinkIsPlace
  <2> QED
    BY <1>0, <2>2, Zenon DEF Refs
<1>6. Counted(U)
  <2>1. ASSUME NEW i \in DOMAIN U, i # e.ino
        PROVE  IsFiniteSet(Links(U, i)) /\ (i # Root => Cardinality(Links(U, i)) <= U[i].nlink)
    BY <1>0, <1>3, <2>1, Zenon DEF Counted
  <2>2. CASE e.ino \in DOMAIN T
    <3>1. /\ IsFiniteSet(Links(T, e.ino)) /\ (e.ino # Root => Cardinality(Links(T, e.ino)) <= T[e.ino].nlink)
          /\ T[e.ino].nlink \in Nat /\ Cardinality(Links(T, e.ino)) \in Nat
      BY <1>0, <2>2, CountsAreNumbers, Zenon DEF Counted
    <3>2. /\ IsFiniteSet(Links(U, e.ino))
          /\ Cardinality(Links(U, e.ino)) \in {Cardinality(Links(T, e.ino)), Cardinality(Links(T, e.ino)) + 1}
      BY <1>4, <3>1, FS_AddElement
    <3>3. e.ino # Root => Cardinality(Links(U, e.ino)) <= U[e.ino].nlink
      BY <2>2, <3>1, <3>2
    <3> QED
      BY <2>1, <3>2, <3>3, Zenon DEF Counted
  <2>3. CASE e.ino \notin DOMAIN T
    <3>1. Links(U, e.ino) = {Place(p, k)}
      BY <1>4, <1>5, <2>3, Zenon
    <3>2. IsFiniteSet(Links(U, e.ino)) /\ Cardinality(Links(U, e.ino)) = 1
      BY <3>1, Singletons, Zenon
    <3>3. Cardinality(Links(U, e.ino)) <= U[e.ino].nlink
      BY <2>3, <3>2
    <3> QED
      BY <2>1, <3>2, <3>3, Zenon DEF Counted
  <2> QED
    BY <2>2, <2>3, Zenon
<1>7. ASSUME NEW S, UpClosed(U, S), NEW d \in DOMAIN T, d \in S, UnderRoot(T, d) PROVE Root \in S
  <2> DEFINE W == S \cap DOMAIN T
  <2>1. \A i \in W : Links(T, i) \subseteq Links(U, i)
    BY <1>2, Zenon
  <2>2. \A i \in W : \A q, j : Place(q, j) \in Links(T, i) /\ q \in S => q \in W
    BY ParentsAllocated, Zenon
  <2>3. W \in SUBSET (S \cap DOMAIN T) /\ d \in W
    BY <1>7, Zenon
  <2> HIDE DEF W
  <2> QED
    BY <1>7, <2>1, <2>2, <2>3, Climb, Zenon
<1>8. Tree(U)
  <2> SUFFICES ASSUME NEW d \in DOMAIN U, U[d].kind = "dir"
               PROVE  /\ \A l, m \in Links(U, d) : l = m
                      /\ Links(U, d) # {} => UnderRoot(U, d)
                      /\ d # Root /\ Links(U, d) = {} => Used(U[d].entries) = {}
    BY Zenon DEF Tree
  <2>1. CASE d = e.ino
    <3>1. d \notin DOMAIN T
      BY <2>1, Zenon DEF Edited
    <3>2. Links(U, d) = {Place(p, k)}
      BY <1>4, <1>5, <2>1, <3>1, Zenon
    <3>3. ASSUME NEW S, UpClosed(U, S), d \in S PROVE Root \in S
      <4>1. p \in S
        BY <3>2, <3>3, Zenon DEF UpClosed
      <4>2. p = Root \/ UnderRoot(T, p)
        BY <1>0, Zenon DEF Tree
      <4> QED
        BY <1>7, <3>3, <4>1, <4>2, Zenon
    <3> QED
      BY <3>2, <3>3, Zenon DEF UnderRoot
  <2>2. CASE d # e.ino
    <3>1. d \in DOMAIN T /\ T[d].kind = "dir" /\ Links(U, d) = Links(T, d)
      BY <1>3, <2>2, ZenonT(40) DEF Edited
    <3>2. Links(U, d) # {} => UnderRoot(U, d)
      BY <1>0, <1>7, <3>1, Zenon DEF Tree, UnderRoot
    <3>3. ASSUME d # Root, Links(U, d) = {} PROVE Used(U[d].entries) = {}
      <4>1. Used(T[d].entries) = {} /\ d # p
        BY <1>0, <3>1, <3>3, Zenon DEF Tree
      <4>2. \A j : Place(d, j) # Place(p, k)
        BY <4>1, PlacesDiffer
      <4>3. \A j \in Used(U[d].entries) : Place(d, j) \in {Place(p, k)} \/ Kept(T, {}, d, j)
        BY Zenon DEF Edited
      <4> QED
        BY <4>1, <4>2, <4>3, Zenon DEF Kept
    <3> QED
      BY <1>0, <3>1, <3>2, <3>3, Zenon DEF Tree
  <2> QED
    BY <2>1, <2>2, Zenon
<1> QED
  BY <1>1, <1>6, <1>8, Zenon DEF Sound

\* U is T without entry k of p, which refers to c.  c has no entries.
Drops(T, U, p, k, c) ==
    /\ Edited(T, U, {Place(p, k)}, {}, Unused) /\ DOMAIN U = DOMAIN T
    /\ p \in DOMAIN T /\ k \in Used(T[p].entries) /\ T[p].entries[k].ino = c
    /\ Used(T[c].entries) = {}
    /\ \A i \in DOMAIN T \ {c} : U[i].nlink = T[i].nlink
    /\ U[c].nlink >= T[c].nlink - 1

\* A link to something without entries goes.
LEMMA LinkRemoved ==
    ASSUME NEW T, NEW U, NEW p, NEW k, NEW c, Sound(T), Drops(T, U, p, k, c)
    PROVE  Sound(U)
<1> USE DEF Drops
<1>0. Shape(T) /\ Refs(T) /\ Counted(T) /\ Tree(T) /\ c \in DOMAIN T \ {Root}
  BY Zenon DEF Sound, Refs
<1>1. Shape(U) /\ Refs(U)
  BY <1>0, EditedShape, Zenon
<1>2. \A i : Links(U, i) = (Links(T, i) \ {Place(p, k)}) \cup (IF Unused.ino = i THEN {} ELSE {})
  BY EditedLinkSets
<1>3. \A i : Links(U, i) = Links(T, i) \ {Place(p, k)}
  BY <1>2, Zenon
<1>4. \A i : Place(p, k) \in Links(T, i) <=> i = c
  BY LinkIsPlace
<1>5. \A i : i # c => Links(U, i) = Links(T, i)
  BY <1>3, <1>4, ZenonT(40)
<1>6. Counted(U)
  <2>1. ASSUME NEW i \in DOMAIN U, i # c
        PROVE  IsFiniteSet(Links(U, i)) /\ (i # Root => Cardinality(Links(U, i)) <= U[i].nlink)
    BY <1>0, <1>5, <2>1, Zenon DEF Counted
  <2>2. /\ IsFiniteSet(Links(T, c)) /\ Cardinality(Links(T, c)) <= T[c].nlink
        /\ T[c].nlink \in Nat /\ Cardinality(Links(T, c)) \in Nat
    BY <1>0, CountsAreNumbers, Zenon DEF Counted
  <2>3. IsFiniteSet(Links(U, c)) /\ Cardinality(Links(U, c)) = Cardinality(Links(T, c)) - 1
    BY <1>3, <1>4, <2>2, FS_RemoveElement
  <2>4. U[c].nlink \in Nat
    <3>1. U[c] \in InodeRecords
      BY <1>0, <1>1 DEF Shape
    <3> QED
      BY <3>1, Zenon DEF InodeRecords
  <2>5. Cardinality(Links(U, c)) <= U[c].nlink
    BY <2>2, <2>3, <2>4
  <2> QED
    BY <2>1, <2>3, <2>5, Zenon DEF Counted
<1>7. ASSUME NEW S, UpClosed(U, S), NEW d \in DOMAIN T \ {c}, d \in S, UnderRoot(T, d) PROVE Root \in S
  <2> DEFINE W == (S \cap DOMAIN T) \ {c}
  <2>1. \A i \in W : Links(T, i) \subseteq Links(U, i)
    BY <1>5, Zenon
  <2>2. \A i \in W : \A q, j : Place(q, j) \in Links(T, i) /\ q \in S => q \in W
    BY ParentsAllocated, EmptyIsNoParent, Zenon
  <2>3. W \in SUBSET (S \cap DOMAIN T) /\ d \in W
    BY <1>7, Zenon
  <2> HIDE DEF W
  <2> QED
    BY <1>7, <2>1, <2>2, <2>3, Climb, Zenon
<1>8. Tree(U)
  <2> SUFFICES ASSUME NEW d \in DOMAIN U, U[d].kind = "dir"
               PROVE  /\ \A l, m \in Links(U, d) : l = m
                      /\ Links(U, d) # {} => UnderRoot(U, d)
                      /\ d # Root /\ Links(U, d) = {} => Used(U[d].entries) = {}
    BY Zenon DEF Tree
  <2>0. d \in DOMAIN T /\ T[d].kind = "dir"
    BY Zenon DEF Edited
  <2>1. \A j \in Used(U[d].entries) : j \in Used(T[d].entries)
    <3>1. \A j \in Used(U[d].entries) : Place(d, j) \in {} \/ Kept(T, {Place(p, k)}, d, j)
      BY Zenon DEF Edited
    <3> QED
      BY <3>1, Zenon DEF Kept
  <2>2. CASE d = c
    <3>1. Place(p, k) \in Links(T, c) /\ \A l, m \in Links(T, c) : l = m
      BY <1>0, <1>4, <2>0, <2>2, Zenon DEF Tree
    <3>2. \A l \in Links(T, c) : l \in {Place(p, k)}
      BY <3>1, Zenon
    <3>3. Links(U, d) = {}
      BY <1>3, <2>2, <3>2, Zenon
    <3> QED
      BY <2>1, <2>2, <3>3, Zenon
  <2>3. CASE d # c
    <3>1. Links(U, d) = Links(T, d)
      BY <1>5, <2>3, Zenon
    <3>2. Links(U, d) # {} => UnderRoot(U, d)
      BY <1>0, <1>7, <2>0, <2>3, <3>1, Zenon DEF Tree, UnderRoot
    <3> QED
      BY <1>0, <2>0, <2>1, <3>1, <3>2, Zenon DEF Tree
  <2> QED
    BY <2>2, <2>3, Zenon
<1> QED
  BY <1>1, <1>6, <1>8, Zenon DEF Sound

\* U is T with entry k of p, which refers to c, moved to place j of the directory q as e.  V
\* has q and what is above it, and not c.
Moves(T, U, p, k, q, j, c, e, V) ==
    /\ Edited(T, U, {Place(p, k)}, {Place(q, j)}, e) /\ DOMAIN U = DOMAIN T
    /\ p \in DOMAIN T /\ k \in Used(T[p].entries) /\ T[p].entries[k].ino = c /\ e.ino = c
    /\ q \in DOMAIN T /\ T[q].kind = "dir" /\ (q = Root \/ Links(T, q) # {})
    /\ j \notin Used(T[q].entries)
    /\ UpClosed(T, V) /\ q \in V /\ c \notin V
    /\ \A i \in DOMAIN T : U[i].nlink = T[i].nlink

\* A link moves to another place, which is not below the inode it leads to.
LEMMA LinkMoved ==
    ASSUME NEW T, NEW U, NEW p, NEW k, NEW q, NEW j, NEW c, NEW e, NEW V, Sound(T),
           Moves(T, U, p, k, q, j, c, e, V)
    PROVE  Sound(U)
<1> USE DEF Moves
<1>0. Shape(T) /\ Refs(T) /\ Counted(T) /\ Tree(T) /\ c \in DOMAIN T \ {Root}
  BY Zenon DEF Sound, Refs
<1>1. Shape(U) /\ Refs(U)
  BY <1>0, EditedShape, Zenon
<1>2. \A i : Links(U, i) = (Links(T, i) \ {Place(p, k)}) \cup (IF e.ino = i THEN {Place(q, j)} ELSE {})
  BY EditedLinkSets
<1>3. \A i : Place(p, k) \in Links(T, i) <=> i = c
  BY LinkIsPlace
<1>4. Place(q, j) \notin Links(T, c)
  BY LinkIsPlace
<1>5. \A i : i # c => Links(U, i) = Links(T, i)
  <2> SUFFICES ASSUME NEW i, i # c PROVE Links(U, i) = Links(T, i)
    BY Zenon
  <2>1. Links(U, i) = (Links(T, i) \ {Place(p, k)}) \cup {}
    BY <1>2, Zenon
  <2>2. Place(p, k) \notin Links(T, i)
    BY <1>3, Zenon
  <2> QED
    BY <2>1, <2>2, Zenon
<1>6. Links(U, c) = (Links(T, c) \ {Place(p, k)}) \cup {Place(q, j)}
  BY <1>2, Zenon
<1>7. Counted(U)
  <2>1. ASSUME NEW i \in DOMAIN U, i # c
        PROVE  IsFiniteSet(Links(U, i)) /\ (i # Root => Cardinality(Links(U, i)) <= U[i].nlink)
    BY <1>0, <1>5, <2>1, Zenon DEF Counted
  <2>2. /\ IsFiniteSet(Links(T, c)) /\ Cardinality(Links(T, c)) <= T[c].nlink
        /\ T[c].nlink \in Nat /\ Cardinality(Links(T, c)) \in Nat
    BY <1>0, CountsAreNumbers, Zenon DEF Counted
  <2> DEFINE L == Links(T, c) \ {Place(p, k)}
  <2>3. IsFiniteSet(L) /\ Cardinality(L) = Cardinality(Links(T, c)) - 1
    BY <1>3, <2>2, FS_RemoveElement
  <2>4. Place(q, j) \notin L /\ Links(U, c) = L \cup {Place(q, j)}
    BY <1>4, <1>6, Zenon
  <2> HIDE DEF L
  <2>5. IsFiniteSet(Links(U, c)) /\ Cardinality(Links(U, c)) = Cardinality(L) + 1
    BY <2>3, <2>4, FS_AddElement
  <2>6. Cardinality(Links(U, c)) <= U[c].nlink
    BY <1>0, <2>2, <2>3, <2>5
  <2> QED
    BY <2>1, <2>5, <2>6, Zenon DEF Counted
<1>8. ASSUME NEW S, UpClosed(U, S), NEW d \in DOMAIN T, d \in S, UnderRoot(T, d) PROVE Root \in S
  <2>1. CASE c \notin S
    <3> DEFINE W == S \cap DOMAIN T
    <3>1. \A i \in W : Links(T, i) \subseteq Links(U, i)
      BY <1>5, <2>1, Zenon
    <3>2. \A i \in W : \A x, y : Place(x, y) \in Links(T, i) /\ x \in S => x \in W
      BY ParentsAllocated, Zenon
    <3>3. W \in SUBSET (S \cap DOMAIN T) /\ d \in W
      BY <1>8, Zenon
    <3> HIDE DEF W
    <3> QED
      BY <1>8, <3>1, <3>2, <3>3, Climb, Zenon
  <2>2. CASE c \in S
    <3> DEFINE W == S \cap V
    <3>0. Place(q, j) \in Links(U, c)
      BY <1>6, Zenon
    <3>1. q \in S
      BY <1>8, <2>2, <3>0, Zenon DEF UpClosed
    <3>2. q = Root \/ UnderRoot(T, q)
      BY <1>0, Zenon DEF Tree
    <3>3. \A i \in W : Links(T, i) \subseteq Links(U, i)
      BY <1>5, Zenon
    <3>4. \A i \in W : \A x, y : Place(x, y) \in Links(T, i) /\ x \in S => x \in W
      BY Zenon DEF UpClosed
    <3>5. W \in SUBSET (S \cap DOMAIN T) /\ q \in W
      BY <3>1, Zenon DEF UpClosed
    <3> HIDE DEF W
    <3> QED
      BY <1>8, <3>1, <3>2, <3>3, <3>4, <3>5, Climb, Zenon
  <2> QED
    BY <2>1, <2>2, Zenon
<1>9. UnderRoot(U, c)
  <2> SUFFICES ASSUME NEW S, UpClosed(U, S), c \in S PROVE Root \in S
    BY Zenon DEF UnderRoot
  <2>1. Place(q, j) \in Links(U, c)
    BY <1>6, Zenon
  <2>2. q \in S
    BY <2>1, Zenon DEF UpClosed
  <2>3. q = Root \/ UnderRoot(T, q)
    BY <1>0, Zenon DEF Tree
  <2> QED
    BY <1>8, <2>2, <2>3, Zenon
<1>10. Tree(U)
  <2> SUFFICES ASSUME NEW d \in DOMAIN U, U[d].kind = "dir"
               PROVE  /\ \A l, m \in Links(U, d) : l = m
                      /\ Links(U, d) # {} => UnderRoot(U, d)
                      /\ d # Root /\ Links(U, d) = {} => Used(U[d].entries) = {}
    BY Zenon DEF Tree
  <2>0. d \in DOMAIN T /\ T[d].kind = "dir"
    BY Zenon DEF Edited
  <2>1. CASE d = c
    <3>0. Place(p, k) \in Links(T, c) /\ \A l, m \in Links(T, c) : l = m
      BY <1>0, <1>3, <2>0, <2>1, Zenon DEF Tree
    <3>1. \A l \in Links(T, c) : l \in {Place(p, k)}
      BY <3>0, Zenon
    <3>2. Links(U, d) = {Place(q, j)}
      BY <1>6, <2>1, <3>1, Zenon
    <3> QED
      BY <1>9, <2>1, <3>2, Zenon
  <2>2. CASE d # c
    <3>1. Links(U, d) = Links(T, d)
      BY <1>5, <2>2, Zenon
    <3>2. Links(U, d) # {} => UnderRoot(U, d)
      BY <1>0, <1>8, <2>0, <3>1, Zenon DEF Tree, UnderRoot
    <3>3. ASSUME d # Root, Links(U, d) = {} PROVE Used(U[d].entries) = {}
      <4>1. Used(T[d].entries) = {} /\ d # q
        BY <1>0, <2>0, <3>1, <3>3, Zenon DEF Tree
      <4>2. \A y : Place(d, y) # Place(q, j)
        BY <4>1, PlacesDiffer
      <4>3. \A y \in Used(U[d].entries) : Place(d, y) \in {Place(q, j)} \/ Kept(T, {Place(p, k)}, d, y)
        BY Zenon DEF Edited
      <4> QED
        BY <4>1, <4>2, <4>3, Zenon DEF Kept
    <3> QED
      BY <1>0, <2>0, <3>1, <3>2, <3>3, Zenon DEF Tree
  <2> QED
    BY <2>1, <2>2, Zenon
<1> QED
  BY <1>1, <1>7, <1>10, Zenon DEF Sound

-----------------------------------------------------------------------------
(* What the methods do to the table *)

\* An empty array of entries.
LEMMA NoEntries == EntriesOK(<< >>) /\ Used(<< >>) = {}
BY DEF EntriesOK, Used

\* U has the inodes of T, of the same kinds, and the same entries except those of p.
Updates(T, U, p) ==
    /\ U \in Seq(InodeRecords) /\ Len(U) \in 1 .. MaxInodes /\ DOMAIN T \subseteq DOMAIN U
    /\ \A i \in DOMAIN T : U[i].kind = T[i].kind
    /\ \A i \in DOMAIN T \ {p} : U[i].entries = T[i].entries
    /\ \A i \in DOMAIN U \ DOMAIN T : U[i].entries = << >>

\* A new entry of p for id, named n, of type t.
Adds(T, U, p, id, n, t) ==
    /\ Updates(T, U, p)
    /\ p \in DOMAIN T /\ T[p].kind = "dir" /\ id \in IDs /\ id \in DOMAIN U \ {Root}
    /\ n \in Names /\ t \in DirentTypes \ {"DT_Unknown"} /\ (t = "DT_Directory" <=> U[id].kind = "dir")
    /\ \A j \in Used(T[p].entries) : T[p].entries[j].name # n
    /\ U[p].entries = AddChild(T[p].entries, id, n, t)

\* AddChild, in a table that may have a new inode.
LEMMA AddEdits ==
    ASSUME NEW T, NEW U, NEW p, NEW id, NEW n, NEW t, Shape(T), Adds(T, U, p, id, n, t)
    PROVE  \E k : /\ k \notin Used(T[p].entries)
                  /\ Edited(T, U, {}, {Place(p, k)}, [ino |-> id, name |-> n, type |-> t])
<1> DEFINE e == [ino |-> id, name |-> n, type |-> t]
<1> USE DEF Adds, Updates
<1>0. \A i \in DOMAIN T : EntriesOK(T[i].entries) /\ (T[i].kind # "dir" => T[i].entries = << >>)
  BY Zenon DEF Shape
<1> DEFINE es == T[p].entries
           new == AddChild(es, id, n, t)
<1>a. EntriesOK(es)
  BY <1>0, Zenon
<1>b. \E k \in Nat : /\ k \notin Used(es) /\ EntriesOK(new) /\ Used(new) = Used(es) \cup {k}
                     /\ new[k] = e /\ \A j \in Used(es) : new[j] = es[j]
  <2> HIDE DEF es
  <2> QED
    BY <1>a, ChildAdded
<1> HIDE DEF new
<1>1. PICK k \in Nat :
             /\ k \notin Used(T[p].entries)
             /\ EntriesOK(U[p].entries)
             /\ Used(U[p].entries) = Used(T[p].entries) \cup {k}
             /\ U[p].entries[k] = e
             /\ \A j \in Used(T[p].entries) : U[p].entries[j] = T[p].entries[j]
  <2>1. U[p].entries = new
    BY Zenon DEF new
  <2> QED
    BY <1>b, <2>1, Zenon
<1>2. e.ino = id /\ e.name = n /\ e.type = t
  BY Zenon
<1> HIDE DEF e
<1>3. ASSUME NEW i \in DOMAIN U
      PROVE  EntriesOK(U[i].entries) /\ (U[i].kind # "dir" => U[i].entries = << >>)
  BY <1>0, <1>1, NoEntries, ZenonT(40)
<1>4. ASSUME NEW i \in DOMAIN U, NEW j
      PROVE  j \in Used(U[i].entries) <=> Place(i, j) \in {Place(p, k)} \/ Kept(T, {}, i, j)
  <2>1. Place(i, j) \in {Place(p, k)} <=> i = p /\ j = k
    BY PlacesDiffer
  <2>2. Kept(T, {}, i, j) <=> i \in DOMAIN T /\ j \in Used(T[i].entries)
    BY Zenon DEF Kept
  <2> QED
    BY <1>1, <2>1, <2>2, NoEntries, Zenon
<1>5. ASSUME NEW i, NEW j, Kept(T, {}, i, j) PROVE U[i].entries[j] = T[i].entries[j]
  BY <1>1, <1>5, Zenon DEF Kept
<1>6. ASSUME NEW i, NEW j, Place(i, j) \in {Place(p, k)}
      PROVE  /\ i \in DOMAIN T /\ U[i].entries[j] = e
             /\ \A l : Place(i, l) \in {Place(p, k)} => l = j
             /\ e.ino \in DOMAIN U \ {Root} /\ (e.type = "DT_Directory" <=> U[e.ino].kind = "dir")
             /\ \A l \in Used(T[i].entries) :
                  T[i].entries[l].name = e.name => Place(i, l) \in {} /\ T[i].entries[l].ino # e.ino
  <2>1. i = p /\ j = k
    BY <1>6, PlacesDiffer
  <2>2. \A l : Place(i, l) \in {Place(p, k)} => l = j
    BY <2>1, PlacesDiffer
  <2> QED
    BY <1>1, <1>2, <2>1, <2>2, Zenon
<1>7. Edited(T, U, {}, {Place(p, k)}, e)
  BY <1>3, <1>4, <1>5, <1>6, Zenon DEF Edited
<1> QED
  BY <1>1, <1>7, Zenon DEF e

\* RemoveChild.
LEMMA RemoveEdits ==
    ASSUME NEW T, NEW U, NEW p \in DOMAIN T, NEW n, NEW k, NEW e, Shape(T), Updates(T, U, p),
           k = findChild(T[p].entries, n), k \in Used(T[p].entries), DOMAIN U = DOMAIN T,
           U[p].entries = RemoveChild(T[p].entries, n)
    PROVE  Edited(T, U, {Place(p, k)}, {}, e)
<1> USE DEF Updates
<1>0. \A i \in DOMAIN T : EntriesOK(T[i].entries) /\ (T[i].kind # "dir" => T[i].entries = << >>)
  BY Zenon DEF Shape
<1>1. /\ EntriesOK(U[p].entries) /\ Used(U[p].entries) = Used(T[p].entries) \ {k}
      /\ \A j \in Used(T[p].entries) \ {k} : U[p].entries[j] = T[p].entries[j]
  <2> DEFINE es == T[p].entries
             new == RemoveChild(es, n)
  <2>1. EntriesOK(es)
    BY <1>0, Zenon
  <2>2. /\ EntriesOK(new) /\ Used(new) = Used(es) \ {k}
        /\ \A j \in Used(es) \ {k} : new[j] = es[j]
    <3>1. k = findChild(es, n) /\ k \in Used(es)
      BY Zenon
    <3> HIDE DEF es
    <3> QED
      BY <2>1, <3>1, ChildRemoved
  <2>3. U[p].entries = new
    BY Zenon
  <2> HIDE DEF new
  <2> QED
    BY <2>2, <2>3, Zenon
<1>2. T[p].kind = "dir"
  BY <1>0, NoEntries, Zenon
<1>3. ASSUME NEW i \in DOMAIN U
      PROVE  EntriesOK(U[i].entries) /\ (U[i].kind # "dir" => U[i].entries = << >>)
  BY <1>0, <1>1, <1>2, ZenonT(40)
<1>4. ASSUME NEW i \in DOMAIN U, NEW j
      PROVE  j \in Used(U[i].entries) <=> Place(i, j) \in {} \/ Kept(T, {Place(p, k)}, i, j)
  <2>1. Place(i, j) \in {Place(p, k)} <=> i = p /\ j = k
    BY PlacesDiffer
  <2> QED
    BY <1>1, <2>1, Zenon DEF Kept
<1>5. ASSUME NEW i, NEW j, Kept(T, {Place(p, k)}, i, j) PROVE U[i].entries[j] = T[i].entries[j]
  <2>1. Place(i, j) \in {Place(p, k)} <=> i = p /\ j = k
    BY PlacesDiffer
  <2> QED
    BY <1>1, <1>5, <2>1, Zenon DEF Kept
<1> QED
  BY <1>3, <1>4, <1>5, Zenon DEF Edited

\* An entry is removed after one was added.
LEMMA AddThenRemove ==
    ASSUME NEW T, NEW L, NEW U, NEW a, NEW r, NEW e, NEW f, a # r,
           Edited(T, L, {}, {a}, e), Edited(L, U, {r}, {}, f), DOMAIN U = DOMAIN L
    PROVE  Edited(T, U, {r}, {a}, e)
<1>0. \A p, k : Place(p, k) \in {a} =>
        /\ p \in DOMAIN T /\ L[p].entries[k] = e
        /\ \A j : Place(p, j) \in {a} => j = k
        /\ e.ino \in DOMAIN L \ {Root} /\ (e.type = "DT_Directory" <=> L[e.ino].kind = "dir")
        /\ \A j \in Used(T[p].entries) :
             T[p].entries[j].name = e.name => Place(p, j) \in {} /\ T[p].entries[j].ino # e.ino
  BY Zenon DEF Edited
<1>1. ASSUME NEW p, NEW k PROVE Kept(L, {r}, p, k) <=> Place(p, k) = a \/ Kept(T, {r}, p, k)
  <2>1. p \in DOMAIN L => (k \in Used(L[p].entries) <=> Place(p, k) \in {a} \/ Kept(T, {}, p, k))
    BY Zenon DEF Edited
  <2>2. DOMAIN T \subseteq DOMAIN L
    BY Zenon DEF Edited
  <2>3. Place(p, k) = a => p \in DOMAIN T
    BY <1>0
  <2> QED
    BY <2>1, <2>2, <2>3, Zenon DEF Kept
<1>2. ASSUME NEW p \in DOMAIN U, NEW k
      PROVE  k \in Used(U[p].entries) <=> Place(p, k) \in {a} \/ Kept(T, {r}, p, k)
  <2>1. k \in Used(U[p].entries) <=> Place(p, k) \in {} \/ Kept(L, {r}, p, k)
    BY Zenon DEF Edited
  <2> QED
    BY <1>1, <2>1, Zenon
<1>3. \A p, k : Kept(L, {r}, p, k) => U[p].entries[k] = L[p].entries[k]
  BY Zenon DEF Edited
<1>4. \A p, k : Kept(T, {}, p, k) => L[p].entries[k] = T[p].entries[k]
  BY Zenon DEF Edited
<1>5. ASSUME NEW p, NEW k, Kept(T, {r}, p, k) PROVE U[p].entries[k] = T[p].entries[k]
  BY <1>1, <1>3, <1>4, <1>5, ZenonT(40) DEF Kept
<1>6. \A p \in DOMAIN L : U[p].kind = L[p].kind
  BY Zenon DEF Edited
<1>7. ASSUME NEW p, NEW k, Place(p, k) \in {a}
      PROVE  /\ p \in DOMAIN T /\ U[p].entries[k] = e
             /\ \A j : Place(p, j) \in {a} => j = k
             /\ e.ino \in DOMAIN U \ {Root} /\ (e.type = "DT_Directory" <=> U[e.ino].kind = "dir")
             /\ \A j \in Used(T[p].entries) :
                  T[p].entries[j].name = e.name => Place(p, j) \in {r} /\ T[p].entries[j].ino # e.ino
  <2>1. /\ p \in DOMAIN T /\ L[p].entries[k] = e
        /\ \A j : Place(p, j) \in {a} => j = k
        /\ e.ino \in DOMAIN L \ {Root} /\ (e.type = "DT_Directory" <=> L[e.ino].kind = "dir")
        /\ \A j \in Used(T[p].entries) :
             T[p].entries[j].name = e.name => Place(p, j) \in {} /\ T[p].entries[j].ino # e.ino
    BY <1>0, <1>7
  <2>2. U[p].entries[k] = e
    BY <1>1, <1>3, <1>7, <2>1, Zenon
  <2> QED
    BY <1>6, <2>1, <2>2, Zenon
<1> QED
  BY <1>2, <1>5, <1>6, <1>7, Zenon DEF Edited

\* Inode IDs and inodes of a table.
LEMMA TableIs ==
    ASSUME NEW T, Shape(T)
    PROVE  /\ T \in Seq(InodeRecords) /\ Len(T) \in 1 .. MaxInodes /\ DOMAIN T = 1 .. Len(T)
           /\ Root \in DOMAIN T /\ 0 \notin DOMAIN T /\ DOMAIN T \subseteq IDs
           /\ \A i \in DOMAIN T : T[i] \in InodeRecords /\ T[i].nlink \in Nat /\ EntriesOK(T[i].entries)
<1>1. T \in Seq(InodeRecords) /\ Len(T) \in 1 .. MaxInodes /\ DOMAIN T = 1 .. Len(T)
  BY DEF Shape
<1>2. Root \in DOMAIN T /\ 0 \notin DOMAIN T /\ DOMAIN T \subseteq IDs
  BY <1>1, MemFSAssumption DEF IDs, Root, RootInodeID
<1>3. \A i \in DOMAIN T : T[i] \in InodeRecords
  BY <1>1
<1>4. \A i \in DOMAIN T : T[i].nlink \in Nat
  BY <1>3, Zenon DEF InodeRecords
<1> QED
  BY <1>1, <1>2, <1>3, <1>4, Zenon DEF Shape

\* What LookUpChild finds.
LEMMA ChildIs ==
    ASSUME Sound(inodes), NEW p \in Allocated, NEW n \in Names,
           NEW es, es = inodes[p].entries, NEW k, k = findChild(es, n)
    PROVE  /\ Child(p, n) = 0 => \A j \in Used(es) : es[j].name # n
           /\ Child(p, n) # 0 => /\ k \in Used(es) /\ es[k].name = n /\ es[k].ino = Child(p, n)
                                 /\ Child(p, n) \in Allocated \ {Root} /\ ChildType(p, n) = es[k].type
<1>0. Shape(inodes) /\ Refs(inodes) /\ p \in DOMAIN inodes
  BY Zenon DEF Sound, Allocated
<1>1. EntriesOK(es) /\ 0 \notin DOMAIN inodes
  BY <1>0, TableIs, Zenon
<1>2. /\ k = 0 => \A j \in Used(es) : es[j].name # n
      /\ k # 0 => k \in Used(es) /\ es[k].name = n
  BY <1>1, FoundChild, ZenonT(40)
<1>3. Child(p, n) = IF k = 0 THEN 0 ELSE es[k].ino
  BY Zenon DEF Child
<1>4. ChildType(p, n) = es[k].type
  BY Zenon DEF ChildType
<1>5. k # 0 => es[k].ino \in DOMAIN inodes \ {Root}
  BY <1>0, <1>2, Zenon DEF Refs
<1> QED
  BY <1>1, <1>2, <1>3, <1>4, <1>5, Zenon DEF Allocated

\* A directory that has not been removed.
LEMMA LiveIs ==
    ASSUME NEW p, LiveDir(p)
    PROVE  p \in DOMAIN inodes /\ inodes[p].kind = "dir" /\ (p = Root \/ Links(inodes, p) # {})
BY LinksOfTable, Zenon DEF LiveDir, Allocated, IsDir, Root

\* What a user can tell entry k by.
Pair(es, k) == <<es[k].name, es[k].ino>>

\* An entry of U that looks like one T has is the same entry at the same index.
Stays(T, U) ==
    /\ DOMAIN T \subseteq DOMAIN U
    /\ \A p \in DOMAIN T : \A k \in Used(U[p].entries) :
         Pair(U[p].entries, k) \in Listed(T[p].entries) =>
           k \in Used(T[p].entries) /\ U[p].entries[k] = T[p].entries[k]

\* What is listed.
LEMMA ListedIs ==
    ASSUME NEW es, NEW x, NEW y
    PROVE  <<x, y>> \in Listed(es) <=> \E k \in Used(es) : es[k].name = x /\ es[k].ino = y
BY DEF Listed

\* Entries stay where they are, through a removal and an edit after it.
LEMMA RemoveThenEdit ==
    ASSUME NEW T, NEW L, NEW U, NEW Q, NEW R, NEW A, NEW e, NEW f,
           Edited(T, L, Q, {}, f), Edited(L, U, R, A, e), DOMAIN L = DOMAIN T,
           \A p, k : Place(p, k) \in A =>
             \A j \in Used(T[p].entries) : ~(T[p].entries[j].name = e.name /\ T[p].entries[j].ino = e.ino)
    PROVE  Stays(T, U)
<1> SUFFICES ASSUME NEW p \in DOMAIN T, NEW k \in Used(U[p].entries),
                    Pair(U[p].entries, k) \in Listed(T[p].entries)
             PROVE  k \in Used(T[p].entries) /\ U[p].entries[k] = T[p].entries[k]
  <2>1. DOMAIN T \subseteq DOMAIN U
    BY Zenon DEF Edited
  <2> QED
    BY <2>1, Zenon DEF Stays
<1>1. \E j \in Used(T[p].entries) : /\ T[p].entries[j].name = U[p].entries[k].name
                                    /\ T[p].entries[j].ino = U[p].entries[k].ino
  BY ListedIs DEF Pair
<1>2. p \in DOMAIN L /\ p \in DOMAIN U
  BY Zenon DEF Edited
<1>3. Place(p, k) \in A \/ Kept(L, R, p, k)
  BY <1>2, Zenon DEF Edited
<1>4. Place(p, k) \in A => U[p].entries[k] = e
  BY Zenon DEF Edited
<1>5. Kept(L, R, p, k) /\ U[p].entries[k] = L[p].entries[k]
  <2>1. Kept(L, R, p, k)
    BY <1>1, <1>3, <1>4, Zenon
  <2> QED
    BY <2>1, ZenonT(40) DEF Edited
<1>6. Kept(T, Q, p, k)
  <2>1. k \in Used(L[p].entries)
    BY <1>5, Zenon DEF Kept
  <2>2. k \in Used(L[p].entries) <=> Place(p, k) \in {} \/ Kept(T, Q, p, k)
    BY <1>2, Zenon DEF Edited
  <2> QED
    BY <2>1, <2>2, Zenon
<1>7. L[p].entries[k] = T[p].entries[k]
  <2>1. \A i, j : Kept(T, Q, i, j) => L[i].entries[j] = T[i].entries[j]
    BY Zenon DEF Edited
  <2> QED
    BY <1>6, <2>1, Zenon
<1> QED
  BY <1>5, <1>6, <1>7, Zenon DEF Kept

\* Entries stay where they are, through an edit.
LEMMA EditStays ==
    ASSUME NEW T, NEW U, NEW R, NEW A, NEW e, Edited(T, U, R, A, e)
    PROVE  Stays(T, U)
<1> SUFFICES ASSUME NEW p \in DOMAIN T, NEW k \in Used(U[p].entries),
                    Pair(U[p].entries, k) \in Listed(T[p].entries)
             PROVE  k \in Used(T[p].entries) /\ U[p].entries[k] = T[p].entries[k]
  <2>1. DOMAIN T \subseteq DOMAIN U
    BY Zenon DEF Edited
  <2> QED
    BY <2>1, Zenon DEF Stays
<1>1. PICK j \in Used(T[p].entries) : /\ T[p].entries[j].name = U[p].entries[k].name
                                      /\ T[p].entries[j].ino = U[p].entries[k].ino
  BY ListedIs DEF Pair
<1>2. p \in DOMAIN U
  BY Zenon DEF Edited
<1>3. Place(p, k) \in A \/ Kept(T, R, p, k)
  BY <1>2, Zenon DEF Edited
<1>4. \A q, l : Place(q, l) \in A =>
         /\ U[q].entries[l] = e
         /\ \A i \in Used(T[q].entries) : T[q].entries[i].name = e.name => T[q].entries[i].ino # e.ino
  BY Zenon DEF Edited
<1>5. Kept(T, R, p, k)
  BY <1>1, <1>3, <1>4, Zenon
<1>6. U[p].entries[k] = T[p].entries[k]
  BY <1>5, Zenon DEF Edited
<1> QED
  BY <1>5, <1>6, Zenon DEF Kept

\* The table that MkDir, CreateFile, MkNode and CreateSymlink make.
Made(p, n, kind, t) ==
    [Append(inodes, newInode(kind)) EXCEPT ![p].entries = AddChild(@, Len(inodes) + 1, n, t)]

\* MkDir, CreateFile, MkNode and CreateSymlink.
LEMMA CreateSound ==
    ASSUME Sound(inodes), NEW p, NEW n \in Names, NEW kind \in Kinds, NEW t \in DirentTypes \ {"DT_Unknown"},
           t = "DT_Directory" <=> kind = "dir", LiveDir(p), Child(p, n) = 0, Len(inodes) < MaxInodes,
           NEW U, U = Made(p, n, kind, t)
    PROVE  Sound(U) /\ Stays(inodes, U)
<1> DEFINE id == Len(inodes) + 1
           new == newInode(kind)
           L == Append(inodes, new)
           es == AddChild(inodes[p].entries, id, n, t)
<1>1. p \in DOMAIN inodes /\ inodes[p].kind = "dir" /\ (p = Root \/ Links(inodes, p) # {})
  BY LiveIs, Zenon
<1>2. Shape(inodes)
  BY Zenon DEF Sound
<1>3. /\ inodes \in Seq(InodeRecords) /\ Len(inodes) \in 1 .. MaxInodes /\ DOMAIN inodes = 1 .. Len(inodes)
      /\ Root \in DOMAIN inodes /\ EntriesOK(inodes[p].entries)
  BY <1>1, <1>2, TableIs, Zenon
<1>4. id \in IDs /\ id \notin DOMAIN inodes /\ id \in 1 .. MaxInodes
  BY <1>3, MemFSAssumption DEF IDs
<1>5. id # Root
  BY <1>3, <1>4, Zenon
<1>6. new \in InodeRecords /\ new.kind = kind /\ new.nlink = 1 /\ new.entries = << >>
  BY DEF newInode, InodeRecords
<1>7. /\ L \in Seq(InodeRecords) /\ Len(L) = id /\ DOMAIN L = DOMAIN inodes \cup {id}
      /\ L[id] = new /\ \A i \in DOMAIN inodes : L[i] = inodes[i]
  <2> HIDE DEF new
  <2> QED
    BY <1>3, <1>6
<1>8. es \in Seq(Dirents)
  BY <1>3, <1>4, AddedOK, Zenon DEF EntriesOK
<1>9. U = WithEntries(L, p, es)
  <2>1. U = WithEntries(L, p, AddChild(L[p].entries, id, n, t))
    BY Zenon DEF WithEntries, Made
  <2> QED
    BY <1>1, <1>7, <2>1, Zenon
<1> HIDE DEF L, new, es
<1>10. p \in DOMAIN L
  BY <1>1, <1>7, Zenon
<1>11. /\ U \in Seq(InodeRecords) /\ Len(U) = Len(L) /\ DOMAIN U = DOMAIN L
       /\ U[p].entries = es
       /\ \A i \in DOMAIN L : i # p => U[i] = L[i]
       /\ \A i \in DOMAIN L : U[i].kind = L[i].kind /\ U[i].nlink = L[i].nlink
  <2>1. L \in Seq(InodeRecords)
    BY <1>7, Zenon
  <2>2. EntriesSet(L, p, es, U)
    BY <1>8, <1>9, <1>10, <2>1, SetEntries, Zenon
  <2> QED
    BY <2>2, Zenon DEF EntriesSet
<1> HIDE DEF id
<1>12. Len(U) \in 1 .. MaxInodes /\ id \in DOMAIN U \ {Root} /\ DOMAIN inodes \subseteq DOMAIN U
  BY <1>4, <1>5, <1>7, <1>11, ZenonT(40)
<1>13. U[id].kind = kind /\ U[id].nlink = 1
  BY <1>6, <1>7, <1>11
<1>14. \A i \in DOMAIN inodes : U[i].kind = inodes[i].kind /\ U[i].nlink = inodes[i].nlink
  BY <1>7, <1>11, Zenon
<1>15. \A i \in DOMAIN inodes \ {p} : U[i].entries = inodes[i].entries
  BY <1>7, <1>11, Zenon
<1>16. \A i \in DOMAIN U \ DOMAIN inodes : U[i].entries = << >>
  BY <1>1, <1>4, <1>6, <1>7, <1>11
<1>17. \A j \in Used(inodes[p].entries) : inodes[p].entries[j].name # n
  BY <1>1, ChildIs DEF Allocated
<1> DEFINE e == [ino |-> id, name |-> n, type |-> t]
<1>18. PICK k : Edited(inodes, U, {}, {Place(p, k)}, e)
  <2>1. U[p].entries = AddChild(inodes[p].entries, id, n, t)
    BY <1>11, Zenon DEF es
  <2>2. Updates(inodes, U, p)
    BY <1>11, <1>12, <1>14, <1>15, <1>16, ZenonT(40) DEF Updates
  <2>3. Adds(inodes, U, p, id, n, t)
    BY <1>1, <1>4, <1>12, <1>13, <1>17, <2>1, <2>2, ZenonT(40) DEF Adds
  <2> QED
    BY <1>2, <2>3, AddEdits, Zenon
<1>19. e.ino = id
  BY Zenon
<1> HIDE DEF e
<1>20. Sound(U)
  <2>1. DOMAIN U = DOMAIN inodes \cup {e.ino} /\ e.ino \notin DOMAIN inodes /\ U[e.ino].nlink = 1
    BY <1>4, <1>7, <1>11, <1>13, <1>19, ZenonT(40)
  <2> QED
    BY <1>1, <1>14, <1>18, <2>1, LinkAdded, ZenonT(40)
<1> QED
  BY <1>18, <1>20, EditStays, Zenon

\* The table that CreateLink makes.
Linked(p, n, t) == [inodes EXCEPT ![t].nlink = @ + 1, ![p].entries = AddChild(@, t, n, "DT_File")]

\* CreateLink.
LEMMA CreateLinkSound ==
    ASSUME Sound(inodes), NEW p, NEW n \in Names, NEW t, LiveDir(p), t \in Allocated, ~IsDir(t),
           Child(p, n) = 0, NEW U, U = Linked(p, n, t)
    PROVE  Sound(U) /\ Stays(inodes, U)
<1> DEFINE x == inodes[t].nlink + 1
           L == WithNlink(inodes, t, x)
           es == AddChild(inodes[p].entries, t, n, "DT_File")
<1>1. p \in DOMAIN inodes /\ inodes[p].kind = "dir" /\ (p = Root \/ Links(inodes, p) # {})
  BY LiveIs, Zenon
<1>2. Shape(inodes)
  BY Zenon DEF Sound
<1>3. t \in DOMAIN inodes /\ inodes[t].kind # "dir" /\ p # t
  BY <1>1, Zenon DEF Allocated, IsDir
<1>4. /\ inodes \in Seq(InodeRecords) /\ Len(inodes) \in 1 .. MaxInodes
      /\ DOMAIN inodes \subseteq IDs /\ EntriesOK(inodes[p].entries) /\ inodes[t].nlink \in Nat
  BY <1>1, <1>2, <1>3, TableIs, Zenon
<1>5. t # Root
  BY <1>2, <1>3, Zenon DEF Shape
<1>6. x \in Nat
  BY <1>4
<1>7. "DT_File" \in DirentTypes \ {"DT_Unknown"} /\ "DT_File" # "DT_Directory" /\ t \in IDs
  BY <1>3, <1>4 DEF DirentTypes
<1>8. es \in Seq(Dirents)
  BY <1>4, <1>7, AddedOK, Zenon DEF EntriesOK
<1>9. U = WithEntries(L, p, es)
  BY <1>1, <1>3, <1>4 DEF WithEntries, WithNlink, Linked
<1> HIDE DEF L, es, x
<1>10. NlinkSet(inodes, t, x, L)
  BY <1>3, <1>4, <1>6, SetNlink, Zenon DEF L
<1>11. p \in DOMAIN L /\ L \in Seq(InodeRecords)
  BY <1>1, <1>10, Zenon DEF NlinkSet
<1>12. EntriesSet(L, p, es, U)
  BY <1>8, <1>9, <1>11, SetEntries, Zenon
<1>13. /\ U \in Seq(InodeRecords) /\ Len(U) \in 1 .. MaxInodes /\ DOMAIN U = DOMAIN inodes
       /\ U[p].entries = es
       /\ \A i \in DOMAIN inodes : U[i].kind = inodes[i].kind
  BY <1>4, <1>10, <1>12, Zenon DEF NlinkSet, EntriesSet
<1>14. \A i \in DOMAIN inodes \ {p} : U[i].entries = inodes[i].entries
  BY <1>10, <1>12, Zenon DEF NlinkSet, EntriesSet
<1>15. U[t].nlink = x /\ \A i \in DOMAIN inodes \ {t} : U[i].nlink = inodes[i].nlink
  BY <1>3, <1>10, <1>12, Zenon DEF NlinkSet, EntriesSet
<1>16. \A j \in Used(inodes[p].entries) : inodes[p].entries[j].name # n
  BY <1>1, ChildIs DEF Allocated
<1> DEFINE e == [ino |-> t, name |-> n, type |-> "DT_File"]
<1>17. PICK k : Edited(inodes, U, {}, {Place(p, k)}, e)
  <2>1. Updates(inodes, U, p)
    BY <1>13, <1>14, Zenon DEF Updates
  <2>2. U[p].entries = AddChild(inodes[p].entries, t, n, "DT_File")
    BY <1>13, Zenon DEF es
  <2>3. t \in DOMAIN U \ {Root} /\ U[t].kind # "dir"
    BY <1>3, <1>5, <1>13, Zenon
  <2>4. Adds(inodes, U, p, t, n, "DT_File")
    BY <1>1, <1>7, <1>16, <2>1, <2>2, <2>3, ZenonT(40) DEF Adds
  <2> QED
    BY <1>2, <2>4, AddEdits, Zenon
<1>18. e.ino = t
  BY Zenon
<1> HIDE DEF e
<1>19. Sound(U)
  <2>1. /\ DOMAIN U = DOMAIN inodes \cup {e.ino} /\ e.ino \in DOMAIN inodes /\ inodes[e.ino].kind # "dir"
        /\ U[e.ino].nlink = inodes[e.ino].nlink + 1
        /\ \A i \in DOMAIN inodes \ {e.ino} : U[i].nlink = inodes[i].nlink
    BY <1>3, <1>13, <1>15, <1>18, Zenon DEF x
  <2> QED
    BY <1>1, <1>17, <2>1, LinkAdded, Zenon
<1> QED
  BY <1>17, <1>19, EditStays, Zenon

\* The table that RmDir and Unlink make.
Removed(p, n) == [inodes EXCEPT ![p].entries = RemoveChild(@, n), ![Child(p, n)].nlink = @ - 1]

\* RmDir and Unlink.
LEMMA RemoveSound ==
    ASSUME Sound(inodes), NEW p \in Allocated, NEW n \in Names, Child(p, n) # 0,
           Used(inodes[Child(p, n)].entries) = {}, NEW U, U = Removed(p, n)
    PROVE  Sound(U) /\ Stays(inodes, U)
<1> DEFINE c == Child(p, n)
           es == RemoveChild(inodes[p].entries, n)
           k == findChild(inodes[p].entries, n)
           L == WithEntries(inodes, p, es)
           x == inodes[c].nlink - 1
<1>1. Shape(inodes) /\ Counted(inodes) /\ p \in DOMAIN inodes
  BY Zenon DEF Sound, Allocated
<1>2. k \in Used(inodes[p].entries) /\ inodes[p].entries[k].ino = c /\ c \in DOMAIN inodes \ {Root}
  BY ChildIs DEF Allocated
<1>3. p # c
  BY <1>2, Zenon
<1>4. /\ inodes \in Seq(InodeRecords) /\ Len(inodes) \in 1 .. MaxInodes
      /\ EntriesOK(inodes[p].entries) /\ inodes[c].nlink \in Nat
  BY <1>1, <1>2, TableIs, ZenonT(40)
<1>5. x \in Nat
  <2>1. Place(p, k) \in Links(inodes, c)
    BY <1>1, <1>2, LinkIsPlace
  <2>2. IsFiniteSet(Links(inodes, c)) /\ Cardinality(Links(inodes, c)) <= inodes[c].nlink
    BY <1>1, <1>2, Zenon DEF Counted
  <2>3. Cardinality({Place(p, k)}) <= Cardinality(Links(inodes, c)) /\ Cardinality({Place(p, k)}) = 1
    BY <2>1, <2>2, FS_Subset, Singletons, Zenon
  <2>4. Cardinality(Links(inodes, c)) \in Nat
    BY <2>2, FS_CardinalityType, Zenon
  <2> QED
    BY <1>4, <2>2, <2>3, <2>4
<1>6. EntriesOK(es)
  BY <1>2, <1>4, ChildRemoved, Zenon
<1>7. U = WithNlink(L, c, x)
  BY <1>1, <1>2, <1>3, <1>4 DEF WithEntries, WithNlink, Removed
<1> HIDE DEF L, es, x, c
<1>8. EntriesSet(inodes, p, es, L)
  BY <1>1, <1>4, <1>6, SetEntries, Zenon DEF L, EntriesOK
<1>9. c \in DOMAIN L /\ L \in Seq(InodeRecords)
  BY <1>2, <1>8, Zenon DEF EntriesSet
<1>10. NlinkSet(L, c, x, U)
  BY <1>5, <1>7, <1>9, SetNlink, Zenon
<1>11. /\ U \in Seq(InodeRecords) /\ Len(U) \in 1 .. MaxInodes /\ DOMAIN U = DOMAIN inodes
       /\ U[p].entries = es
       /\ \A i \in DOMAIN inodes : U[i].kind = inodes[i].kind
  BY <1>1, <1>4, <1>8, <1>10, Zenon DEF NlinkSet, EntriesSet
<1>12. \A i \in DOMAIN inodes \ {p} : U[i].entries = inodes[i].entries
  BY <1>8, <1>10, Zenon DEF NlinkSet, EntriesSet
<1>13. U[c].nlink = x /\ \A i \in DOMAIN inodes \ {c} : U[i].nlink = inodes[i].nlink
  BY <1>2, <1>8, <1>10, ZenonT(40) DEF NlinkSet, EntriesSet
<1>14. Edited(inodes, U, {Place(p, k)}, {}, Unused)
  <2>1. Updates(inodes, U, p)
    BY <1>11, <1>12, Zenon DEF Updates
  <2>2. U[p].entries = RemoveChild(inodes[p].entries, n)
    BY <1>11, Zenon DEF es
  <2> QED
    BY <1>1, <1>2, <1>11, <2>1, <2>2, RemoveEdits, Zenon
<1>15. Sound(U)
  <2>1. U[c].nlink >= inodes[c].nlink - 1
    BY <1>4, <1>13 DEF x
  <2>2. Used(inodes[c].entries) = {}
    BY Zenon DEF c
  <2>3. p \in DOMAIN inodes /\ k \in Used(inodes[p].entries) /\ inodes[p].entries[k].ino = c
    BY <1>1, <1>2, Zenon
  <2>4. DOMAIN U = DOMAIN inodes /\ \A i \in DOMAIN inodes \ {c} : U[i].nlink = inodes[i].nlink
    BY <1>11, <1>13, Zenon
  <2>5. Drops(inodes, U, p, k, c)
    BY <1>14, <2>1, <2>2, <2>3, <2>4, ZenonT(40) DEF Drops
  <2> QED
    BY <2>5, LinkRemoved, Zenon
<1> QED
  BY <1>14, <1>15, EditStays, Zenon

\* The table after Rename has removed the entry it replaces, and the place of that entry.
Replaced(q, m) ==
    IF Child(q, m) = 0 THEN inodes ELSE [inodes EXCEPT ![q].entries = RemoveChild(@, m)]
Gone(q, m) == IF Child(q, m) = 0 THEN {} ELSE {Place(q, findChild(inodes[q].entries, m))}

\* What Rename may rely on then.
ReplacedOK(q, m, R) ==
    /\ Sound(R) /\ Edited(inodes, R, Gone(q, m), {}, Unused) /\ DOMAIN R = DOMAIN inodes
    /\ \A i \in DOMAIN inodes : R[i].kind = inodes[i].kind /\ R[i].nlink = inodes[i].nlink
    /\ \A j \in Used(R[q].entries) : R[q].entries[j].name # m

\* The first part of Rename.
LEMMA ReplaceSound ==
    ASSUME Sound(inodes), NEW q \in Allocated, NEW m \in Names,
           Child(q, m) # 0 => Used(inodes[Child(q, m)].entries) = {},
           NEW R, R = Replaced(q, m)
    PROVE  ReplacedOK(q, m, R)
<1> DEFINE c == Child(q, m)
           k == findChild(inodes[q].entries, m)
           es == RemoveChild(inodes[q].entries, m)
<1>1. Shape(inodes) /\ q \in DOMAIN inodes
  BY Zenon DEF Sound, Allocated
<1>2. /\ c = 0 => \A j \in Used(inodes[q].entries) : inodes[q].entries[j].name # m
      /\ c # 0 => /\ k \in Used(inodes[q].entries) /\ inodes[q].entries[k].ino = c
                  /\ inodes[q].entries[k].name = m /\ c \in DOMAIN inodes
  BY ChildIs DEF Allocated
<1>3. /\ inodes \in Seq(InodeRecords) /\ Len(inodes) \in 1 .. MaxInodes
      /\ \A i \in DOMAIN inodes : inodes[i].nlink \in Nat /\ EntriesOK(inodes[i].entries)
  BY <1>1, TableIs, Zenon
<1>4. CASE c = 0
  <2>1. R = inodes
    BY <1>4, Zenon DEF Replaced
  <2>2. \A i, j : Place(i, j) \notin {}
    BY Zenon
  <2>3. \A i \in DOMAIN inodes : inodes[i].kind # "dir" => inodes[i].entries = << >>
    BY <1>1, Zenon DEF Shape
  <2>4. \A i, j : Kept(inodes, {}, i, j) <=> i \in DOMAIN inodes /\ j \in Used(inodes[i].entries)
    BY Zenon DEF Kept
  <2>5. Edited(inodes, inodes, {}, {}, Unused)
    BY <1>3, <2>2, <2>3, <2>4, Zenon DEF Edited
  <2>6. Gone(q, m) = {}
    BY <1>4, Zenon DEF Gone
  <2>7. Edited(inodes, R, Gone(q, m), {}, Unused)
    BY <2>1, <2>5, <2>6, Zenon
  <2> QED
    BY <1>2, <1>4, <2>1, <2>7, Zenon DEF ReplacedOK
<1>5. CASE c # 0
  <2>1. R = WithEntries(inodes, q, es)
    BY <1>5, Zenon DEF Replaced, WithEntries
  <2>2. EntriesOK(es)
    BY <1>1, <1>2, <1>3, <1>5, ChildRemoved, Zenon
  <2>3. k \in Used(inodes[q].entries) /\ inodes[q].entries[k].ino = c /\ c \in DOMAIN inodes
    BY <1>2, <1>5, Zenon
  <2> HIDE DEF es
  <2>4. EntriesSet(inodes, q, es, R)
    BY <1>1, <1>3, <2>1, <2>2, SetEntries, Zenon DEF EntriesOK
  <2>5. /\ R \in Seq(InodeRecords) /\ Len(R) \in 1 .. MaxInodes /\ DOMAIN R = DOMAIN inodes
        /\ R[q].entries = es
        /\ \A i \in DOMAIN inodes : R[i].kind = inodes[i].kind /\ R[i].nlink = inodes[i].nlink
    BY <1>3, <2>4, Zenon DEF EntriesSet
  <2>6. \A i \in DOMAIN inodes \ {q} : R[i].entries = inodes[i].entries
    BY <2>4, Zenon DEF EntriesSet
  <2>7. Updates(inodes, R, q)
    BY <2>5, <2>6, Zenon DEF Updates
  <2>8. Edited(inodes, R, {Place(q, k)}, {}, Unused)
    <3>1. R[q].entries = RemoveChild(inodes[q].entries, m)
      BY <2>5, Zenon DEF es
    <3> QED
      BY <1>1, <2>3, <2>5, <2>7, <3>1, RemoveEdits, ZenonT(40)
  <2>9. Sound(R)
    <3>1. Used(inodes[c].entries) = {}
      BY <1>5, Zenon
    <3>2. R[c].nlink >= inodes[c].nlink - 1
      BY <1>3, <2>3, <2>5
    <3>3. Drops(inodes, R, q, k, c)
      BY <1>1, <2>3, <2>5, <2>8, <3>1, <3>2, ZenonT(40) DEF Drops
    <3> QED
      BY <3>3, LinkRemoved, Zenon
  <2>10. ASSUME NEW j \in Used(R[q].entries) PROVE R[q].entries[j].name # m
    <3>1. j \in Used(R[q].entries) <=> Place(q, j) \in {} \/ Kept(inodes, {Place(q, k)}, q, j)
      BY <1>1, <2>5, <2>8, Zenon DEF Edited
    <3>2. Kept(inodes, {Place(q, k)}, q, j)
      BY <3>1, Zenon
    <3>3. R[q].entries[j] = inodes[q].entries[j]
      BY <2>8, <3>2, ZenonT(40) DEF Edited
    <3>4. j # k /\ j \in Used(inodes[q].entries)
      BY <3>2, Zenon DEF Kept
    <3> QED
      BY <1>1, <1>2, <1>5, <3>3, <3>4, ZenonT(40) DEF Shape
  <2>11. Gone(q, m) = {Place(q, k)}
    BY <1>5, Zenon DEF Gone
  <2>12. Edited(inodes, R, Gone(q, m), {}, Unused)
    BY <2>8, <2>11, Zenon
  <2> QED
    BY <2>5, <2>9, <2>10, <2>12, Zenon DEF ReplacedOK
<1> QED
  BY <1>4, <1>5, Zenon

\* findChild finds a used entry by its name.
LEMMA FindsEntry ==
    ASSUME NEW T, Shape(T), NEW p \in DOMAIN T, NEW k \in Used(T[p].entries)
    PROVE  findChild(T[p].entries, T[p].entries[k].name) = k
<1> DEFINE es == T[p].entries
           n == T[p].entries[k].name
           f == findChild(es, n)
<1>1. EntriesOK(es)
  BY Zenon DEF Shape
<1>2. n \in Names
  BY <1>1, UsedAreIndices, Zenon
<1>3. f # 0 /\ f \in Used(es) /\ es[f].name = n
  BY <1>1, <1>2, FoundChild, Zenon
<1> QED
  BY <1>3, Zenon DEF Shape

\* The table with entry k of p moved to q under the name m: the second part of Rename.
MoveAdds(R, p, k, q, m) ==
    WithEntries(R, q, AddChild(R[q].entries, R[p].entries[k].ino, m, R[p].entries[k].type))
Moved(R, p, k, q, m) ==
    LET L == MoveAdds(R, p, k, q, m)
    IN  WithEntries(L, p, RemoveChild(L[p].entries, R[p].entries[k].name))
NewName(R, p, k, m) == [ino |-> R[p].entries[k].ino, name |-> m, type |-> R[p].entries[k].type]

\* That is an edit.
LEMMA MoveEdits ==
    ASSUME NEW R, Sound(R), NEW p \in DOMAIN R, NEW k \in Used(R[p].entries),
           NEW q \in DOMAIN R, R[q].kind = "dir", NEW m \in Names,
           \A j \in Used(R[q].entries) : R[q].entries[j].name # m,
           NEW U, U = Moved(R, p, k, q, m)
    PROVE  /\ DOMAIN U = DOMAIN R /\ \A i \in DOMAIN R : U[i].nlink = R[i].nlink
           /\ \E j : /\ j \notin Used(R[q].entries)
                     /\ Edited(R, U, {Place(p, k)}, {Place(q, j)}, NewName(R, p, k, m))
<1> DEFINE c == R[p].entries[k].ino
           t == R[p].entries[k].type
           n == R[p].entries[k].name
           L == MoveAdds(R, p, k, q, m)
           es == AddChild(R[q].entries, c, m, t)
           fs == RemoveChild(L[p].entries, n)
<1>1. Shape(R) /\ Refs(R)
  BY Zenon DEF Sound
<1>2. /\ R \in Seq(InodeRecords) /\ Len(R) \in 1 .. MaxInodes /\ DOMAIN R \subseteq IDs
      /\ EntriesOK(R[p].entries) /\ EntriesOK(R[q].entries)
  BY <1>1, TableIs, Zenon
<1>3. c \in DOMAIN R \ {Root} /\ (t = "DT_Directory" <=> R[c].kind = "dir")
  BY <1>1, Zenon DEF Refs
<1>4. t \in DirentTypes \ {"DT_Unknown"} /\ c \in IDs
  <2>1. R[p].entries[k] \in Dirents /\ t # "DT_Unknown"
    BY <1>2, UsedAreIndices, Zenon DEF Used
  <2>2. t \in DirentTypes
    BY <2>1, Zenon DEF Dirents
  <2> QED
    BY <1>2, <1>3, <2>1, <2>2, Zenon
<1> HIDE DEF c, t
<1>5. EntriesOK(es)
  BY <1>2, <1>4, AddedOK, Zenon
<1>6. L = WithEntries(R, q, es)
  BY Zenon DEF MoveAdds, c, t
<1> HIDE DEF L
<1>7. EntriesSet(R, q, es, L)
  BY <1>2, <1>5, <1>6, SetEntries, Zenon DEF EntriesOK
<1>8. /\ L \in Seq(InodeRecords) /\ Len(L) \in 1 .. MaxInodes /\ DOMAIN L = DOMAIN R
      /\ L[q].entries = es
      /\ \A i \in DOMAIN R : L[i].kind = R[i].kind /\ L[i].nlink = R[i].nlink
  BY <1>2, <1>7, Zenon DEF EntriesSet
<1>9. \A i \in DOMAIN R \ {q} : L[i].entries = R[i].entries
  BY <1>7, Zenon DEF EntriesSet
<1> DEFINE e == [ino |-> c, name |-> m, type |-> t]
<1>10. PICK j : j \notin Used(R[q].entries) /\ Edited(R, L, {}, {Place(q, j)}, e)
  <2>1. Updates(R, L, q)
    BY <1>8, <1>9, Zenon DEF Updates
  <2>2. c \in DOMAIN L \ {Root} /\ (t = "DT_Directory" <=> L[c].kind = "dir")
    BY <1>3, <1>8, Zenon
  <2>3. Adds(R, L, q, c, m, t)
    BY <1>4, <1>8, <2>1, <2>2, Zenon DEF Adds
  <2> QED
    BY <1>1, <2>3, AddEdits, Zenon
<1>11. e = NewName(R, p, k, m)
  BY Zenon DEF NewName, c, t
<1> HIDE DEF e
<1>12. Shape(L)
  BY <1>1, <1>10, EditedShape, Zenon
<1>13. p \in DOMAIN L /\ k \in Used(L[p].entries) /\ L[p].entries[k].name = n
  <2>1. Kept(R, {}, p, k)
    BY Zenon DEF Kept
  <2>2. \A i, l : Kept(R, {}, i, l) => L[i].entries[l] = R[i].entries[l]
    BY <1>10, Zenon DEF Edited
  <2>3. k \in Used(L[p].entries) <=> Place(p, k) \in {Place(q, j)} \/ Kept(R, {}, p, k)
    BY <1>8, <1>10, Zenon DEF Edited
  <2> QED
    BY <1>8, <2>1, <2>2, <2>3, Zenon
<1> HIDE DEF n
<1>14. findChild(L[p].entries, n) = k /\ EntriesOK(L[p].entries)
  BY <1>12, <1>13, FindsEntry, TableIs, Zenon
<1>15. EntriesOK(fs)
  <2>1. findChild(L[p].entries, n) \in Used(L[p].entries)
    BY <1>13, <1>14, Zenon
  <2> QED
    BY <1>14, <2>1, ChildRemoved, Zenon
<1>16. U = WithEntries(L, p, fs)
  BY Zenon DEF Moved, L, n
<1> HIDE DEF fs
<1>17. EntriesSet(L, p, fs, U)
  BY <1>8, <1>13, <1>15, <1>16, SetEntries, ZenonT(40) DEF EntriesOK
<1>18. /\ U \in Seq(InodeRecords) /\ Len(U) \in 1 .. MaxInodes /\ DOMAIN U = DOMAIN L
       /\ U[p].entries = fs
       /\ \A i \in DOMAIN L : U[i].kind = L[i].kind /\ U[i].nlink = L[i].nlink
  BY <1>8, <1>17, Zenon DEF EntriesSet
<1>19. \A i \in DOMAIN L \ {p} : U[i].entries = L[i].entries
  BY <1>17, Zenon DEF EntriesSet
<1>20. Edited(L, U, {Place(p, k)}, {}, Unused)
  <2>1. U[p].entries = RemoveChild(L[p].entries, n)
    BY <1>18, Zenon DEF fs
  <2>2. Updates(L, U, p)
    BY <1>18, <1>19, Zenon DEF Updates
  <2> QED
    BY <1>12, <1>13, <1>14, <1>18, <2>1, <2>2, RemoveEdits, ZenonT(40)
<1>21. Place(q, j) # Place(p, k)
  BY <1>10, PlacesDiffer
<1>22. Edited(R, U, {Place(p, k)}, {Place(q, j)}, e)
  BY <1>10, <1>18, <1>20, <1>21, AddThenRemove, ZenonT(40)
<1> QED
  BY <1>8, <1>10, <1>11, <1>18, <1>22, ZenonT(40)

\* The table that Rename makes.
Renamed(p, n, q, m) ==
    LET linked == [Replaced(q, m) EXCEPT ![q].entries = AddChild(@, Child(p, n), m, ChildType(p, n))]
    IN  [linked EXCEPT ![p].entries = RemoveChild(@, n)]

\* Rename.
LEMMA RenameSound ==
    ASSUME Sound(inodes), NEW p, NEW n \in Names, NEW q, NEW m \in Names, RenameAllowed(p, n, q, m),
           Child(p, n) # 0, Child(q, m) # 0 => Used(inodes[Child(q, m)].entries) = {},
           NEW U, U = Renamed(p, n, q, m)
    PROVE  Sound(U) /\ Stays(inodes, U)
<1> DEFINE c == Child(p, n)
           k == findChild(inodes[p].entries, n)
           r == findChild(inodes[q].entries, m)
           R == Replaced(q, m)
           G == Gone(q, m)
           e == NewName(R, p, k, m)
<1>1. LiveDir(p) /\ LiveDir(q) /\ c # Child(q, m) /\ ~Within(q, c)
  BY Zenon DEF RenameAllowed
<1>2. /\ p \in DOMAIN inodes
      /\ q \in DOMAIN inodes /\ inodes[q].kind = "dir" /\ (q = Root \/ Links(inodes, q) # {})
  BY <1>1, LiveIs, ZenonT(40)
<1>3. /\ k \in Used(inodes[p].entries) /\ inodes[p].entries[k].name = n
      /\ inodes[p].entries[k].ino = c /\ inodes[p].entries[k].type = ChildType(p, n)
  BY <1>2, ChildIs DEF Allocated
<1>4. /\ Child(q, m) = 0 => \A j \in Used(inodes[q].entries) : inodes[q].entries[j].name # m
      /\ Child(q, m) # 0 => /\ r \in Used(inodes[q].entries) /\ inodes[q].entries[r].name = m
                            /\ inodes[q].entries[r].ino = Child(q, m)
  BY <1>2, ChildIs DEF Allocated
<1>5. ReplacedOK(q, m, R)
  BY <1>2, ReplaceSound, Zenon DEF Allocated
<1> HIDE DEF R
<1>6. /\ Sound(R) /\ Edited(inodes, R, G, {}, Unused) /\ DOMAIN R = DOMAIN inodes
      /\ \A i \in DOMAIN inodes : R[i].kind = inodes[i].kind
      /\ \A j \in Used(R[q].entries) : R[q].entries[j].name # m
  BY <1>5, Zenon DEF ReplacedOK
<1>7. ASSUME NEW i, NEW j, Place(i, j) \in G
      PROVE  i = q /\ j = r /\ Child(q, m) # 0
  BY <1>7, PlacesDiffer DEF Gone
<1>8. k \in Used(R[p].entries) /\ R[p].entries[k] = inodes[p].entries[k]
  <2>1. Kept(inodes, G, p, k)
    <3>1. ASSUME Place(p, k) \in G PROVE FALSE
      <4>1. p = q /\ k = r /\ Child(q, m) # 0
        BY <1>7, <3>1
      <4> QED
        BY <1>1, <1>3, <1>4, <4>1
    <3> QED
      BY <1>2, <1>3, <3>1, ZenonT(40) DEF Kept
  <2>2. k \in Used(R[p].entries) <=> Place(p, k) \in {} \/ Kept(inodes, G, p, k)
    BY <1>2, <1>6, Zenon DEF Edited
  <2>3. \A i, j : Kept(inodes, G, i, j) => R[i].entries[j] = inodes[i].entries[j]
    BY <1>6, Zenon DEF Edited
  <2> QED
    BY <2>1, <2>2, <2>3, Zenon
<1>9. U = Moved(R, p, k, q, m)
  <2>1. R[p].entries[k].ino = c /\ R[p].entries[k].type = ChildType(p, n) /\ R[p].entries[k].name = n
    BY <1>3, <1>8, Zenon
  <2>2. MoveAdds(R, p, k, q, m) = WithEntries(R, q, AddChild(R[q].entries, c, m, ChildType(p, n)))
    BY <2>1, Zenon DEF MoveAdds
  <2> DEFINE L == WithEntries(R, q, AddChild(R[q].entries, c, m, ChildType(p, n)))
  <2>3. U = WithEntries(L, p, RemoveChild(L[p].entries, n))
    BY Zenon DEF Renamed, R, WithEntries
  <2> HIDE DEF L
  <2>4. MoveAdds(R, p, k, q, m) = L
    BY <2>2, Zenon DEF L
  <2> QED
    BY <2>1, <2>3, <2>4, Zenon DEF Moved
<1>10. /\ p \in DOMAIN R /\ q \in DOMAIN R /\ R[q].kind = "dir"
  BY <1>2, <1>6, Zenon
<1> HIDE DEF k, c, r, G
<1>11. /\ DOMAIN U = DOMAIN R /\ \A i \in DOMAIN R : U[i].nlink = R[i].nlink
       /\ \E j : j \notin Used(R[q].entries) /\ Edited(R, U, {Place(p, k)}, {Place(q, j)}, e)
  BY <1>6, <1>8, <1>9, <1>10, MoveEdits, ZenonT(40)
<1>12. PICK j : j \notin Used(R[q].entries) /\ Edited(R, U, {Place(p, k)}, {Place(q, j)}, e)
  BY <1>11, Zenon
<1>13. e.ino = c /\ e.name = m
  BY <1>3, <1>8, Zenon DEF NewName
<1> HIDE DEF e
<1>14. \A i, x, y : Place(x, y) \in Links(R, i) <=> Place(x, y) \in Links(inodes, i) /\ Place(x, y) \notin G
  <2>1. \A i, x, y : Place(x, y) \in Links(R, i) <=>
                       \/ Place(x, y) \in {} /\ Unused.ino = i
                       \/ Place(x, y) \in Links(inodes, i) /\ Place(x, y) \notin G
    BY <1>6, EditedLinks
  <2> QED
    BY <2>1, Zenon
<1>15. PICK V : UpClosed(inodes, V) /\ q \in V /\ c \notin V
  BY <1>1, WithinIs, Zenon
<1>16. UpClosed(R, V)
  BY <1>6, <1>14, <1>15, Zenon DEF UpClosed
<1>17. q = Root \/ Links(R, q) # {}
  <2> SUFFICES ASSUME q # Root PROVE Links(R, q) # {}
    BY Zenon
  <2>1. PICK x, y : Place(x, y) \in Links(inodes, q)
    BY <1>2, LinksArePlaces
  <2>2. x \in DOMAIN inodes /\ inodes[x].entries[y].ino = q
    BY <2>1, LinkIsPlace
  <2>3. ASSUME Place(x, y) \in G PROVE FALSE
    <3>1. x = q /\ y = r /\ Child(q, m) # 0
      BY <1>7, <2>3
    <3>2. Child(q, m) = q /\ r \in Used(inodes[q].entries)
      BY <1>4, <2>2, <3>1, Zenon
    <3> QED
      BY <3>1, <3>2, Zenon
  <2> QED
    BY <1>14, <2>1, <2>3, Zenon
<1>18. Sound(U)
  <2>1. R[p].entries[k].ino = c
    BY <1>3, <1>8, Zenon
  <2>2. Moves(R, U, p, k, q, j, c, e, V)
    BY <1>8, <1>10, <1>11, <1>12, <1>13, <1>15, <1>16, <1>17, <2>1, ZenonT(40) DEF Moves
  <2> QED
    BY <1>6, <2>2, LinkMoved, Zenon
<1>19. ASSUME NEW x, NEW y, Place(x, y) \in {Place(q, j)}, NEW i \in Used(inodes[x].entries),
              inodes[x].entries[i].name = e.name, inodes[x].entries[i].ino = e.ino
       PROVE  FALSE
  <2>1. x = q
    BY <1>19, PlacesDiffer
  <2>2. i \in Used(inodes[q].entries) /\ inodes[q].entries[i].name = m /\ inodes[q].entries[i].ino = c
    BY <1>13, <1>19, <2>1, Zenon
  <2>3. Shape(inodes)
    BY Zenon DEF Sound
  <2>4. Child(q, m) # 0 => i = r
    BY <1>2, <1>4, <2>2, <2>3, Zenon DEF Shape
  <2> QED
    BY <1>1, <1>4, <2>2, <2>4, ZenonT(40) DEF c
<1>20. Stays(inodes, U)
  <2>1. \A x, y : Place(x, y) \in {Place(q, j)} =>
          \A i \in Used(inodes[x].entries) :
            ~(inodes[x].entries[i].name = e.name /\ inodes[x].entries[i].ino = e.ino)
    BY <1>19
  <2> QED
    BY <1>6, <1>12, <2>1, RemoveThenEdit, ZenonT(40)
<1> QED
  BY <1>18, <1>20, Zenon

-----------------------------------------------------------------------------
(* Listings *)

\* got has used entries beyond the offset, without a gap, and at least one if there is one.
NextBatch(es, offset, got) ==
    /\ got \subseteq Used(es) /\ \A i \in got : i > offset
    /\ got = {} => \A k \in Used(es) : k <= offset
    /\ got # {} => /\ Max(got) \in got /\ \A i \in got : i <= Max(got)
                   /\ \A k \in Used(es) : k > offset /\ k <= Max(got) => k \in got

\* What one ReadDir returns.
LEMMA ReadDirIs ==
    ASSUME NEW es, EntriesOK(es), NEW offset \in Nat, NEW got, got = ReadDirFrom(es, offset)
    PROVE  NextBatch(es, offset, got)
<1> DEFINE Before(i) == {j \in Used(es) : offset < j /\ j < i}
<1>1. \A i : i \in got <=> i \in Used(es) /\ i > offset /\ Cardinality(Before(i)) < Room
  BY Zenon DEF ReadDirFrom
<1>2. /\ Used(es) \in SUBSET Nat /\ Len(es) \in Nat /\ Used(es) \subseteq 1 .. Len(es)
      /\ \A k \in Used(es) : k <= Len(es)
  BY UsedAreIndices DEF EntriesOK
<1>3. ASSUME NEW i
      PROVE  IsFiniteSet(Before(i)) /\ Cardinality(Before(i)) \in Nat
  <2>1. IsFiniteSet(1 .. Len(es))
    BY <1>2, FS_Interval
  <2>2. Before(i) \subseteq 1 .. Len(es)
    BY <1>2, Zenon
  <2> QED
    BY <2>1, <2>2, FS_Subset, FS_CardinalityType, Zenon
<1>4. ASSUME NEW k \in Used(es), k > offset PROVE got # {}
  <2> DEFINE S == {j \in Used(es) : j > offset}
  <2>1. S \in SUBSET Nat /\ S # {}
    BY <1>2, <1>4, Zenon
  <2>2. PICK l \in S : \A j \in S : l <= j
    BY <2>1, LeastNatural, Zenon
  <2>3. Before(l) = {}
    BY <1>2, <2>2
  <2>4. Cardinality(Before(l)) < Room
    BY <2>3, FS_EmptySet, MemFSAssumption
  <2> QED
    BY <1>1, <2>2, <2>4, Zenon
<1>5. ASSUME got # {} PROVE Max(got) \in got /\ \A i \in got : Max(got) >= i
  <2>1. got \in SUBSET Nat /\ \A i \in got : i <= Len(es)
    BY <1>1, <1>2, Zenon
  <2> QED
    BY <1>2, <1>5, <2>1, MaxOfNaturals, Zenon
<1>6. ASSUME got # {}, NEW k \in Used(es), k > offset, k <= Max(got) PROVE k \in got
  <2>1. Max(got) \in got /\ Max(got) \in Nat /\ k \in Nat
    BY <1>1, <1>2, <1>5, <1>6, Zenon
  <2>2. \A j \in Nat : j < k => j < Max(got)
    BY <1>6, <2>1
  <2>3. Before(k) \subseteq Before(Max(got))
    BY <1>2, <2>2, Zenon
  <2>4. Cardinality(Before(k)) <= Cardinality(Before(Max(got)))
    BY <1>3, <2>3, FS_Subset, Zenon
  <2>5. Cardinality(Before(Max(got))) < Room
    BY <1>1, <2>1, Zenon
  <2>6. Cardinality(Before(k)) < Room
    <3> DEFINE a == Cardinality(Before(k))
               b == Cardinality(Before(Max(got)))
    <3>1. a \in Nat /\ b \in Nat /\ Room \in Nat /\ a <= b /\ b < Room
      BY <1>3, <2>4, <2>5, MemFSAssumption, Zenon
    <3> HIDE DEF a, b
    <3>2. a < Room
      BY <3>1
    <3> QED
      BY <3>2, Zenon DEF a
  <2> QED
    BY <1>1, <1>6, <2>6, Zenon
<1>7. got = {} => \A k \in Used(es) : k <= offset
  BY <1>2, <1>4
<1>8. got # {} => \A i \in got : i <= Max(got)
  BY <1>1, <1>2, <1>5
<1> QED
  BY <1>1, <1>5, <1>6, <1>7, <1>8, ZenonT(40) DEF NextBatch

\* A directory in which ReadDir finds nothing is empty.
LEMMA ReadDirEmpty ==
    ASSUME NEW es, EntriesOK(es), ReadDirFrom(es, 0) = {}
    PROVE  Used(es) = {}
<1>1. NextBatch(es, 0, {})
  BY ReadDirIs
<1>2. \A k \in Used(es) : k <= 0
  BY <1>1, Zenon DEF NextBatch
<1> QED
  BY <1>2, UsedAreIndices

Scans == [dir : IDs \cup {0}, offset : Nat, stable : SUBSET (Names \X IDs),
          seen : SUBSET (Names \X IDs), twice : BOOLEAN, eof : BOOLEAN]

\* The listing s of a directory with entries es: what has been there all the time has been
\* seen up to the offset and not beyond.
Progress(es, s) ==
    /\ s.stable \subseteq Listed(es) /\ s.seen \subseteq s.stable
    /\ \A k \in Used(es) : Pair(es, k) \in s.stable =>
         /\ Pair(es, k) \in s.seen <=> k <= s.offset
         /\ s.eof => k <= s.offset

\* The invariant of a listing.
ScanOK(T, s) ==
    /\ s \in Scans /\ s.twice = FALSE
    /\ s.dir = 0 => s.eof = FALSE
    /\ s.dir # 0 => s.dir \in DOMAIN T /\ Progress(T[s.dir].entries, s)

\* The listing after a change of the table.
Trimmed(s, U) ==
    IF s.dir = 0 THEN s
    ELSE LET still == s.stable \cap Listed(U[s.dir].entries)
         IN  [s EXCEPT !.stable = still, !.seen = @ \cap still]

\* The directory changes during a listing.
LEMMA ScanTrimmed ==
    ASSUME NEW T, NEW U, NEW s, NEW r, ScanOK(T, s), Stays(T, U), r = Trimmed(s, U)
    PROVE  ScanOK(U, r)
<1>1. CASE s.dir = 0
  <2>1. r = s
    BY <1>1, Zenon DEF Trimmed
  <2> QED
    BY <1>1, <2>1, Zenon DEF ScanOK
<1>2. CASE s.dir # 0
  <2> DEFINE es == T[s.dir].entries
             fs == U[s.dir].entries
             still == s.stable \cap Listed(fs)
  <2>1. s \in Scans /\ s.twice = FALSE /\ s.dir \in DOMAIN T /\ Progress(es, s)
    BY <1>2, Zenon DEF ScanOK
  <2>2. r = [s EXCEPT !.stable = still, !.seen = @ \cap still]
    BY <1>2, Zenon DEF Trimmed
  <2>3. still \in SUBSET (Names \X IDs) /\ s.seen \cap still \in SUBSET (Names \X IDs)
    BY <2>1, Zenon DEF Scans
  <2> HIDE DEF still
  <2>4. /\ r \in Scans /\ r.twice = s.twice /\ r.dir = s.dir /\ r.eof = s.eof /\ r.offset = s.offset
        /\ r.stable = still /\ r.seen = s.seen \cap still
    BY <2>1, <2>2, <2>3, Zenon DEF Scans
  <2>5. ASSUME NEW k \in Used(fs), Pair(fs, k) \in still
        PROVE  /\ Pair(fs, k) \in s.seen \cap still <=> k <= s.offset
               /\ s.eof => k <= s.offset
    <3>1. Pair(fs, k) \in s.stable /\ s.stable \subseteq Listed(es)
      BY <2>1, <2>5, Zenon DEF still, Progress
    <3>2. k \in Used(es) /\ fs[k] = es[k]
      BY <2>1, <3>1, Zenon DEF Stays
    <3>3. Pair(fs, k) = Pair(es, k)
      BY <3>2, Zenon DEF Pair
    <3> QED
      BY <2>1, <2>5, <3>1, <3>2, <3>3, Zenon DEF Progress
  <2>6. Progress(fs, r)
    BY <2>4, <2>5, Zenon DEF Progress, still
  <2>7. r.dir \in DOMAIN U /\ U[r.dir].entries = fs
    BY <2>1, <2>4, Zenon DEF Stays
  <2> QED
    BY <1>2, <2>1, <2>4, <2>6, <2>7, Zenon DEF ScanOK
<1> QED
  BY <1>1, <1>2, Zenon

\* The end of opendir.
LEMMA ScanOpened ==
    ASSUME NEW T, Sound(T), NEW d \in DOMAIN T, NEW r,
           r = [Closed EXCEPT !.dir = d, !.stable = Listed(T[d].entries)]
    PROVE  ScanOK(T, r)
<1> DEFINE es == T[d].entries
<1>1. Shape(T) /\ Refs(T)
  BY Zenon DEF Sound
<1>2. d \in IDs /\ DOMAIN T \subseteq IDs /\ EntriesOK(es) /\ d # 0
  BY <1>1, TableIs, Zenon
<1>3. \A k \in Used(es) : es[k].name \in Names /\ es[k].ino \in IDs
  BY <1>1, <1>2, UsedAreIndices, Zenon DEF Refs
<1>4. Listed(es) \in SUBSET (Names \X IDs)
  BY <1>3 DEF Listed
<1>5. /\ r.dir = d /\ r.offset = 0 /\ r.stable = Listed(es) /\ r.seen = {}
      /\ r.twice = FALSE /\ r.eof = FALSE
  BY Zenon DEF Closed
<1>6. r \in Scans
  <2>1. Closed \in Scans
    BY DEF Closed, Scans
  <2> QED
    BY <1>2, <1>4, <2>1, Zenon DEF Scans
<1>7. \A k \in Used(es) : ~(k <= 0)
  BY <1>2, UsedAreIndices
<1>8. Progress(es, r)
  BY <1>5, <1>7, Zenon DEF Progress
<1> QED
  BY <1>2, <1>5, <1>6, <1>8, ZenonT(40) DEF ScanOK

\* What ReadDir does to the listing.
Advanced(s, es, got) ==
    LET new == {Pair(es, i) : i \in got} \cap s.stable
    IN  [s EXCEPT !.offset = IF got = {} THEN @ ELSE Max(got), !.seen = @ \cup new,
                  !.twice = @ \/ new \cap s.seen # {}, !.eof = got = {}]

\* ReadDir.
LEMMA ScanAdvanced ==
    ASSUME NEW T, Sound(T), NEW s, ScanOK(T, s), s.dir # 0, NEW es, es = T[s.dir].entries,
           NEW r, r = Advanced(s, es, ReadDirFrom(es, s.offset))
    PROVE  ScanOK(T, r)
<1> DEFINE got == ReadDirFrom(es, s.offset)
           new == {Pair(es, i) : i \in got} \cap s.stable
           off == IF got = {} THEN s.offset ELSE Max(got)
<1>1. s \in Scans /\ s.twice = FALSE /\ s.dir \in DOMAIN T /\ Progress(es, s)
  BY Zenon DEF ScanOK
<1>2. EntriesOK(es) /\ \A j, k \in Used(es) : es[j].name = es[k].name => j = k
  BY <1>1, Zenon DEF Sound, Shape
<1>3. s.offset \in Nat /\ s.stable \in SUBSET (Names \X IDs) /\ s.seen \in SUBSET (Names \X IDs)
  BY <1>1, Zenon DEF Scans
<1>4. /\ got \subseteq Used(es) /\ \A i \in got : i > s.offset
      /\ got = {} => \A k \in Used(es) : k <= s.offset
      /\ got # {} => /\ Max(got) \in got /\ \A i \in got : i <= Max(got)
                     /\ \A k \in Used(es) : k > s.offset /\ k <= Max(got) => k \in got
  <2>1. NextBatch(es, s.offset, got)
    BY <1>2, <1>3, ReadDirIs, ZenonT(40)
  <2> HIDE DEF got
  <2> QED
    BY <2>1, Zenon DEF NextBatch
<1> HIDE DEF got
<1>5. Used(es) \subseteq Nat
  BY <1>2, UsedAreIndices
<1>6. off \in Nat /\ s.offset <= off
  BY <1>3, <1>4, <1>5
<1>7. \A i, k \in Used(es) : Pair(es, i) = Pair(es, k) => i = k
  BY <1>2 DEF Pair
<1>8. ASSUME NEW k \in Used(es), Pair(es, k) \in s.stable
      PROVE  /\ Pair(es, k) \in s.seen <=> k <= s.offset
             /\ Pair(es, k) \in new <=> k \in got
             /\ k \in Nat
  <2>1. Pair(es, k) \in s.seen <=> k <= s.offset
    BY <1>1, <1>8, Zenon DEF Progress
  <2>2. Pair(es, k) \in new <=> \E i \in got : Pair(es, k) = Pair(es, i)
    BY <1>8, Zenon
  <2>3. (\E i \in got : Pair(es, k) = Pair(es, i)) <=> k \in got
    BY <1>4, <1>7
  <2> QED
    BY <1>5, <2>1, <2>2, <2>3, ZenonT(40)
<1>9. ASSUME NEW k \in Used(es), Pair(es, k) \in s.stable
      PROVE  Pair(es, k) \in s.seen \cup new <=> k <= off
  <2>1. k <= s.offset \/ k \in got <=> k <= off
    BY <1>3, <1>4, <1>5
  <2> QED
    BY <1>8, <1>9, <2>1, ZenonT(40)
<1>10. new \cap s.seen = {}
  <2> SUFFICES ASSUME NEW x \in new, x \in s.seen PROVE FALSE
    BY Zenon
  <2>1. PICK i \in got : x = Pair(es, i) /\ x \in s.stable
    BY Zenon
  <2>2. i \in Used(es) /\ i > s.offset /\ i \in Nat
    BY <1>4, <1>5, <2>1, Zenon
  <2>3. i <= s.offset
    BY <1>8, <2>1, <2>2, Zenon
  <2> QED
    BY <1>3, <2>2, <2>3
<1>11. new \in SUBSET s.stable /\ s.seen \cup new \in SUBSET (Names \X IDs)
  BY <1>3, Zenon
<1>12. r = [s EXCEPT !.offset = off, !.seen = s.seen \cup new, !.twice = FALSE, !.eof = got = {}]
  <2>1. (s.twice \/ new \cap s.seen # {}) = FALSE
    BY <1>1, <1>10, Zenon
  <2> QED
    BY <2>1, Zenon DEF Advanced, got
<1> HIDE DEF off, new
<1>13. /\ r \in Scans /\ r.dir = s.dir /\ r.offset = off /\ r.stable = s.stable /\ r.seen = s.seen \cup new
       /\ r.twice = FALSE /\ (r.eof <=> got = {})
  BY <1>1, <1>6, <1>11, <1>12, ZenonT(40) DEF Scans
<1>14. \A k \in Used(es) : r.eof => k <= off
  BY <1>4, <1>13, Zenon DEF off
<1>15. Progress(es, r)
  <2>1. s.stable \subseteq Listed(es) /\ s.seen \subseteq s.stable
    BY <1>1, Zenon DEF Progress
  <2> QED
    BY <1>9, <1>11, <1>13, <1>14, <2>1, Zenon DEF Progress
<1> QED
  BY <1>1, <1>13, <1>15, Zenon DEF ScanOK

-----------------------------------------------------------------------------
(* The invariant and the steps *)

MemInv == Sound(inodes) /\ ScanOK(inodes, scan)

\* A step that leaves everything alone.
LEMMA NothingChanges ==
    ASSUME MemInv, UNCHANGED vars
    PROVE  MemInv'
BY Zenon DEF MemInv, vars

\* A step to a sound table in which the entries stay where they are.
LEMMA TableChanges ==
    ASSUME MemInv, NEW U, Becomes(U), Sound(U) /\ Stays(inodes, U)
    PROVE  MemInv'
<1>1. inodes' = U /\ scan' = Trimmed(scan, U)
  BY Zenon DEF Becomes, Trimmed
<1>2. ScanOK(U, scan')
  BY <1>1, ScanTrimmed, Zenon DEF MemInv
<1> QED
  BY <1>1, <1>2, Zenon DEF MemInv

\* A method that fails.
LEMMA FailsChangesNothing ==
    ASSUME MemInv, NEW e, Fails(e)
    PROVE  MemInv'
BY NothingChanges, Zenon DEF Fails

\* MkDir, CreateFile, MkNode and CreateSymlink.
LEMMA CreateStep ==
    ASSUME MemInv, NEW p, NEW n \in Names, NEW kind \in Kinds, NEW t \in DirentTypes \ {"DT_Unknown"},
           t = "DT_Directory" <=> kind = "dir", Create(p, n, kind, t)
    PROVE  MemInv'
<1>1. CASE Child(p, n) # 0
  BY <1>1, FailsChangesNothing, Zenon DEF Create
<1>2. CASE Child(p, n) = 0
  <2>1. LiveDir(p) /\ Len(inodes) < MaxInodes /\ Becomes(Made(p, n, kind, t))
    BY <1>2, Zenon DEF Create, Made
  <2>2. Sound(Made(p, n, kind, t)) /\ Stays(inodes, Made(p, n, kind, t))
    BY <1>2, <2>1, CreateSound, Zenon DEF MemInv
  <2> QED
    BY <2>1, <2>2, TableChanges, Zenon
<1> QED
  BY <1>1, <1>2, Zenon

\* CreateLink.
LEMMA CreateLinkStep ==
    ASSUME MemInv, NEW p, NEW n \in Names, NEW t, CreateLink(p, n, t)
    PROVE  MemInv'
<1>1. CASE Child(p, n) # 0
  BY <1>1, FailsChangesNothing, Zenon DEF CreateLink
<1>2. CASE Child(p, n) = 0
  <2>1. LiveDir(p) /\ t \in Allocated /\ ~IsDir(t) /\ Becomes(Linked(p, n, t))
    BY <1>2, Zenon DEF CreateLink, Linked
  <2>2. Sound(Linked(p, n, t)) /\ Stays(inodes, Linked(p, n, t))
    BY <1>2, <2>1, CreateLinkSound, Zenon DEF MemInv
  <2> QED
    BY <2>1, <2>2, TableChanges, Zenon
<1> QED
  BY <1>1, <1>2, Zenon

\* The common part of RmDir and Unlink.
LEMMA RemoveStep ==
    ASSUME MemInv, NEW p, NEW n \in Names, LiveDir(p), Child(p, n) # 0,
           Used(inodes[Child(p, n)].entries) = {}, Remove(p, n)
    PROVE  MemInv'
<1>1. p \in Allocated /\ Becomes(Removed(p, n))
  BY Zenon DEF LiveDir, Remove, Removed
<1>2. Sound(Removed(p, n)) /\ Stays(inodes, Removed(p, n))
  BY <1>1, RemoveSound, Zenon DEF MemInv
<1> QED
  BY <1>1, <1>2, TableChanges, Zenon

\* Something that is no directory has no entries.
LEMMA OnlyDirsHaveEntries ==
    ASSUME Sound(inodes), NEW i \in Allocated, ~IsDir(i)
    PROVE  Used(inodes[i].entries) = {}
BY NoEntries, Zenon DEF Sound, Shape, Allocated, IsDir

\* RmDir.
LEMMA RmDirStep ==
    ASSUME MemInv, NEW p, NEW n \in Names, RmDir(p, n)
    PROVE  MemInv'
<1>1. CASE Child(p, n) = 0 \/ Used(inodes[Child(p, n)].entries) # {}
  BY <1>1, FailsChangesNothing, Zenon DEF RmDir
<1>2. CASE Child(p, n) # 0 /\ Used(inodes[Child(p, n)].entries) = {}
  BY <1>2, RemoveStep, Zenon DEF RmDir
<1> QED
  BY <1>1, <1>2, Zenon

\* Unlink.
LEMMA UnlinkStep ==
    ASSUME MemInv, NEW p, NEW n \in Names, Unlink(p, n)
    PROVE  MemInv'
<1>1. CASE Child(p, n) = 0
  BY <1>1, FailsChangesNothing, Zenon DEF Unlink
<1>2. CASE Child(p, n) # 0
  <2>1. LiveDir(p) /\ ~IsDir(Child(p, n)) /\ Remove(p, n) /\ p \in Allocated
    BY <1>2, Zenon DEF Unlink, LiveDir
  <2>2. Child(p, n) \in Allocated
    BY <1>2, <2>1, ChildIs DEF MemInv
  <2>3. Used(inodes[Child(p, n)].entries) = {}
    BY <2>1, <2>2, OnlyDirsHaveEntries, Zenon DEF MemInv
  <2> QED
    BY <1>2, <2>1, <2>3, RemoveStep, Zenon
<1> QED
  BY <1>1, <1>2, Zenon

\* Rename.
LEMMA RenameStep ==
    ASSUME MemInv, NEW p, NEW n \in Names, NEW q, NEW m \in Names, Rename(p, n, q, m)
    PROVE  MemInv'
<1> DEFINE r == Child(q, m)
           full == r # 0 /\ IsDir(r) /\ ReadDirFrom(inodes[r].entries, 0) # {}
<1>1. CASE Child(p, n) = 0 \/ full
  BY <1>1, FailsChangesNothing, Zenon DEF Rename
<1>2. CASE Child(p, n) # 0 /\ ~full
  <2>1. RenameAllowed(p, n, q, m) /\ Becomes(Renamed(p, n, q, m))
    BY <1>2, Zenon DEF Rename, Renamed, Replaced
  <2>2. Used(inodes[r].entries) = {} \/ r = 0
    <3> SUFFICES ASSUME r # 0 PROVE Used(inodes[r].entries) = {}
      BY Zenon
    <3>1. q \in Allocated
      BY <2>1, Zenon DEF RenameAllowed, LiveDir
    <3>2. r \in Allocated
      BY <3>1, ChildIs DEF MemInv
    <3>3. CASE ~IsDir(r)
      BY <3>2, <3>3, OnlyDirsHaveEntries, Zenon DEF MemInv
    <3>4. CASE IsDir(r)
      <4>1. EntriesOK(inodes[r].entries)
        BY <3>2, Zenon DEF MemInv, Sound, Shape, Allocated
      <4>2. ReadDirFrom(inodes[r].entries, 0) = {}
        BY <1>2, <3>4, Zenon
      <4> QED
        BY <4>1, <4>2, ReadDirEmpty, Zenon
    <3> QED
      BY <3>3, <3>4, Zenon
  <2>3. Sound(Renamed(p, n, q, m)) /\ Stays(inodes, Renamed(p, n, q, m))
    BY <1>2, <2>1, <2>2, RenameSound, Zenon DEF MemInv
  <2> QED
    BY <2>1, <2>3, TableChanges, ZenonT(40)
<1> QED
  BY <1>1, <1>2, Zenon

\* OpenDir, ReadDir and CloseDir.
LEMMA ListingSteps ==
    ASSUME MemInv, (\E d \in IDs : OpenDir(d)) \/ ReadDir \/ CloseDir
    PROVE  MemInv'
<1>0. inodes' = inodes /\ Sound(inodes) /\ ScanOK(inodes, scan)
  BY Zenon DEF OpenDir, ReadDir, CloseDir, MemInv
<1>1. CASE \E d \in IDs : OpenDir(d)
  <2>1. PICK d \in IDs : OpenDir(d)
    BY <1>1, Zenon
  <2>2. d \in DOMAIN inodes
    BY <2>1, Zenon DEF OpenDir, LiveDir, Allocated
  <2>3. scan' = [Closed EXCEPT !.dir = d, !.stable = Listed(inodes[d].entries)]
    BY <2>1, Zenon DEF OpenDir
  <2>4. ScanOK(inodes, scan')
    BY <1>0, <2>2, <2>3, ScanOpened, Zenon
  <2> QED
    BY <1>0, <2>4, Zenon DEF MemInv
<1>2. CASE ReadDir
  <2> DEFINE es == inodes[scan.dir].entries
  <2>1. scan.dir # 0 /\ scan' = Advanced(scan, es, ReadDirFrom(es, scan.offset))
    BY <1>2, Zenon DEF ReadDir, Advanced, Pair
  <2>2. ScanOK(inodes, scan')
    BY <1>0, <2>1, ScanAdvanced, Zenon
  <2> QED
    BY <1>0, <2>2, Zenon DEF MemInv
<1>3. CASE CloseDir
  <2>1. scan' = Closed
    BY <1>3, Zenon DEF CloseDir
  <2>2. ScanOK(inodes, Closed)
    <3>1. Closed \in Scans
      BY DEF Closed, Scans
    <3>2. Closed.twice = FALSE /\ Closed.dir = 0 /\ Closed.eof = FALSE
      BY DEF Closed
    <3> QED
      BY <3>1, <3>2, Zenon DEF ScanOK
  <2> QED
    BY <1>0, <2>1, <2>2, Zenon DEF MemInv
<1> QED
  BY <1>1, <1>2, <1>3, Zenon

\* Every step keeps the invariant.
LEMMA MemInvStep ==
    ASSUME MemInv, [Next]_vars
    PROVE  MemInv'
<1>1. CASE UNCHANGED vars
  BY <1>1, NothingChanges, Zenon
<1>2. ASSUME NEW p \in IDs, NEW n \in Names,
             \/ MkDir(p, n) \/ CreateFile(p, n) \/ MkNode(p, n) \/ CreateSymlink(p, n)
      PROVE  MemInv'
  <2>1. /\ "dir" \in Kinds /\ "DT_Directory" \in DirentTypes \ {"DT_Unknown"}
        /\ "file" \in Kinds /\ "DT_File" \in DirentTypes \ {"DT_Unknown"}
        /\ "symlink" \in Kinds /\ "DT_Link" \in DirentTypes \ {"DT_Unknown"}
        /\ "file" # "dir" /\ "symlink" # "dir" /\ "DT_File" # "DT_Directory" /\ "DT_Link" # "DT_Directory"
    BY DEF Kinds, DirentTypes
  <2> QED
    BY <1>2, <2>1, CreateStep, Zenon DEF MkDir, CreateFile, MkNode, CreateSymlink
<1>3. ASSUME NEW p \in IDs, NEW n \in Names,
             \/ RmDir(p, n) \/ Unlink(p, n)
             \/ \E t \in IDs : CreateLink(p, n, t)
             \/ \E q \in IDs, m \in Names : Rename(p, n, q, m)
      PROVE  MemInv'
  BY <1>3, RmDirStep, UnlinkStep, CreateLinkStep, RenameStep, ZenonT(40)
<1>4. CASE Next
  BY <1>2, <1>3, <1>4, ListingSteps, ZenonT(40) DEF Next
<1> QED
  BY <1>1, <1>4, Zenon

\* NewMemFS.
LEMMA MemInvInit ==
    ASSUME Init
    PROVE  MemInv
<1> DEFINE rec == [newInode("dir") EXCEPT !.nlink = 0]
<1>1. rec \in InodeRecords /\ rec.kind = "dir" /\ rec.entries = << >>
  <2> DEFINE new == newInode("dir")
  <2>1. new \in InodeRecords /\ new.kind = "dir" /\ new.entries = << >>
    <3>1. "dir" \in Kinds /\ 1 \in Nat /\ << >> \in Seq(Dirents)
      BY DEF Kinds
    <3> QED
      BY <3>1 DEF newInode, InodeRecords
  <2>2. 0 \in Nat
    OBVIOUS
  <2> HIDE DEF new
  <2> QED
    BY <2>1, <2>2, Zenon DEF InodeRecords, new
<1>2. inodes = <<rec>> /\ scan = Closed
  BY Zenon DEF Init
<1> HIDE DEF rec
<1>3. inodes \in Seq(InodeRecords) /\ Len(inodes) = 1 /\ DOMAIN inodes = {1} /\ inodes[1] = rec
  BY <1>1, <1>2
<1>4. Len(inodes) \in 1 .. MaxInodes /\ Root = 1
  BY <1>3, MemFSAssumption DEF Root, RootInodeID
<1>5. \A p \in DOMAIN inodes : /\ EntriesOK(inodes[p].entries) /\ inodes[p].entries = << >>
                               /\ Used(inodes[p].entries) = {}
  BY <1>1, <1>3, NoEntries, Zenon
<1>6. Shape(inodes) /\ Refs(inodes)
  BY <1>1, <1>3, <1>4, <1>5, ZenonT(40) DEF Shape, Refs
<1>7. ASSUME NEW i PROVE Links(inodes, i) = {}
  <2>1. \A p, k : Place(p, k) \notin Links(inodes, i)
    BY <1>5, LinkIsPlace, Zenon
  <2> QED
    BY <2>1, LinksArePlaces
<1>8. Counted(inodes)
  <2>1. \A i \in DOMAIN inodes : i = Root
    BY <1>3, <1>4, Zenon
  <2> QED
    BY <1>7, <2>1, FS_EmptySet, Zenon DEF Counted
<1>9. Tree(inodes)
  BY <1>3, <1>4, <1>7, Zenon DEF Tree
<1>10. ScanOK(inodes, Closed)
  <2>1. Closed \in Scans
    BY DEF Closed, Scans
  <2>2. Closed.twice = FALSE /\ Closed.dir = 0 /\ Closed.eof = FALSE
    BY DEF Closed
  <2> QED
    BY <2>1, <2>2, Zenon DEF ScanOK
<1> QED
  BY <1>2, <1>6, <1>8, <1>9, <1>10, ZenonT(40) DEF MemInv, Sound

\* The inode table is sound and listings make progress, always.
THEOREM MemInvariance == Spec => []MemInv
BY MemInvInit, MemInvStep, PTL DEF Spec

-----------------------------------------------------------------------------
(* What the invariant implies *)

\* inodes and scan keep their types: no method makes an entry for an inode that does not
\* exist, and no link count becomes negative.
THEOREM TypeCorrectness == Spec => []TypeOK
<1>1. MemInv => TypeOK
  BY Zenon DEF MemInv, Sound, Shape, ScanOK, Scans, TypeOK, InodeRecords
<1> QED
  BY <1>1, MemInvariance, PTL

\* Entries are consistent after every method: names are unique, and an entry refers to an
\* allocated inode and has its type.
THEOREM EntriesAreConsistent == Spec => []EntriesConsistent
<1>1. MemInv => EntriesConsistent
  <2> SUFFICES ASSUME MemInv PROVE EntriesConsistent
    BY Zenon
  <2>1. Shape(inodes) /\ Refs(inodes)
    BY Zenon DEF MemInv, Sound
  <2> QED
    BY <2>1, Zenon DEF Shape, Refs, EntriesConsistent, Allocated, IsDir, Root
<1> QED
  BY <1>1, MemInvariance, PTL

\* Nlink covers the links after every method, so the decrement of RmDir and Unlink never
\* wraps around.
THEOREM LinksAreCovered == Spec => []NlinkCoversLinks
<1>1. MemInv => NlinkCoversLinks
  BY LinksOfTable, Zenon DEF MemInv, Sound, Counted, NlinkCoversLinks, Allocated, Root
<1> QED
  BY <1>1, MemInvariance, PTL

\* The directories form a tree after every method.
THEOREM DirectoriesFormATree == Spec => []DirectoryTree
<1>1. MemInv => DirectoryTree
  <2> SUFFICES ASSUME MemInv, NEW d \in Allocated, IsDir(d)
               PROVE  /\ Cardinality(LinksTo(d)) <= 1
                      /\ LinksTo(d) # {} => Within(d, RootInodeID)
                      /\ d # RootInodeID /\ LinksTo(d) = {} => Used(inodes[d].entries) = {}
    BY Zenon DEF DirectoryTree
  <2>1. /\ \A l, m \in LinksTo(d) : l = m
        /\ LinksTo(d) # {} => UnderRoot(inodes, d)
        /\ d # RootInodeID /\ LinksTo(d) = {} => Used(inodes[d].entries) = {}
    BY LinksOfTable, Zenon DEF MemInv, Sound, Tree, Allocated, IsDir, Root
  <2>2. UnderRoot(inodes, d) => Within(d, RootInodeID)
    BY WithinIs, Zenon DEF UnderRoot, Root
  <2>3. CASE LinksTo(d) = {}
    BY <2>1, <2>3, FS_EmptySet
  <2>4. CASE LinksTo(d) # {}
    <3>1. PICK l : LinksTo(d) = {l}
      BY <2>1, <2>4, Zenon
    <3>2. Cardinality(LinksTo(d)) <= 1
      BY <3>1, Singletons
    <3> QED
      BY <2>1, <2>2, <3>2, Zenon
  <2> QED
    BY <2>3, <2>4, Zenon
<1> QED
  BY <1>1, MemInvariance, PTL

\* Every listing is exact, whatever happens to the directory between two ReadDir calls.
THEOREM ListingsAreExact == Spec => []ListingExact
<1>1. MemInv => ListingExact
  <2> SUFFICES ASSUME MemInv PROVE ListingExact
    BY Zenon
  <2>1. ScanOK(inodes, scan)
    BY Zenon DEF MemInv
  <2>2. ASSUME scan.eof, NEW x \in scan.stable PROVE x \in scan.seen
    <3> DEFINE es == inodes[scan.dir].entries
    <3>1. scan.dir # 0
      BY <2>1, <2>2, Zenon DEF ScanOK
    <3>2. Progress(es, scan)
      BY <2>1, <3>1, Zenon DEF ScanOK
    <3>3. PICK k \in Used(es) : x = Pair(es, k)
      BY <2>2, <3>2, Zenon DEF Progress, Listed, Pair
    <3> QED
      BY <2>2, <3>2, <3>3, Zenon DEF Progress
  <2> QED
    BY <2>1, <2>2, ZenonT(40) DEF ScanOK, ListingExact
<1> QED
  BY <1>1, MemInvariance, PTL
=============================================================================
