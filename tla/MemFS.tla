------------------------------- MODULE MemFS -------------------------------
(***************************************************************************)
(* samples/memfs: the inode table and the directory tree of memFS, and a   *)
(* user who lists a directory while others change it.  Every method runs   *)
(* under fs.mu and is one step.  File contents and extended attributes are *)
(* in MemFile and MemXattr.                                                *)
(*                                                                         *)
(* The kernel sends only requests its VFS layer lets through (external):   *)
(* the guards marked "VFS".  Inode IDs are indices of fs.inodes; index 0   *)
(* is never used and left out.                                             *)
(***************************************************************************)
EXTENDS Integers, Sequences, FiniteSets, FiniteSetsExt

CONSTANTS
    Names,        \* file names
    NoName,       \* the empty name of an unused directory entry
    MaxInodes,    \* how many inodes are ever made (a bound)
    MaxNlink,     \* link counts CreateLink reaches (a bound)
    Room,         \* directory entries that fit into a ReadDir buffer
    Makes,        \* the kinds of inodes the users make
    Listings      \* the directories a user may list

ASSUME MemFSAssumption ==
    /\ NoName \notin Names
    /\ MaxInodes \in Nat \ {0} /\ MaxNlink \in Nat /\ Room \in Nat \ {0}
    /\ Makes \subseteq {"dir", "file", "symlink"}
    /\ Listings \subseteq 1 .. MaxInodes

VARIABLES
    inodes,   \* fs.inodes
    scan      \* an open directory handle and what its user has seen

vars == <<inodes, scan>>

RootInodeID == 1
IDs == 1 .. MaxInodes
Kinds == {"dir", "file", "symlink"}   \* isDir, isFile or isSymlink, by attrs.Mode
DirentTypes == {"DT_Unknown", "DT_Directory", "DT_File", "DT_Link"}
Dirents == [ino : IDs \cup {0}, name : Names \cup {NoName}, type : DirentTypes]

-----------------------------------------------------------------------------
(* inode.go: a directory's entries.  Dirent.Offset is the 1-based index.     *)

Unused == [ino |-> 0, name |-> NoName, type |-> "DT_Unknown"]
Used(es) == {i \in DOMAIN es : es[i].type # "DT_Unknown"}

\* The index of the child within the entries, 0 if there is none.
findChild(es, n) ==
    LET found == {i \in DOMAIN es : es[i].name = n}
    IN  IF found = {} THEN 0 ELSE Min(found)

AddChild(es, id, n, t) ==
    LET e == [ino |-> id, name |-> n, type |-> t]
        gaps == DOMAIN es \ Used(es)
    IN  IF gaps = {} THEN Append(es, e) ELSE [es EXCEPT ![Min(gaps)] = e]

\* Seeded bug: the array is shortened.
RemoveChildCompacts(es, n) ==
    LET k == findChild(es, n)
    IN  SubSeq(es, 1, k - 1) \o SubSeq(es, k + 1, Len(es))

RemoveChild(es, n) == [es EXCEPT ![findChild(es, n)] = Unused]

\* Indices of the entries ReadDir writes for an offset: the used ones from there
\* on, as many as fit.
ReadDirFrom(es, offset) ==
    {i \in Used(es) : i > offset /\ Cardinality({j \in Used(es) : offset < j /\ j < i}) < Room}

newInode(kind) == [kind |-> kind, nlink |-> 1, entries |-> << >>]

-----------------------------------------------------------------------------
IsDir(i) == inodes[i].kind = "dir"
Allocated == DOMAIN inodes
Child(p, n) ==    \* LookUpChild, 0 if not found
    LET k == findChild(inodes[p].entries, n)
    IN  IF k = 0 THEN 0 ELSE inodes[p].entries[k].ino
ChildType(p, n) == inodes[p].entries[findChild(inodes[p].entries, n)].type

\* The directory entries that refer to inode i.
LinksTo(i) ==
    UNION {{<<p, k>> : k \in {k \in Used(inodes[p].entries) : inodes[p].entries[k].ino = i}} :
             p \in Allocated}

\* VFS: a directory that has not been removed.
LiveDir(p) == p \in Allocated /\ IsDir(p) /\ (p = RootInodeID \/ LinksTo(p) # {})

\* The directories with an entry for an inode of S.
Parents(S) == {l[1] : l \in UNION {LinksTo(i) : i \in S}}

\* p is d or below it: d is in every set that has p and the parents of its inodes.
Within(p, d) == \A S \in SUBSET Allocated : p \in S /\ Parents(S) \subseteq S => d \in S

TypeOK ==
    /\ inodes \in Seq([kind : Kinds, nlink : Nat, entries : Seq(Dirents)])
    /\ Len(inodes) \in 1 .. MaxInodes
    /\ scan \in [dir : IDs \cup {0}, offset : Nat, stable : SUBSET (Names \X IDs),
                 seen : SUBSET (Names \X IDs), twice : BOOLEAN, eof : BOOLEAN]

Closed == [dir |-> 0, offset |-> 0, stable |-> {}, seen |-> {}, twice |-> FALSE,
           eof |-> FALSE]

\* NewMemFS.  The root's Nlink is not set.
Init ==
    /\ inodes = <<[newInode("dir") EXCEPT !.nlink = 0]>>
    /\ scan = Closed

\* What a user can tell an entry by.
Listed(es) == {<<es[i].name, es[i].ino>> : i \in Used(es)}

\* A step to the table ins: of the entries there since the scan began, those
\* that are gone no longer are (history).
Becomes(ins) ==
    /\ inodes' = ins
    /\ scan' = IF scan.dir = 0 THEN scan
               ELSE LET still == scan.stable \cap Listed(ins[scan.dir].entries)
                    IN  [scan EXCEPT !.stable = still, !.seen = @ \cap still]

\* A method that returns an error leaves the table alone.
Fails(e) == e \in {"ENOENT", "EEXIST", "ENOTEMPTY"} /\ UNCHANGED vars

-----------------------------------------------------------------------------
(* Methods that make inodes *)

\* Seeded bug: no test whether the name exists.
CreateUnchecked(p, n, kind, type) ==
    /\ LiveDir(p)
    /\ Len(inodes) < MaxInodes /\ kind \in Makes
    /\ Becomes([Append(inodes, newInode(kind))
                  EXCEPT ![p].entries = AddChild(@, Len(inodes) + 1, n, type)])

\* The common part of MkDir, createFile (for CreateFile and MkNode) and
\* CreateSymlink.  freeInodes is always empty, since nothing calls
\* deallocateInode, so allocateInode appends.
Create(p, n, kind, type) ==
    /\ LiveDir(p)                                                      \* VFS
    /\ IF Child(p, n) # 0 THEN Fails("EEXIST")
       ELSE /\ Len(inodes) < MaxInodes /\ kind \in Makes
            /\ LET id == Len(inodes) + 1
               IN  Becomes([Append(inodes, newInode(kind))
                              EXCEPT ![p].entries = AddChild(@, id, n, type)])

MkDir(p, n) == Create(p, n, "dir", "DT_Directory")
CreateFile(p, n) == Create(p, n, "file", "DT_File")
MkNode(p, n) == Create(p, n, "file", "DT_File")
CreateSymlink(p, n) == Create(p, n, "symlink", "DT_Link")

\* Seeded bug: the count is not incremented.
CreateLinkUncounted(p, n, t) ==
    /\ LiveDir(p)
    /\ t \in Allocated /\ ~IsDir(t) /\ inodes[t].nlink > 0
    /\ IF Child(p, n) # 0 THEN Fails("EEXIST")
       ELSE Becomes([inodes EXCEPT ![p].entries = AddChild(@, t, n, "DT_File")])

CreateLink(p, n, t) ==
    /\ LiveDir(p)                                                      \* VFS
    /\ t \in Allocated /\ ~IsDir(t) /\ inodes[t].nlink > 0             \* VFS
    /\ IF Child(p, n) # 0 THEN Fails("EEXIST")
       ELSE /\ inodes[t].nlink < MaxNlink
            /\ Becomes([inodes EXCEPT ![t].nlink = @ + 1,
                                      ![p].entries = AddChild(@, t, n, "DT_File")])

-----------------------------------------------------------------------------
(* Methods that remove entries *)

\* Seeded bug: the link count is decremented twice.
RemoveTwice(p, n) ==
    Becomes([inodes EXCEPT ![p].entries = RemoveChild(@, n),
                           ![Child(p, n)].nlink = @ - 2])

\* Remove the entry and mark the child as unlinked.  The inode stays in the
\* table.
Remove(p, n) ==
    Becomes([inodes EXCEPT ![p].entries = RemoveChild(@, n),
                           ![Child(p, n)].nlink = @ - 1])

\* Seeded bug: a directory is removed with its entries.
RmDirAnyway(p, n) ==
    /\ LiveDir(p)
    /\ Child(p, n) # 0 => IsDir(Child(p, n))
    /\ IF Child(p, n) = 0 THEN Fails("ENOENT") ELSE Remove(p, n)

RmDir(p, n) ==
    /\ LiveDir(p)                                                      \* VFS
    /\ Child(p, n) # 0 => IsDir(Child(p, n))                           \* VFS
    /\ IF Child(p, n) = 0 THEN Fails("ENOENT")
       ELSE IF Used(inodes[Child(p, n)].entries) # {} THEN Fails("ENOTEMPTY")
       ELSE Remove(p, n)

Unlink(p, n) ==
    /\ LiveDir(p)                                                      \* VFS
    /\ Child(p, n) # 0 => ~IsDir(Child(p, n))                          \* VFS
    /\ IF Child(p, n) = 0 THEN Fails("ENOENT") ELSE Remove(p, n)

\* VFS: what rename(2) checks before it asks the file system.
RenameAllowed(p, n, q, m) ==
    /\ LiveDir(p) /\ LiveDir(q)
    /\ Child(p, n) # 0 => /\ Child(p, n) # Child(q, m)
                          /\ ~Within(q, Child(p, n))
                          /\ Child(q, m) # 0 =>
                               (IsDir(Child(p, n)) <=> IsDir(Child(q, m)))

\* The replaced entry goes first, then the new name is linked and the old one
\* removed.  The replaced inode's Nlink is left as it is.
Rename(p, n, q, m) ==
    /\ RenameAllowed(p, n, q, m)
    /\ IF Child(p, n) = 0 THEN Fails("ENOENT")
       ELSE IF Child(q, m) # 0 /\ IsDir(Child(q, m))
                 /\ ReadDirFrom(inodes[Child(q, m)].entries, 0) # {}
       THEN Fails("ENOTEMPTY")
       ELSE LET replaced == IF Child(q, m) = 0 THEN inodes
                            ELSE [inodes EXCEPT ![q].entries = RemoveChild(@, m)]
                linked == [replaced EXCEPT
                    ![q].entries = AddChild(@, Child(p, n), m, ChildType(p, n))]
            IN  Becomes([linked EXCEPT ![p].entries = RemoveChild(@, n)])

-----------------------------------------------------------------------------
(* Methods that read *)

\* A user opens a directory to list it.
OpenDir(d) ==
    /\ scan.dir = 0 /\ d \in Listings
    /\ LiveDir(d)                                                      \* VFS
    /\ scan' = [Closed EXCEPT !.dir = d, !.stable = Listed(inodes[d].entries)]
    /\ UNCHANGED inodes

\* The next ReadDir of the listing starts at the Offset of the last entry seen.
ReadDir ==
    /\ scan.dir # 0 /\ ~scan.eof
    /\ LET es == inodes[scan.dir].entries
           got == ReadDirFrom(es, scan.offset)
           new == {<<es[i].name, es[i].ino>> : i \in got} \cap scan.stable
       IN  scan' = [scan EXCEPT !.offset = IF got = {} THEN @ ELSE Max(got),
                                !.seen = @ \cup new,
                                !.twice = @ \/ new \cap scan.seen # {},
                                !.eof = got = {}]
    /\ UNCHANGED inodes

\* The user closes the directory; memfs keeps nothing per handle (the method
\* ReleaseDirHandle is not implemented).
CloseDir == scan.dir # 0 /\ scan' = Closed /\ UNCHANGED inodes

-----------------------------------------------------------------------------
Next ==
    \/ \E p \in IDs, n \in Names :
         \/ MkDir(p, n) \/ CreateFile(p, n) \/ MkNode(p, n) \/ CreateSymlink(p, n)
         \/ RmDir(p, n) \/ Unlink(p, n)
         \/ \E t \in IDs : CreateLink(p, n, t)
         \/ \E q \in IDs, m \in Names : Rename(p, n, q, m)
    \/ \E d \in IDs : OpenDir(d)
    \/ ReadDir
    \/ CloseDir

Spec == Init /\ [][Next]_vars

-----------------------------------------------------------------------------
(* Properties *)

\* A listing is complete and has no repetitions: an entry that is in the
\* directory from opendir to the end of the listing is returned exactly once,
\* whatever is created, removed or renamed between two ReadDir calls
\* (inode.entries: "This array can never be shortened, nor can its elements be
\* moved"; AddChild, RemoveChild and ReadDir in inode.go).
ListingExact ==
    /\ ~scan.twice
    /\ scan.eof => scan.stable \subseteq scan.seen

\* The directories form a tree: every directory other than the root is linked at
\* most once, and one that is linked can be reached from the root, so neither
\* rename nor rmdir cuts off what is below a directory.
DirectoryTree ==
    \A d \in Allocated : IsDir(d) =>
      /\ Cardinality(LinksTo(d)) <= 1
      /\ LinksTo(d) # {} => Within(d, RootInodeID)
      /\ d # RootInodeID /\ LinksTo(d) = {} => Used(inodes[d].entries) = {}

\* No link is uncounted: Nlink is at least the number of entries that refer to an
\* inode, so Unlink and RmDir never take it below zero.
NlinkCoversLinks ==
    \A i \in Allocated \ {RootInodeID} : Cardinality(LinksTo(i)) <= inodes[i].nlink

\* What checkInvariants and CheckInvariants say of entries: only directories have
\* any, no name is used twice, and they refer to allocated inodes other than the
\* root; an entry for a directory has its type.
EntriesConsistent ==
    \A p \in Allocated :
      LET es == inodes[p].entries
      IN  /\ ~IsDir(p) => es = << >>
          /\ \A i, j \in Used(es) : es[i].name = es[j].name => i = j
          /\ \A i \in Used(es) :
               /\ es[i].ino \in Allocated \ {RootInodeID}
               /\ es[i].type = "DT_Directory" <=> IsDir(es[i].ino)

\* Nlink is "the number of incoming hard links to this inode"
\* (InodeAttributes.Nlink, fuseops/simple_types.go).
NlinkExact ==
    \A i \in Allocated \ {RootInodeID} : inodes[i].nlink = Cardinality(LinksTo(i))
=============================================================================
