----------------------------- MODULE LoopbackFS -----------------------------
(***************************************************************************)
(* samples/roloopbackfs: a read-only mirror of a directory.  The inode ID  *)
(* of a file is its inode number underneath, and the path under which it   *)
(* was first found is kept for it in fs.inodes, a sync.Map.  Lookups and   *)
(* changes of the directory underneath run concurrently.                   *)
(*                                                                         *)
(* The directory has a subdirectory "d", and at the paths in Paths files,  *)
(* of which one may have several names, and entries that cannot be         *)
(* stat'ed, such as dangling links.  It is within one device, and none of  *)
(* its inode numbers is that of the root, 1: fs.inodes would take the one  *)
(* for the other.  To read the whole of a file is one step.                *)
(***************************************************************************)
EXTENDS Integers, Sequences

CONSTANTS Mirrors,    \* processes using the mirror
          FileInos,   \* inode numbers of files
          MaxVersion, \* how often a file is written to or truncated (a bound)
          MaxLength   \* the length of a file (a bound)

LoopRoot == 1
DirIno == 2
Dangling == -1        \* an entry that cannot be stat'ed
DirPath == <<"d">>
Paths == {<<"a">>, <<"d", "a">>}

ASSUME LoopbackFSAssumption ==
    /\ FileInos \cap {0, Dangling, LoopRoot, DirIno} = {}
    /\ MaxVersion \in Nat /\ MaxLength \in Nat

VARIABLES
    tree,      \* the directory underneath: the inode number at each path, 0 for none
    version,   \* the contents of each file underneath
    size,      \* and the length of each of its versions
    lost,      \* the files that have lost a name underneath
    inodes,    \* fs.inodes: inode ID -> path
    mirror     \* the processes: [op, at, parent, name, off, path, id, reply, got, ino, from]

loopVars == <<tree, version, size, lost, inodes, mirror>>

IdleMirror == [op |-> "none", at |-> "idle", parent |-> 0, name |-> "none", off |-> 0, path |-> << >>,
               id |-> 0, reply |-> "none", got |-> 0, ino |-> 0, from |-> 0]

\* NewReadonlyLoopbackServer.
LoopInit ==
    /\ tree = [p \in Paths \cup {<< >>, DirPath} |->
                 IF p = << >> THEN LoopRoot ELSE IF p = DirPath THEN DirIno ELSE 0]
    /\ version = [i \in FileInos \cup {LoopRoot, DirIno} |-> 0]
    /\ size = [i \in FileInos \cup {LoopRoot, DirIno} |-> [v \in 0 .. MaxVersion |-> 0]]
    /\ lost = {}
    /\ inodes = [i \in {LoopRoot} |-> << >>]
    /\ mirror = [m \in Mirrors |-> IdleMirror]

\* What happens underneath (external): a file is created, linked to one more name, or
\* an entry made that cannot be stat'ed; one file is written to or truncated; an entry is
\* removed (p = q) or renamed, with what was there replaced (once, after what is created:
\* bounds).
CreateBelow(p, i) ==
    /\ tree[p] = 0 /\ lost = {} /\ tree' = [tree EXCEPT ![p] = i]
    /\ UNCHANGED <<version, size, lost, inodes, mirror>>
WriteBelow(i, n) ==
    /\ version[i] < MaxVersion /\ \A j \in FileInos \ {i} : version[j] = 0
    /\ version' = [version EXCEPT ![i] = @ + 1]
    /\ size' = [size EXCEPT ![i][version[i] + 1] = n]
    /\ UNCHANGED <<tree, lost, inodes, mirror>>
MoveBelow(p, q) ==
    /\ tree[p] # 0 /\ (p = q \/ tree[p] # tree[q]) /\ lost = {}
    /\ lost' = lost \cup {tree[p], tree[q]}
    /\ tree' = IF p = q THEN [tree EXCEPT ![p] = 0] ELSE [tree EXCEPT ![q] = tree[p], ![p] = 0]
    /\ UNCHANGED <<version, size, inodes, mirror>>

\* What is at a path, 0 for nothing, and the inode that os.Stat finds, 0 if it fails.
At(path) == IF path \in DOMAIN tree THEN tree[path] ELSE 0
Stat(path) == IF At(path) = Dangling THEN 0 ELSE At(path)

\* What a process asks for, for the property: the root has no parent and "d" is in the root.
Below(m) == At(IF mirror[m].parent = DirIno THEN DirPath \o <<mirror[m].name>> ELSE <<mirror[m].name>>)

Set(m, r) == mirror' = [mirror EXCEPT ![m] = r]

\* A process looks up a name in a directory, or uses an inode it has looked up
\* (external).  What a call does not need any more is dropped from its record.
MirrorSends(m, op, parent, name, off) ==
    /\ mirror[m].at = "idle" /\ parent \in DOMAIN inodes
    /\ Set(m, [IdleMirror EXCEPT !.op = op, !.name = name, !.off = off,
                 !.parent = IF op = "lookup" THEN parent ELSE 0,
                 !.at = IF op = "lookup" THEN "start" ELSE "found",
                 !.id = IF op = "lookup" THEN 0 ELSE parent,
                 !.ino = IF op = "lookup" THEN 0 ELSE parent,
                 !.from = IF op = "lookup" THEN 0 ELSE version[parent]])
    /\ UNCHANGED <<tree, version, size, lost, inodes>>

\* Seeded bug: the name is not joined to the path of the parent.
JoinPathBare(parent, name) == <<name>>
JoinPath(parent, name) == Append(inodes[parent], name)

\* getOrCreateInode, as far as the call of os.Stat: nil, and so ENOENT, if it fails.
StatChild(m) ==
    LET path == JoinPath(mirror[m].parent, mirror[m].name)
        i == Stat(path)
        r == [mirror[m] EXCEPT !.ino = Below(m), !.parent = 0, !.name = "none"]
    IN  /\ mirror[m].at = "start"
        /\ Set(m, IF i = 0 THEN [r EXCEPT !.at = "done", !.reply = "ENOENT"]
                  ELSE [r EXCEPT !.at = "stat", !.path = path, !.id = i, !.from = version[i]])
        /\ UNCHANGED <<tree, version, size, lost, inodes>>

\* LoadOrStore: the path under which the file was first found stays.
LoadOrStore(m) ==
    LET i == mirror[m].id
        stored == [k \in DOMAIN inodes \cup {i} |-> IF k \in DOMAIN inodes THEN inodes[k] ELSE mirror[m].path]
    IN  /\ mirror[m].at = "stat"
        /\ inodes' = stored
        /\ Set(m, [mirror[m] EXCEPT !.at = "found", !.path = << >>])
        /\ UNCHANGED <<tree, version, size, lost>>

\* Attributes or Contents, by the path kept with the inode; a read from beyond the end
\* of the contents is EIO.
UseEntry(m) ==
    LET i == Stat(inodes[mirror[m].id])
        fails == i = 0 \/ (mirror[m].op = "read" /\ mirror[m].off > size[i][version[i]])
    IN  /\ mirror[m].at = "found"
        /\ Set(m, [mirror[m] EXCEPT !.at = "done", !.reply = IF fails THEN "EIO" ELSE "OK",
                                    !.got = IF fails THEN 0 ELSE version[i]])
        /\ UNCHANGED <<tree, version, size, lost, inodes>>

MirrorReturns(m) ==
    /\ mirror[m].at = "done"
    /\ Set(m, IdleMirror)
    /\ UNCHANGED <<tree, version, size, lost, inodes>>

LoopNext ==
    \/ \E p \in Paths, i \in FileInos \cup {Dangling} : CreateBelow(p, i)
    \/ \E i \in FileInos, n \in 0 .. MaxLength : WriteBelow(i, n)
    \/ \E p, q \in Paths : MoveBelow(p, q)
    \/ \E m \in Mirrors :
         \/ \E parent \in {LoopRoot, DirIno}, name \in {"a", "d"} : MirrorSends(m, "lookup", parent, name, 0)
         \/ \E i \in FileInos : MirrorSends(m, "getattr", i, "none", 0)
         \/ \E i \in FileInos, off \in 1 .. MaxLength : MirrorSends(m, "read", i, "none", off)
         \/ StatChild(m) \/ LoadOrStore(m) \/ UseEntry(m) \/ MirrorReturns(m)

LoopSpec == LoopInit /\ [][LoopNext]_loopVars

LoopTypeOK ==
    /\ tree \in [Paths \cup {<< >>, DirPath} -> FileInos \cup {0, Dangling, LoopRoot, DirIno}]
    /\ DOMAIN inodes \subseteq FileInos \cup {LoopRoot, DirIno}
    /\ \A m \in Mirrors : mirror[m].at \in {"idle", "start", "stat", "found", "done"}

\* "Create a file system that mirrors an existing physical path".  ENOENT is the answer
\* only for a name that did not exist or could not be stat'ed, and a name that is found
\* gets the inode it stood for, however many lookups race and whatever is moved.  A file
\* that has kept its names is answered for, whatever happens to the others, with a
\* version it had during the call, through whichever name it was found first; it gets
\* EIO only for a read from beyond the end of such a version (where a file system is to
\* return no bytes).
LoopMirrors ==
    \A m \in Mirrors :
      LET r == mirror[m]
          during == r.from .. version[r.ino]
      IN  r.at = "done" =>
            /\ r.reply = "ENOENT" => r.ino \in {0, Dangling}
            /\ r.reply = "OK" => r.id = r.ino
            /\ r.reply = "OK" /\ r.ino \notin lost => r.got \in during
            /\ r.reply = "EIO" /\ r.ino \notin lost =>
                 r.op = "read" /\ \E v \in during : r.off > size[r.ino][v]
=============================================================================
