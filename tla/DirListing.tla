----------------------------- MODULE DirListing ----------------------------
(***************************************************************************)
(* A directory of a sample file system is listed in several ReadDir calls: *)
(* hellofs, dynamicfs, cachingfs, readbenchfs, flushfs and roloopbackfs,   *)
(* with fuseutil.WriteDirent.                                              *)
(*                                                                         *)
(* A reader consumes some of the entries a call returns and goes on at the *)
(* offset that the last of them carries.  An entry is [name, len, off]:    *)
(* its name, the length of the name and its Offset field.                  *)
(***************************************************************************)
EXTENDS Integers, Sequences, SequencesExt

CONSTANTS DstSizes    \* len(op.Dst): a page in the kernel, in bytes here

\* There is room for the longest entry, with its name of 16 bytes.
ASSUME DirListingAssumption == \A dst \in DstSizes : dst >= 40

VARIABLES
    dirKind,    \* the file system
    children,   \* the names in the directory and whether each can be stat'ed
    offset,     \* where the reader goes on
    listed,     \* what it has seen
    listing     \* "open", "end", or "error"

dirVars == <<dirKind, children, offset, listed, listing>>

Named(n, l) == [name |-> n, len |-> l, stats |-> TRUE]
HelloRoot == <<Named("hello", 5), Named("dir", 3)>>
DynamicRoot == <<Named("age", 3), Named("weekday", 7)>>
CachingDir == <<Named("rdir", 8), Named("rfoo", 8)>>
BenchRoot == <<Named("test", 4)>>
FlushRoot == <<Named("foo", 3), Named("bar", 3)>>
Fixed == [hello |-> HelloRoot, dynamic |-> DynamicRoot, caching |-> CachingDir, readbench |-> BenchRoot,
          flush |-> FlushRoot]

\* A directory that roloopbackfs mirrors: a child that is a dangling link
\* cannot be stat'ed.
Mirrored == {<<[Named("a", 1) EXCEPT !.stats = s], [Named("b", 9) EXCEPT !.stats = t], Named("c", 16)>> :
               s, t \in BOOLEAN}

DirInit ==
    /\ \/ dirKind \in DOMAIN Fixed /\ children = Fixed[dirKind]
       \/ dirKind = "loopback" /\ children \in Mirrored
    /\ offset = 0
    /\ listed = << >>
    /\ listing = "open"

-----------------------------------------------------------------------------
\* WriteDirent: the length of an entry with its padding, 0 if it does not fit.
direntAlignment == 8
direntSize == 24

\* Seeded bug: the padding is not counted, and the next entry is misplaced.
EntryLenUnpadded(d) == direntSize + d.len

EntryLen(d) ==
    direntSize + d.len + (IF d.len % direntAlignment = 0 THEN 0
                          ELSE direntAlignment - (d.len % direntAlignment))
WriteDirent(room, d) == IF EntryLen(d) > room THEN 0 ELSE EntryLen(d)

\* The entries: those of the fixed directories are numbered from 1;
\* roloopbackfs numbers the children and leaves out those without an inode.
Entries ==
    LET all == [i \in DOMAIN children |-> [name |-> children[i].name, len |-> children[i].len, off |-> i]]
    IN  IF dirKind # "loopback" THEN all
        ELSE SelectSeq(all, LAMBDA d : children[d.off].stats)

\* The entries of dirents that fit into dst, and where each starts.
Written(dirents, dst) ==
    FoldLeft(LAMBDA w, d : IF w.full \/ WriteDirent(dst - w.bytes, d) = 0 THEN [w EXCEPT !.full = TRUE]
                           ELSE [w EXCEPT !.bytes = @ + WriteDirent(dst - w.bytes, d),
                                          !.at = Append(@, w.bytes), !.entries = Append(@, d)],
             [full |-> FALSE, bytes |-> 0, at |-> << >>, entries |-> << >>], dirents)

\* Seeded bug: the entry at the offset is returned again.
FromInclusive(off) == SubSeq(Entries, IF off = 0 THEN 1 ELSE off, Len(Entries))

\* entries[op.Offset:]
From(off) == SubSeq(Entries, off + 1, Len(Entries))

Failed == [full |-> FALSE, bytes |-> -1, at |-> << >>, entries |-> << >>]

AtEnd == [Failed EXCEPT !.bytes = 0]

\* hellofs and readbenchfs: an offset past the end is the end.
HelloReadDir(off, dst) == IF off > Len(Entries) THEN AtEnd ELSE Written(From(off), dst)
BenchReadDir(off, dst) == IF off > 0 THEN AtEnd ELSE Written(From(off), dst)
\* dynamicfs and cachingfs: it is an error.
DynamicReadDir(off, dst) == IF off > Len(Entries) THEN Failed ELSE Written(From(off), dst)
CachingReadDir(off, dst) == IF off > Len(Entries) THEN Failed ELSE Written(From(off), dst)
\* flushfs: the listing in one piece.
FlushReadDir(off, dst) ==
    LET w == Written(Entries, dst)
    IN  IF off = Len(Entries) THEN AtEnd ELSE IF off # 0 \/ w.full THEN Failed ELSE w
LoopReadDir(off, dst) == IF off > Len(Entries) THEN AtEnd ELSE Written(From(off), dst)

ReadDir(off, dst) ==
    CASE dirKind = "hello"     -> HelloReadDir(off, dst)
      [] dirKind = "readbench" -> BenchReadDir(off, dst)
      [] dirKind = "dynamic"   -> DynamicReadDir(off, dst)
      [] dirKind = "caching"   -> CachingReadDir(off, dst)
      [] dirKind = "flush"     -> FlushReadDir(off, dst)
      [] dirKind = "loopback"  -> LoopReadDir(off, dst)

-----------------------------------------------------------------------------
\* getdents(2) (external): the reader takes n of the entries. The kernel
\* looks for each at the padded length of the one before it.
ReadEntries(dst, n) ==
    LET w == ReadDir(offset, dst)
        here(i) == IF i = 1 THEN 0
                   ELSE w.at[i - 1] + ((direntSize + w.entries[i - 1].len + 7) \div 8) * 8
    IN  /\ listing = "open"
        /\ n <= Len(w.entries)
        /\ n = 0 <=> w.entries = << >>
        /\ listing' = CASE w = Failed -> "error"
                        [] n = 0 -> "end"
                        [] \E i \in 1 .. n : w.at[i] # here(i) -> "error"
                        [] OTHER -> "open"
        /\ listed' = listed \o [i \in 1 .. n |-> w.entries[i].name]
        /\ offset' = IF n = 0 THEN offset ELSE w.entries[n].off
        /\ UNCHANGED <<dirKind, children>>

DirNext == \E dst \in DstSizes, n \in 0 .. 3 : ReadEntries(dst, n)

DirTypeOK ==
    /\ offset \in 0 .. Len(children)
    /\ listing \in {"open", "end", "error"}
    /\ listed \in Seq({children[i].name : i \in DOMAIN children})

-----------------------------------------------------------------------------
\* The Offset of an entry is "the (opaque) offset within the directory file of
\* the entry following this one" (dirent.go): however small the buffers are and
\* wherever the reader stops, it sees every entry once and in order, and the
\* entries lie where it looks for them. roloopbackfs does so as long as every
\* child can be stat'ed; flushfs, which says that it does not support
\* anything more than one shot, may fail instead.
ListedOnce ==
    LET names == [i \in DOMAIN children |-> children[i].name]
    IN  (\A i \in DOMAIN children : children[i].stats) =>
          /\ listed = SubSeq(names, 1, Len(listed))
          /\ listing = "end" => listed = names
          /\ listing = "error" => dirKind = "flush"
=============================================================================
