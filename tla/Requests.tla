------------------------------ MODULE Requests -----------------------------
(***************************************************************************)
(* internal/buffer/in_message.go and convertInMessage: how a message from  *)
(* the kernel is read into recycled storage and taken apart into an op.    *)
(*                                                                         *)
(* Storage is a sequence of units.  A field of a structure is one unit, so *)
(* is a character; the header is one unit and kept apart.  An op is        *)
(* [opcode, in, name, rest]: the fields it takes over from the structure,  *)
(* the (first) name, and the second name, the data or the entries.  Inode  *)
(* and op context, copied from the header in every case, are left out.     *)
(***************************************************************************)
EXTENDS Sequences, SequencesExt, Conversions

CONSTANTS
    PageSize,    \* a page, in units
    MaxData      \* MaxWriteSize, and the most the kernel reads at once

ASSUME RequestsAssumption == PageSize \in Nat /\ MaxData \in Nat \ {0}

Unit(v) == <<0, v>>
NUL == Unit(0)
Units(n, v) == [i \in 1 .. n |-> Unit(v)]
Number(u) == u[2]
NoMessage == [opcode |-> "none", unique |-> 0, len |-> 0]

\* Seeded bug: room for the structure and the data, not for the header.
BufSizeTight == MaxData + 3

bufSize == PageSize + MaxData

Op(o) == [opcode |-> o, in |-> << >>, name |-> << >>, rest |-> << >>]
Corrupt == Op("corrupt")

-----------------------------------------------------------------------------
(* InMessage *)

\* Seeded bug: the length in the header is not compared.
InitUnchecked(m, read) ==
    IF read = << >> THEN [m EXCEPT !.ok = FALSE]
    ELSE [header |-> Head(read), size |-> Len(read), ok |-> TRUE,
          storage |-> Tail(read) \o SubSeq(m.storage, Len(read), Len(m.storage))]

\* Init: one read, of the header and what follows it, into the storage, of which the
\* rest keeps what it held.  A read too short for the header is refused, and so is a
\* message whose header tells another length.
InitMessage(m, read) ==
    IF read = << >> THEN [m EXCEPT !.ok = FALSE]
    ELSE [header |-> Head(read), size |-> Len(read), ok |-> Head(read).len = Len(read),
          storage |-> Tail(read) \o SubSeq(m.storage, Len(read), Len(m.storage))]

\* What is left to consume after Init.
Remaining(m) == SubSeq(m.storage, 1, m.size - 1)

\* Consume does not return nil.
CanConsume(p, n) == Len(p) > 0 /\ n <= Len(p)
After(p, n) == SubSeq(p, n + 1, Len(p))

\* GetFree: n units after the message, if there are that many.
HasFree(m, n) == n > 0 /\ n <= bufSize - m.size

-----------------------------------------------------------------------------
(* The shapes that the cases of convertInMessage have in common *)

\* A structure of n fields, and what Rest makes of the remainder.
Struct(o, n, p, Rest(_, _)) ==
    IF ~CanConsume(p, n) THEN Corrupt
    ELSE Rest([Op(o) EXCEPT !.in = SubSeq(p, 1, n)], After(p, n))

Only(op, p) == op

\* A name that takes all of the message but the terminator at its end.
NameLast(o, p) ==
    IF p = << >> \/ Last(p) # NUL THEN Corrupt ELSE [Op(o) EXCEPT !.name = Front(p)]

FirstNUL(p) == CHOOSE i \in 1 .. Len(p) : p[i] = NUL /\ \A j \in 1 .. i - 1 : p[j] # NUL

\* A name up to the first terminator.
NameFirst(op, p) ==
    IF ~Contains(p, NUL) THEN Corrupt ELSE [op EXCEPT !.name = SubSeq(p, 1, FirstNUL(p) - 1)]

\* "name\0name\0".  With one terminator only, the bounds of the slice are out of order.
TwoNames(op, p) ==
    IF p = << >> \/ Last(p) # NUL THEN Corrupt
    ELSE IF FirstNUL(p) = Len(p) THEN Op("panic")
    ELSE [op EXCEPT !.name = SubSeq(p, 1, FirstNUL(p) - 1), !.rest = Front(After(p, FirstNUL(p)))]

-----------------------------------------------------------------------------
(* The cases of convertInMessage, on what follows the header *)

Lookup(p) == NameLast("Lookup", p)
Getattr(p) == Op("Getattr")

\* The fields that Valid announces, in the order of its bits: mode, uid, gid, size,
\* atime, mtime, handle.  A time has a second field, for the fraction; the model keeps
\* that of mtime.
MtimeNsec == 9
BitOf(k) == IF k = MtimeNsec THEN 6 ELSE k - 1
Valid(in, b) == (Number(in[1]) \div 2 ^ (b - 1)) % 2 = 1
Setattr(p) ==
    Struct("Setattr", 9, p, LAMBDA op, q :
      [op EXCEPT !.in = [k \in 1 .. 9 |-> IF k = 1 \/ Valid(op.in, BitOf(k)) THEN @[k] ELSE NUL]])

Forget(p) == Struct("Forget", 1, p, Only)

\* A count, and that many entries of two fields.
BatchForget(p) ==
    Struct("BatchForget", 1, p, LAMBDA op, q :
      IF Len(q) < 2 * Number(op.in[1]) THEN Corrupt
      ELSE [op EXCEPT !.rest = SubSeq(q, 1, 2 * Number(op.in[1]))])

Mkdir(p) == Struct("Mkdir", 1, p, NameFirst)
Mknod(p) == Struct("Mknod", 2, p, NameFirst)
Create(p) == Struct("Create", 1, p, NameFirst)
Symlink(p) == TwoNames(Op("Symlink"), p)

\* macfuse puts a field of flags, all zero, before the names: eight bytes, here two
\* units.
FlagBytes == 2
Rename(p) ==
    Struct("Rename", 1, p, LAMBDA op, q :
      LET names == IF Len(q) >= FlagBytes /\ SubSeq(q, 1, FlagBytes) = Units(FlagBytes, 0)
                   THEN After(q, FlagBytes) ELSE q
      IN  IF Len(names) < 4 THEN Corrupt ELSE TwoNames(op, names))

Unlink(p) == NameLast("Unlink", p)
Rmdir(p) == NameLast("Rmdir", p)
Open(p) == Struct("Open", 1, p, Only)
Opendir(p) == Op("Opendir")
Read(p) == Struct("Read", 3, p, Only)            \* handle, offset, size
Readdir(p) == Struct("Readdir", 3, p, Only)
Release(p) == Struct("Release", 1, p, Only)
Releasedir(p) == Struct("Releasedir", 1, p, Only)

\* Handle, offset, size; the data is all that follows.
Write(p) ==
    Struct("Write", 3, p, LAMBDA op, q :
      IF Len(q) < Number(op.in[3]) THEN Corrupt ELSE [op EXCEPT !.rest = q])

Fsync(p) == Struct("Fsync", 1, p, Only)
SyncFS(p) == Struct("SyncFS", 1, p, LAMBDA op, q : Op("SyncFS"))
Flush(p) == Struct("Flush", 1, p, Only)
Readlink(p) == Op("Readlink")
Statfs(p) == Op("Statfs")
Interrupt(p) == Struct("Interrupt", 1, p, Only)
Init_(p) == Struct("Init", 3, p, Only)           \* version, readahead, flags

Link(p) ==
    Struct("Link", 1, p, LAMBDA op, q :
      LET o == NameFirst(op, q) IN IF o.name = << >> THEN Corrupt ELSE o)

Removexattr(p) == NameLast("Removexattr", p)
Getxattr(p) == Struct("Getxattr", 1, p, NameFirst)
Listxattr(p) == Struct("Listxattr", 1, p, Only)

\* "name\0value", with no terminator after the value.
Setxattr(p) ==
    Struct("Setxattr", 1, p, LAMBDA op, q :
      IF Len(q) < 3 \/ ~Contains(q, NUL) THEN Corrupt
      ELSE [op EXCEPT !.name = SubSeq(q, 1, FirstNUL(q) - 1), !.rest = After(q, FirstNUL(q))])

Fallocate(p) == Struct("Fallocate", 4, p, Only)  \* handle, offset, length, mode
Unknown(p) == Op("Unknown")

convertInMessage(opcode, p) ==
    CASE opcode = "Lookup" -> Lookup(p) [] opcode = "Getattr" -> Getattr(p)
      [] opcode = "Setattr" -> Setattr(p) [] opcode = "Forget" -> Forget(p)
      [] opcode = "BatchForget" -> BatchForget(p) [] opcode = "Mkdir" -> Mkdir(p)
      [] opcode = "Mknod" -> Mknod(p) [] opcode = "Create" -> Create(p)
      [] opcode = "Symlink" -> Symlink(p) [] opcode = "Rename" -> Rename(p)
      [] opcode = "Unlink" -> Unlink(p) [] opcode = "Rmdir" -> Rmdir(p)
      [] opcode = "Open" -> Open(p) [] opcode = "Opendir" -> Opendir(p)
      [] opcode = "Read" -> Read(p) [] opcode = "Readdir" -> Readdir(p)
      [] opcode = "Release" -> Release(p) [] opcode = "Releasedir" -> Releasedir(p)
      [] opcode = "Write" -> Write(p) [] opcode = "Fsync" -> Fsync(p)
      [] opcode = "SyncFS" -> SyncFS(p) [] opcode = "Flush" -> Flush(p)
      [] opcode = "Readlink" -> Readlink(p) [] opcode = "Statfs" -> Statfs(p)
      [] opcode = "Interrupt" -> Interrupt(p) [] opcode = "Init" -> Init_(p)
      [] opcode = "Link" -> Link(p) [] opcode = "Removexattr" -> Removexattr(p)
      [] opcode = "Getxattr" -> Getxattr(p) [] opcode = "Listxattr" -> Listxattr(p)
      [] opcode = "Setxattr" -> Setxattr(p) [] opcode = "Fallocate" -> Fallocate(p)
      [] OTHER -> Unknown(p)

-----------------------------------------------------------------------------
(* The kernel (external): the requests it sends, as the ops they are meant to be, *)
(* and how it lays them out.                                                      *)

Names == {<<Unit(1)>>, <<Unit(1), Unit(2)>>}
Values == {<< >>, <<NUL>>, <<Unit(3), NUL>>}
Request(o, in, name, rest) == [opcode |-> o, in |-> in, name |-> name, rest |-> rest]
Fields(n) == [i \in 1 .. n |-> Unit(10 + i)]

\* A set of attributes to change, and the structure with its mask.
MaskOf(set) == LET bit(k) == IF k \in set THEN 2 ^ (k - 1) ELSE 0
               IN  bit(1) + bit(2) + bit(3) + bit(4) + bit(5) + bit(6) + bit(7)
Changes(set, mode, time) ==
    [k \in 1 .. 9 |-> CASE k = 1 -> Unit(MaskOf(set))
                        [] k > 1 /\ BitOf(k) \notin set -> NUL
                        [] k = 2 /\ 1 \in set -> Unit(mode)
                        [] k = 7 /\ 6 \in set -> Unit(time[1])
                        [] k = MtimeNsec /\ 6 \in set -> Unit(time[2])
                        [] OTHER -> Unit(10 + k)]

\* Times of utimes, as seconds (of which those before 1970 are large unsigned numbers)
\* and the fraction after them: 1970, after it, before it, and beyond what a count of
\* nanoseconds can express.
Times == {<<secs, ticks>> : secs \in {0, 17, SecondsWidth - 1, SecondsWidth - 3, NanoWidth},
                            ticks \in 0 .. TicksPerSecond - 1}

\* Modes of chmod and mknod: a type, set-id and sticky bits, permissions.
Types == {S_IFIFO, S_IFCHR, S_IFDIR, S_IFBLK, S_IFREG, S_IFLNK, S_IFSOCK}
Mode(type, special) == 4096 * type + 512 * special + 420
Modes(types) == {Mode(t, s) : t \in types, s \in {0, 1, 2, 4}}

WithName == {"Lookup", "Unlink", "Rmdir", "Removexattr"}
WithHandle == {"Open", "Release", "Releasedir", "Fsync", "Flush", "Forget", "Interrupt"}
Bare == {"Getattr", "Opendir", "Readlink", "Statfs", "SyncFS", "Unknown"}

KernelRequests ==
    {Request(o, << >>, n, << >>) : o \in WithName, n \in Names}
    \cup {Request(o, << >>, << >>, << >>) : o \in Bare}
    \cup {Request(o, Fields(1), << >>, << >>) : o \in WithHandle}
    \cup {Request("Setattr", Changes(set, Mode(S_IFREG, 0), <<17, 1>>), << >>, << >>) : set \in {{}, {4}, {5, 7}}}
    \cup {Request("Setattr", Changes(1 .. 7, m, <<17, 1>>), << >>, << >>) : m \in Modes(Types)}
    \cup {Request("Setattr", Changes({6}, 0, t), << >>, << >>) : t \in Times}
    \cup {Request("BatchForget", <<Unit(n)>>, << >>, Fields(2 * n)) : n \in 0 .. 2}
    \cup {Request("Mkdir", <<Unit(512 * s + 420)>>, n, << >>) : s \in {0, 1}, n \in Names}
    \cup {Request("Mknod", <<Unit(m), Unit(17)>>, <<Unit(1)>>, << >>) : m \in Modes(Types \ {S_IFDIR, S_IFLNK})}
    \cup {Request("Create", <<Unit(Mode(S_IFREG, 0))>>, n, << >>) : n \in Names}
    \cup {Request("Link", Fields(1), n, << >>) : n \in Names}
    \cup {Request("Getxattr", <<Unit(n)>>, <<Unit(1), Unit(2)>>, << >>) : n \in 0 .. MaxData}
    \cup {Request("Listxattr", <<Unit(n)>>, << >>, << >>) : n \in 0 .. MaxData}
    \cup {Request("Symlink", << >>, n, t) : n \in Names, t \in Names}
    \cup {Request("Rename", Fields(1), n, t) : n \in Names, t \in Names}
    \cup {Request("Read", Fields(2) \o <<Unit(n)>>, << >>, << >>) : n \in 0 .. MaxData}
    \cup {Request("Readdir", Fields(2) \o <<Unit(n)>>, << >>, << >>) : n \in 1 .. MaxData}
    \cup {Request("Write", Fields(2) \o <<Unit(n)>>, << >>, Units(n, 4)) : n \in 0 .. MaxData}
    \cup {Request("Setxattr", Fields(1), n, v) : n \in Names, v \in Values}
    \cup {Request("Fallocate", Fields(4), << >>, << >>)}

InitRequest == Request("Init", Fields(3), << >>, << >>)

\* What follows the header on the wire.  Attributes that do not change have any
\* value, some structures are not looked at, and flags may come before the names of a
\* rename.
Layout(r, flags) ==
    CASE r.opcode \in WithName -> Append(r.name, NUL)
      [] r.opcode = "Setattr" -> [k \in 1 .. 9 |-> IF k = 1 \/ Valid(r.in, BitOf(k)) THEN r.in[k] ELSE Unit(9)]
      [] r.opcode \in {"Getattr", "Opendir", "SyncFS", "Unknown"} -> Units(1, 9)
      [] r.opcode \in {"Mkdir", "Mknod", "Create", "Link", "Getxattr"} -> r.in \o Append(r.name, NUL)
      [] r.opcode = "Symlink" -> Append(r.name, NUL) \o Append(r.rest, NUL)
      [] r.opcode = "Rename" -> r.in \o flags \o Append(r.name, NUL) \o Append(r.rest, NUL)
      [] r.opcode = "Setxattr" -> r.in \o Append(r.name, NUL) \o r.rest
      [] OTHER -> r.in \o r.rest
=============================================================================
