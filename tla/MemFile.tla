------------------------------ MODULE MemFile ------------------------------
(***************************************************************************)
(* samples/memfs: the contents of one file of memFS.  Every method runs    *)
(* under fs.mu and is one step.  What POSIX says the user must find in the *)
(* file is kept beside it, byte by byte.  The kernel (external) bounds     *)
(* offsets and lengths; here MaxSize does.                                 *)
(***************************************************************************)
EXTENDS Integers, Sequences

CONSTANTS
    Bytes,      \* byte values users write, other than 0
    MaxSize,    \* offsets and sizes users reach (a bound)
    Modes       \* modes of fallocate(2) users ask for

ASSUME MemFileAssumption ==
    /\ Bytes \subseteq Nat \ {0} /\ MaxSize \in Nat
    /\ Modes \subseteq {0, 1, 3}

VARIABLES
    file,       \* inode.contents, as the array it is a slice of and its length, and attrs.Size
    fileReply,  \* the error of the last method, BytesRead and len(Dst) of a read
    posix       \* history: the byte at each offset, the size, and whether the two differ
                \* because a truncation was done although it failed

fileVars == <<file, fileReply, posix>>

Offsets == 0 .. MaxSize - 1
Data == UNION {[1 .. n -> Bytes] : n \in 1 .. MaxSize}   \* no empty writes
FileErrors == {"nil", "EBADF"}

FileTypeOK ==
    /\ file \in [array : Seq(Bytes \cup {0}), len : 0 .. MaxSize, size : 0 .. MaxSize]
    /\ fileReply \in [err : FileErrors, read : Seq(Bytes \cup {0}), off : Nat, dst : Nat]
    /\ posix \in [byte : [Offsets -> Bytes \cup {0}], size : 0 .. MaxSize, cutAnyway : BOOLEAN]

NoRead(e) == [err |-> e, read |-> << >>, off |-> 0, dst |-> 0]

FileInit ==
    /\ file = [array |-> << >>, len |-> 0, size |-> 0]
    /\ fileReply = NoRead("nil")
    /\ posix = [byte |-> [o \in Offsets |-> 0], size |-> 0, cutAnyway |-> FALSE]

-----------------------------------------------------------------------------
(* inode.go *)

\* The capacity of an array that append allocates (external): rounded up.
Capacity(n) == n + (n % 2)

\* Seeded bug: off by one.
ExtendedPastEnd(f, n) ==
    LET fits == n <= Len(f.array)
        cap == IF fits THEN Len(f.array) ELSE Capacity(n)
    IN  [array |-> [i \in 1 .. cap |-> IF i <= f.len \/ (fits /\ i > n) THEN f.array[i] ELSE 0],
         len |-> n, size |-> n + 1]

\* Seeded bug: where the array is large enough the slice is made longer, old bytes
\* and all.
ExtendedInPlace(f, n) ==
    LET fits == n <= Len(f.array)
        cap == IF fits THEN Len(f.array) ELSE Capacity(n)
    IN  [array |-> [i \in 1 .. cap |-> IF i <= f.len \/ fits THEN f.array[i] ELSE 0],
         len |-> n, size |-> n]

\* Append zeros up to a length the contents do not have yet: in the array, over what a
\* truncation has left there, if it is large enough, and else in a new one.
Extended(f, n) ==
    LET fits == n <= Len(f.array)
        cap == IF fits THEN Len(f.array) ELSE Capacity(n)
    IN  [array |-> [i \in 1 .. cap |-> IF i <= f.len \/ (fits /\ i > n) THEN f.array[i] ELSE 0],
         len |-> n, size |-> n]

\* Seeded bug: what follows the data is lost.
WriteAtEndLost(f, p, off) ==
    LET newLen == off + Len(p)
        g == IF f.len < newLen THEN Extended(f, newLen) ELSE f
    IN  [g EXCEPT !.array = [i \in DOMAIN @ |-> IF i \in off + 1 .. newLen THEN p[i - off] ELSE @[i]],
                  !.len = newLen, !.size = newLen]

WriteAt(f, p, off) ==
    LET newLen == off + Len(p)
        g == IF f.len < newLen THEN Extended(f, newLen) ELSE f
    IN  [g EXCEPT !.array = [i \in DOMAIN @ |-> IF i \in off + 1 .. newLen THEN p[i - off] ELSE @[i]]]

\* Seeded bug: attrs.Size is updated only when the file grows.
SetSizeStale(f, new) ==
    IF new <= f.len THEN [f EXCEPT !.len = new] ELSE Extended(f, new)

\* SetAttributes with a size.
SetSize(f, new) ==
    IF new <= f.len THEN [f EXCEPT !.len = new, !.size = new] ELSE Extended(f, new)

\* inode.Fallocate, which returns ENOSYS for other modes than 0.
Allocate(f, mode, off, len) ==
    IF mode = 0 /\ off + len > f.len THEN Extended(f, off + len) ELSE f

\* What is copied into a buffer of dst bytes.
ReadAt(f, off, dst) ==
    LET rest == f.len - off
    IN  IF rest < 0 THEN << >>
        ELSE SubSeq(f.array, off + 1, off + (IF rest < dst THEN rest ELSE dst))

-----------------------------------------------------------------------------
(* What POSIX says of the operations *)

Larger(x, y) == IF x < y THEN y ELSE x
Overwritten(byte, from, to, val(_)) ==
    [o \in Offsets |-> IF o \in from .. to - 1 THEN val(o) ELSE byte[o]]

-----------------------------------------------------------------------------
(* memfs.go *)

WriteFile(p, off) ==
    /\ off + Len(p) <= MaxSize
    /\ file' = WriteAt(file, p, off)
    /\ fileReply' = NoRead("nil")
    /\ posix' = [posix EXCEPT !.byte = Overwritten(@, off, off + Len(p), LAMBDA o : p[o - off + 1]),
                              !.size = Larger(@, off + Len(p))]

\* A truncation without a handle fails, but the size is set all the same; for POSIX, a
\* call that fails does nothing.  To empty the file makes the two agree again.
SetInodeAttributes(new, handle) ==
    LET fails == ~handle /\ new # 0
    IN  /\ file' = SetSize(file, new)
        /\ fileReply' = NoRead(IF fails THEN "EBADF" ELSE "nil")
        /\ posix' = IF fails THEN [posix EXCEPT !.cutAnyway = TRUE]
                    ELSE [byte |-> Overwritten(posix.byte, new, MaxSize, LAMBDA o : 0), size |-> new,
                          cutAnyway |-> posix.cutAnyway /\ new # 0]

\* What inode.Fallocate returns is dropped.  Mode 1 keeps the size, mode 3
\* punches a hole.
Fallocate(mode, off, len) ==
    /\ off + len <= MaxSize
    /\ file' = Allocate(file, mode, off, len)
    /\ fileReply' = NoRead("nil")
    /\ posix' = CASE mode = 0 -> [posix EXCEPT !.size = Larger(@, off + len)]
                  [] mode = 1 -> posix
                  [] mode = 3 -> [posix EXCEPT !.byte =
                                    Overwritten(@, off, off + len, LAMBDA o : 0)]

\* EOF is not returned as an error.
ReadFile(off, dst) ==
    /\ fileReply' = [err |-> "nil", read |-> ReadAt(file, off, dst), off |-> off, dst |-> dst]
    /\ UNCHANGED <<file, posix>>

FileNext ==
    \/ \E p \in Data, off \in 0 .. MaxSize : WriteFile(p, off)
    \/ \E new \in 0 .. MaxSize, handle \in BOOLEAN : SetInodeAttributes(new, handle)
    \/ \E mode \in Modes, off \in Offsets, len \in 1 .. MaxSize : Fallocate(mode, off, len)
    \/ \E off \in 0 .. MaxSize + 1, dst \in 1 .. MaxSize : ReadFile(off, dst)

FileSpec == FileInit /\ [][FileNext]_fileVars

-----------------------------------------------------------------------------
(* Properties *)

\* A read returns the bytes last written to its range, zeros where nothing has
\* been written since the file was last shorter, nothing from beyond the end of
\* the file, and never more than the buffer takes (ReadFile, ReadAt; kernelResponse
\* cuts the reply to BytesRead and panics if it is larger than the buffer).  The
\* file ends where POSIX says after any sequence of writes, truncations and
\* allocations, and attrs.Size is the length of the contents (INVARIANT in inode.go).
\* This is so as long as no truncation fails: the one that SetInodeAttributes refuses
\* is done all the same, and from then on until the file is next emptied only the last
\* and the length of a read hold.
ReadsLastWritten ==
    LET r == fileReply
    IN  /\ file.size = file.len /\ Len(r.read) <= r.dst
        /\ ~posix.cutAnyway =>
             /\ file.size = posix.size
             /\ \A i \in 1 .. Len(r.read) :
                  r.off + i <= posix.size /\ r.read[i] = posix.byte[r.off + i - 1]
             /\ r.dst > 0 /\ r.off < posix.size /\ Len(r.read) < r.dst =>
                  r.off + Len(r.read) = posix.size
=============================================================================
