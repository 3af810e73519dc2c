-------------------------- MODULE SampleFileProofs -------------------------
(***************************************************************************)
(* The sample file systems whose promises are about inodes and what they   *)
(* hold, each with an inductive invariant: the file of memfs is the one    *)
(* POSIX describes, flushfs keeps what was written to foo, loopbackfs      *)
(* answers for the inodes of the directory underneath, and forgetfs never  *)
(* panics and agrees with the kernel about the lookup counts.              *)
(***************************************************************************)
EXTENDS MemFile, FlushFS, LoopbackFS, ForgetFS, SequenceTheorems, TLAPS

-----------------------------------------------------------------------------
(* The file of memfs *)

\* What a byte of the file may be, and what the file may be.
ByteValues == Bytes \cup {0}
Files == [array : Seq(ByteValues), len : 0 .. MaxSize, size : 0 .. MaxSize]

\* A slice is no longer than its array, and attrs.Size is its length.
SoundFile(f) == f \in Files /\ f.len <= Len(f.array) /\ f.size = f.len

\* The contents of f are what POSIX says: byte up to n, and zeros after.
SameFile(f, byte, n) ==
    /\ byte \in [Offsets -> ByteValues] /\ n \in 0 .. MaxSize /\ f.len = n
    /\ \A i \in 1 .. n : f.array[i] = byte[i - 1]
    /\ \A o \in Offsets : o >= n => byte[o] = 0

\* g is f, cut or padded with zeros to n bytes.
Padded(f, g, n) ==
    /\ SoundFile(g) /\ g.len = n
    /\ \A i \in 1 .. n : g.array[i] = IF i <= f.len THEN f.array[i] ELSE 0

\* g is f with the bytes p at off up to to, padded with zeros where it was shorter.
Written(f, g, p, off, to) ==
    /\ SoundFile(g) /\ g.len = Larger(f.len, to)
    /\ \A i \in 1 .. Larger(f.len, to) : g.array[i] =
         IF i \in off + 1 .. to THEN p[i - off] ELSE IF i <= f.len THEN f.array[i] ELSE 0

\* What is read from f at off into dst bytes: all there is, and no more than fits.
ReadOut(f, read, off, dst) ==
    /\ read \in Seq(ByteValues) /\ Len(read) \in Nat /\ Len(read) <= dst
    /\ \A i \in 1 .. Len(read) : off + i \in 1 .. f.len /\ read[i] = f.array[off + i]
    /\ off < f.len /\ Len(read) < dst => off + Len(read) = f.len

\* What makes ReadsLastWritten inductive: all of the file, and not only what was
\* read last, is what POSIX says.
FileInv ==
    /\ FileTypeOK /\ SoundFile(file) /\ ReadsLastWritten
    /\ ~posix.cutAnyway => SameFile(file, posix.byte, posix.size)

\* append leaves what was in the slice, and zeros after it, whether the array was large
\* enough or not.
LEMMA ExtendedIs ==
    ASSUME NEW f, SoundFile(f), NEW n \in f.len .. MaxSize
    PROVE  Padded(f, Extended(f, n), n)
<1> DEFINE a == f.array
           fits == n <= Len(a)
           cap == IF fits THEN Len(a) ELSE Capacity(n)
           new == [i \in 1 .. cap |-> IF i <= f.len \/ (fits /\ i > n) THEN a[i] ELSE 0]
           g == Extended(f, n)
<1>1. /\ a \in Seq(ByteValues) /\ Len(a) \in Nat /\ f.len \in Nat /\ f.len <= Len(a)
      /\ n \in Nat /\ f.len <= n /\ n \in 0 .. MaxSize
  <2>1. a \in Seq(ByteValues) /\ f.len \in 0 .. MaxSize /\ f.len <= Len(a)
    BY Zenon DEF SoundFile, Files
  <2> HIDE DEF a
  <2> QED
    BY <2>1, MemFileAssumption
<1>2. g = [array |-> new, len |-> n, size |-> n]
  BY Zenon DEF Extended
<1>3. \A i \in 1 .. Len(a) : a[i] \in ByteValues
  BY <1>1, ElementOfSeq, Zenon
<1> HIDE DEF a, g
<1>4. cap \in Nat /\ n <= cap /\ (fits => cap = Len(a))
  BY <1>1 DEF Capacity
<1>5. \A i \in 1 .. cap : i <= f.len \/ (fits /\ i > n) => i \in 1 .. Len(a)
  BY <1>1, <1>4
<1>6. new \in [1 .. cap -> ByteValues]
  BY <1>3, <1>5, Zenon DEF ByteValues
<1>7. \A i \in 1 .. n : i \in 1 .. cap /\ ~(i > n)
  BY <1>1, <1>4
<1>8. \A i \in 1 .. n : new[i] = IF i <= f.len THEN a[i] ELSE 0
  BY <1>7, Zenon
<1> HIDE DEF new, cap
<1>9. new \in Seq(ByteValues) /\ Len(new) = cap
  BY <1>4, <1>6
<1>10. g.array = new /\ g.len = n /\ g.size = n
  BY <1>2, Zenon
<1>11. SoundFile(g)
  BY <1>1, <1>2, <1>4, <1>9, <1>10, Zenon DEF SoundFile, Files
<1> QED
  BY <1>8, <1>10, <1>11, Zenon DEF Padded, g, a

\* The data of a write.
LEMMA DataIs ==
    ASSUME NEW p \in Data
    PROVE  Len(p) \in Nat /\ \A i \in 1 .. Len(p) : p[i] \in ByteValues
<1>1. PICK k \in 1 .. MaxSize : p \in [1 .. k -> Bytes]
  BY Zenon DEF Data
<1>2. Len(p) = k /\ k \in Nat
  BY <1>1, MemFileAssumption
<1> QED
  BY <1>1, <1>2, Zenon DEF ByteValues

\* WriteAt leaves the data in its place, and before and after it what there was, padded
\* with zeros.
LEMMA WrittenIs ==
    ASSUME NEW f, SoundFile(f), NEW p \in Data, NEW off \in Nat, NEW to \in Nat, to = off + Len(p), to <= MaxSize
    PROVE  Written(f, WriteAt(f, p, off), p, off, to)
<1> DEFINE m == Larger(f.len, to)
           g == IF f.len < to THEN Extended(f, to) ELSE f
           c == g.array
           new == [i \in DOMAIN c |-> IF i \in off + 1 .. to THEN p[i - off] ELSE c[i]]
           h == WriteAt(f, p, off)
<1>1. f.len \in Nat /\ f.len \in 0 .. MaxSize /\ MaxSize \in Nat
  <2>1. f.len \in 0 .. MaxSize
    BY Zenon DEF SoundFile, Files
  <2> QED
    BY <2>1, MemFileAssumption
<1>2. Padded(f, g, m)
  <2>1. CASE f.len < to
    <3>1. to \in f.len .. MaxSize /\ m = to
      BY <1>1, <2>1 DEF Larger
    <3>2. g = Extended(f, to)
      BY <2>1, Zenon
    <3> QED
      BY <3>1, <3>2, ExtendedIs, Zenon
  <2>2. CASE ~ f.len < to
    <3>1. g = f /\ m = f.len
      BY <2>2, Zenon DEF Larger
    <3>2. \A i \in 1 .. f.len : i <= f.len
      BY <1>1
    <3> QED
      BY <3>1, <3>2, Zenon DEF Padded
  <2> QED
    BY <2>1, <2>2, Zenon
<1>3. h = [g EXCEPT !.array = new]
  BY Zenon DEF WriteAt
<1>4. /\ g \in Files /\ c \in Seq(ByteValues) /\ DOMAIN c = 1 .. Len(c) /\ Len(c) \in Nat /\ m <= Len(c)
      /\ g.size = m /\ \A i \in 1 .. Len(c) : c[i] \in ByteValues
  <2>1. g \in Files /\ c \in Seq(ByteValues) /\ m <= Len(c) /\ g.size = m
    BY <1>2, Zenon DEF Padded, SoundFile, Files
  <2>2. \A i \in 1 .. Len(c) : c[i] \in ByteValues
    BY <2>1, ElementOfSeq, Zenon
  <2> HIDE DEF c, g
  <2>3. DOMAIN c = 1 .. Len(c) /\ Len(c) \in Nat
    BY <2>1
  <2> QED
    BY <2>1, <2>2, <2>3, Zenon
<1>5. m \in Nat /\ to <= m /\ to - off = Len(p) /\ \A i \in off + 1 .. to : i - off \in 1 .. Len(p)
  BY <1>1, DataIs DEF Larger
<1> HIDE DEF g
<1>6. h = [array |-> new, len |-> g.len, size |-> g.size]
  BY <1>3, <1>4, Zenon DEF Files
<1> HIDE DEF c, m, h
<1>7. /\ new \in [1 .. Len(c) -> ByteValues]
      /\ \A i \in 1 .. Len(c) : new[i] = IF i \in off + 1 .. to THEN p[i - off] ELSE c[i]
  <2>1. \A i \in off + 1 .. to : p[i - off] \in ByteValues
    BY <1>5, DataIs, Zenon
  <2> QED
    BY <1>4, <2>1, Zenon
<1> HIDE DEF new
<1>8. new \in Seq(ByteValues) /\ Len(new) = Len(c)
  BY <1>4, <1>7
<1>9. h.array = new /\ h.len = m /\ h.size = m /\ g.len \in 0 .. MaxSize /\ g.len = m
  BY <1>2, <1>4, <1>6, Zenon DEF Padded, Files
<1>10. SoundFile(h)
  BY <1>4, <1>6, <1>8, <1>9, Zenon DEF SoundFile, Files
<1>11. \A i \in 1 .. m : i \in 1 .. Len(c)
  BY <1>4, <1>5
<1>12. \A i \in 1 .. m : h.array[i] =
         IF i \in off + 1 .. to THEN p[i - off] ELSE IF i <= f.len THEN f.array[i] ELSE 0
  <2>1. \A i \in 1 .. m : c[i] = IF i <= f.len THEN f.array[i] ELSE 0
    BY <1>2, Zenon DEF Padded, c
  <2> SUFFICES ASSUME NEW i \in 1 .. m
               PROVE  h.array[i] = IF i \in off + 1 .. to THEN p[i - off] ELSE IF i <= f.len THEN f.array[i] ELSE 0
    BY Zenon
  <2>2. h.array[i] = IF i \in off + 1 .. to THEN p[i - off] ELSE c[i]
    BY <1>7, <1>9, <1>11, Zenon
  <2> QED
    BY <2>1, <2>2, Zenon
<1> QED
  BY <1>9, <1>10, <1>12, Zenon DEF Written, h, m

\* Setting the size cuts the contents or pads them with zeros.
LEMMA SetSizeIs ==
    ASSUME NEW f, SoundFile(f), NEW new \in 0 .. MaxSize
    PROVE  Padded(f, SetSize(f, new), new)
<1> DEFINE h == SetSize(f, new)
<1>1. f \in Files /\ f.array \in Seq(ByteValues) /\ f.len \in 0 .. MaxSize /\ f.len <= Len(f.array)
  BY Zenon DEF SoundFile, Files
<1>2. Len(f.array) \in Nat /\ f.len \in Nat /\ new \in Nat
  BY <1>1, MemFileAssumption
<1>3. CASE new <= f.len
  <2>1. h = [f EXCEPT !.len = new, !.size = new]
    BY <1>3, Zenon DEF SetSize
  <2>2. h = [array |-> f.array, len |-> new, size |-> new]
    BY <1>1, <2>1, Zenon DEF Files
  <2>3. new <= Len(f.array) /\ \A i \in 1 .. new : i <= f.len
    BY <1>1, <1>2, <1>3
  <2>4. h \in Files /\ h.array = f.array /\ h.len = new /\ h.size = new
    <3>1. [array |-> f.array, len |-> new, size |-> new] \in Files
      BY <1>1, Zenon DEF Files
    <3> HIDE DEF h
    <3> QED
      BY <2>2, <3>1, Zenon
  <2> HIDE DEF h
  <2>5. Padded(f, h, new)
    BY <2>3, <2>4, Zenon DEF Padded, SoundFile
  <2> QED
    BY <2>5, Zenon DEF h
<1>4. CASE ~ new <= f.len
  <2>1. h = Extended(f, new)
    BY <1>4, Zenon DEF SetSize
  <2>2. new \in f.len .. MaxSize
    BY <1>2, <1>4
  <2> QED
    BY <2>1, <2>2, ExtendedIs, Zenon
<1> QED
  BY <1>3, <1>4, Zenon

\* fallocate in mode 0 makes the contents no shorter, and changes no byte.
LEMMA AllocateIs ==
    ASSUME NEW f, SoundFile(f), NEW mode, NEW off \in Nat, NEW len \in Nat, off + len <= MaxSize
    PROVE  /\ SoundFile(Allocate(f, mode, off, len))
           /\ mode # 0 => Allocate(f, mode, off, len) = f
           /\ mode = 0 => Padded(f, Allocate(f, mode, off, len), Larger(f.len, off + len))
<1> DEFINE h == Allocate(f, mode, off, len)
           to == off + len
<1>1. f.len \in Nat /\ to \in Nat
  <2>1. f.len \in 0 .. MaxSize
    BY Zenon DEF SoundFile, Files
  <2> QED
    BY <2>1, MemFileAssumption
<1>2. CASE mode = 0 /\ to > f.len
  <2>1. h = Extended(f, to)
    BY <1>2, Zenon DEF Allocate
  <2>2. to \in f.len .. MaxSize /\ Larger(f.len, to) = to
    BY <1>1, <1>2 DEF Larger
  <2> QED
    <3>1. Padded(f, h, to)
      BY <2>1, <2>2, ExtendedIs, Zenon
    <3> HIDE DEF h
    <3>2. SoundFile(h) /\ Padded(f, h, Larger(f.len, to))
      BY <2>2, <3>1, Zenon DEF Padded
    <3> QED
      BY <1>2, <3>2, Zenon DEF h
<1>3. CASE ~(mode = 0 /\ to > f.len)
  <2>1. h = f /\ (mode = 0 => Larger(f.len, to) = f.len) /\ \A i \in 1 .. f.len : i <= f.len
    BY <1>1, <1>3 DEF Allocate, Larger
  <2> QED
    BY <2>1, Zenon DEF Padded
<1> QED
  BY <1>2, <1>3, Zenon

\* A file that is as POSIX says, written to, is as POSIX says.
LEMMA WrittenAgrees ==
    ASSUME NEW f, NEW byte, NEW n, SameFile(f, byte, n), NEW g,
           NEW p \in Data, NEW off \in Nat, NEW to \in Nat, to = off + Len(p), to <= MaxSize, Written(f, g, p, off, to)
    PROVE  SameFile(g, Overwritten(byte, off, off + Len(p), LAMBDA o : p[o - off + 1]), Larger(n, off + Len(p)))
<1> DEFINE m == Larger(n, to)
           byte2 == Overwritten(byte, off, to, LAMBDA o : p[o - off + 1])
<1>1. f.len = n /\ n \in Nat /\ m \in 0 .. MaxSize /\ m \in Nat /\ to <= m /\ n <= m /\ MaxSize \in Nat
  BY MemFileAssumption DEF SameFile, Larger
<1>2. /\ byte2 \in [Offsets -> ByteValues]
      /\ \A o \in Offsets : byte2[o] = IF o \in off .. to - 1 THEN p[o - off + 1] ELSE byte[o]
  <2>1. \A o \in Offsets : o \in off .. to - 1 => o - off + 1 \in 1 .. Len(p)
    BY DataIs DEF Offsets
  <2>2. \A o \in Offsets : o \in off .. to - 1 => p[o - off + 1] \in ByteValues
    BY <2>1, DataIs, Zenon
  <2> QED
    BY <2>2, Zenon DEF Overwritten, SameFile
<1> HIDE DEF byte2, m
<1>3. ASSUME NEW i \in 1 .. m PROVE g.array[i] = byte2[i - 1]
  <2>1. i - 1 \in Offsets /\ (i - 1 \in off .. to - 1 <=> i \in off + 1 .. to) /\ (i - 1) - off + 1 = i - off
    BY <1>1 DEF Offsets
  <2>2. (i <= n => i \in 1 .. n) /\ (~ i <= n => i - 1 >= n)
    BY <1>1
  <2>3. (IF i <= n THEN f.array[i] ELSE 0) = byte[i - 1]
    BY <2>1, <2>2, Zenon DEF SameFile
  <2>4. g.array[i] = IF i \in off + 1 .. to THEN p[i - off] ELSE IF i <= n THEN f.array[i] ELSE 0
    BY <1>1, Zenon DEF Written, m
  <2> QED
    BY <1>2, <2>1, <2>3, <2>4, Zenon
<1>4. ASSUME NEW o \in Offsets, o >= m PROVE byte2[o] = 0
  <2>1. o \notin off .. to - 1 /\ o >= n
    BY <1>1, <1>4 DEF Offsets
  <2> QED
    BY <1>2, <2>1, Zenon DEF SameFile
<1>5. SameFile(g, byte2, m)
  <2>1. g.len = m
    BY <1>1, Zenon DEF Written, m
  <2> QED
    BY <1>1, <1>2, <1>3, <1>4, <2>1, Zenon DEF SameFile
<1> QED
  BY <1>5, Zenon DEF byte2, m

\* The same for one whose size is set,
LEMMA SetSizeAgrees ==
    ASSUME NEW f, NEW byte, NEW n, SameFile(f, byte, n), NEW g, NEW new \in 0 .. MaxSize, Padded(f, g, new)
    PROVE  SameFile(g, Overwritten(byte, new, MaxSize, LAMBDA o : 0), new)
<1> DEFINE byte2 == Overwritten(byte, new, MaxSize, LAMBDA o : 0)
<1>1. f.len = n /\ n \in Nat /\ new \in Nat /\ MaxSize \in Nat
  BY MemFileAssumption DEF SameFile
<1>2. /\ byte2 \in [Offsets -> ByteValues]
      /\ \A o \in Offsets : byte2[o] = IF o \in new .. MaxSize - 1 THEN 0 ELSE byte[o]
  BY Zenon DEF Overwritten, SameFile, ByteValues
<1> HIDE DEF byte2
<1>3. ASSUME NEW i \in 1 .. new PROVE g.array[i] = byte2[i - 1]
  <2>1. i - 1 \in Offsets /\ i - 1 \notin new .. MaxSize - 1
    BY <1>1 DEF Offsets
  <2>2. (i <= n => i \in 1 .. n) /\ (~ i <= n => i - 1 >= n)
    BY <1>1
  <2> QED
    BY <1>1, <1>2, <2>1, <2>2, ZenonT(40) DEF SameFile, Padded
<1>4. ASSUME NEW o \in Offsets, o >= new PROVE byte2[o] = 0
  <2>1. o \in new .. MaxSize - 1
    BY <1>1, <1>4 DEF Offsets
  <2> QED
    BY <1>2, <2>1, Zenon
<1>5. SameFile(g, byte2, new)
  BY <1>2, <1>3, <1>4, Zenon DEF SameFile, Padded
<1> QED
  BY <1>5, Zenon DEF byte2

\* and for one that is made longer.
LEMMA LongerAgrees ==
    ASSUME NEW f, NEW byte, NEW n, SameFile(f, byte, n), NEW g, NEW m \in n .. MaxSize, Padded(f, g, m)
    PROVE  SameFile(g, byte, m)
<1>1. f.len = n /\ n \in Nat /\ m \in Nat /\ m \in 0 .. MaxSize /\ n <= m /\ MaxSize \in Nat
  BY MemFileAssumption DEF SameFile
<1>2. ASSUME NEW i \in 1 .. m PROVE g.array[i] = byte[i - 1]
  <2>1. (i <= n => i \in 1 .. n) /\ (~ i <= n => i - 1 >= n /\ i - 1 \in Offsets)
    BY <1>1 DEF Offsets
  <2> QED
    BY <1>1, <2>1, Zenon DEF SameFile, Padded
<1>3. ASSUME NEW o \in Offsets, o >= m PROVE byte[o] = 0
  <2>1. o >= n
    BY <1>1, <1>3 DEF Offsets
  <2> QED
    BY <2>1, Zenon DEF SameFile
<1> QED
  BY <1>1, <1>2, <1>3, Zenon DEF SameFile, Padded

\* ReadAt returns what is there up to the end of the file, and no more than fits.
LEMMA ReadIs ==
    ASSUME NEW f, SoundFile(f), NEW off \in Nat, NEW dst \in Nat, NEW read, read = ReadAt(f, off, dst)
    PROVE  ReadOut(f, read, off, dst)
<1> DEFINE c == f.array
           n == f.len
           rest == n - off
           k == IF rest < dst THEN rest ELSE dst
<1>1. c \in Seq(ByteValues) /\ n \in Nat /\ n <= Len(c) /\ Len(c) \in Nat /\ rest \in Int
  <2>1. c \in Seq(ByteValues) /\ n \in 0 .. MaxSize /\ n <= Len(c)
    BY Zenon DEF SoundFile, Files
  <2> HIDE DEF c, n
  <2> QED
    BY <2>1, MemFileAssumption
<1>2. CASE rest < 0
  <2>1. read = << >>
    BY <1>2, Zenon DEF ReadAt
  <2>2. read \in Seq(ByteValues) /\ Len(read) = 0
    BY <2>1, EmptySeq, Zenon
  <2>3. ~ off < n /\ 0 <= dst /\ 0 \in Nat /\ \A i \in 1 .. 0 : FALSE
    BY <1>1, <1>2
  <2> QED
    BY <2>2, <2>3, Zenon DEF ReadOut
<1>3. CASE rest >= 0
  <2>1. k \in Nat /\ off + k <= n /\ k <= dst /\ (k < dst => off + k = n)
    BY <1>1, <1>3
  <2>2. read = SubSeq(c, off + 1, off + k)
    BY <1>1, <1>3, SMTT(30) DEF ReadAt
  <2> HIDE DEF c, n, k
  <2>3. \A i \in off + 1 .. off + k : i \in 1 .. Len(c) /\ c[i] \in ByteValues
    BY <1>1, <2>1, ElementOfSeq
  <2>4. /\ SubSeq(c, off + 1, off + k) \in Seq(ByteValues)
        /\ Len(SubSeq(c, off + 1, off + k)) = IF off + 1 <= off + k THEN off + k - (off + 1) + 1 ELSE 0
        /\ \A i \in 1 .. off + k - (off + 1) + 1 : SubSeq(c, off + 1, off + k)[i] = c[off + 1 + i - 1]
    BY <2>1, <2>3, SubSeqProperties
  <2>5. read \in Seq(ByteValues) /\ Len(read) = k /\ \A i \in 1 .. k : read[i] = c[off + i]
    <3>1. off + k - (off + 1) + 1 = k /\ (off + 1 <= off + k \/ k = 0)
      BY <2>1
    <3>2. read \in Seq(ByteValues) /\ Len(read) = k
      <4>1. Len(SubSeq(c, off + 1, off + k)) = k
        BY <2>1, <2>4, <3>1, Zenon
      <4> QED
        BY <2>2, <2>4, <4>1, Zenon
    <3>3. ASSUME NEW i \in 1 .. k PROVE read[i] = c[off + i]
      <4>1. off + 1 + i - 1 = off + i
        BY <2>1
      <4> QED
        BY <2>2, <2>4, <3>1, <4>1, Zenon
    <3> QED
      BY <3>2, <3>3, Zenon
  <2>6. \A i \in 1 .. k : off + i \in 1 .. n
    BY <1>1, <2>1
  <2> QED
    BY <2>1, <2>5, <2>6, Zenon DEF ReadOut, c, n
<1>4. rest < 0 \/ rest >= 0
  BY <1>1
<1> QED
  BY <1>2, <1>3, <1>4, Zenon

\* A reply without data.
LEMMA NoReadIsReply ==
    ASSUME NEW e \in FileErrors
    PROVE  /\ NoRead(e) \in [err : FileErrors, read : Seq(Bytes \cup {0}), off : Nat, dst : Nat]
           /\ NoRead(e).dst = 0 /\ Len(NoRead(e).read) = 0
BY EmptySeq, Zenon DEF NoRead

\* Where a method leaves a file as POSIX says, if it was, and answers without data, all
\* is well.
LEMMA FileChanged ==
    ASSUME NEW g, NEW byte \in [Offsets -> ByteValues], NEW n \in 0 .. MaxSize, NEW cut \in BOOLEAN,
           SoundFile(g), ~cut => SameFile(g, byte, n),
           file' = g, posix' = [byte |-> byte, size |-> n, cutAnyway |-> cut],
           NEW e \in FileErrors, fileReply' = NoRead(e)
    PROVE  FileInv'
<1>1. posix'.byte = byte /\ posix'.size = n /\ posix'.cutAnyway = cut
  BY Zenon
<1>2. FileTypeOK'
  BY NoReadIsReply, Zenon DEF FileTypeOK, ByteValues, SoundFile, Files
<1>3. Len(fileReply'.read) = 0 /\ fileReply'.dst = 0
  BY NoReadIsReply, Zenon
<1>4. g.size = g.len /\ (~cut => g.size = n)
  BY Zenon DEF SoundFile, SameFile
<1>5. ReadsLastWritten'
  BY <1>1, <1>3, <1>4 DEF ReadsLastWritten
<1> QED
  BY <1>1, <1>2, <1>5, Zenon DEF FileInv, SoundFile, SameFile

\* A new file satisfies the invariant of MemFile.
LEMMA FileStart == FileInit => FileInv
<1> SUFFICES ASSUME FileInit PROVE FileInv
  BY Zenon
<1>1. /\ file.array = << >> /\ file.len = 0 /\ file.size = 0 /\ posix.size = 0
      /\ posix.byte = [o \in Offsets |-> 0]
  BY Zenon DEF FileInit
<1>2. << >> \in Seq(ByteValues) /\ Len(<< >>) = 0
  BY EmptySeq, Zenon
<1>3. FileTypeOK
  BY <1>2, NoReadIsReply, MemFileAssumption DEF FileInit, FileTypeOK, ByteValues, FileErrors
<1>4. SameFile(file, posix.byte, posix.size)
  BY <1>1, MemFileAssumption DEF SameFile, ByteValues
<1>5. fileReply = NoRead("nil") /\ "nil" \in FileErrors
  BY Zenon DEF FileInit, FileErrors
<1>6. Len(fileReply.read) = 0 /\ fileReply.dst = 0
  BY <1>5, NoReadIsReply, Zenon
<1>7. ReadsLastWritten
  BY <1>1, <1>6 DEF ReadsLastWritten
<1>8. SoundFile(file)
  BY <1>1, <1>2, <1>3 DEF FileTypeOK, SoundFile, Files, ByteValues
<1> QED
  BY <1>3, <1>4, <1>7, <1>8, Zenon DEF FileInv

\* Every method of the file keeps the invariant, fallocate without holes.
LEMMA FileStep ==
    ASSUME 3 \notin Modes, FileInv, [FileNext]_fileVars
    PROVE  FileInv'
<1>1. PICK f, byte, n, cut : f = file /\ byte = posix.byte /\ n = posix.size /\ cut = posix.cutAnyway
  BY Zenon
<1>2. /\ SoundFile(f) /\ (~cut => SameFile(f, byte, n))
      /\ posix = [byte |-> byte, size |-> n, cutAnyway |-> cut]
      /\ byte \in [Offsets -> ByteValues] /\ n \in 0 .. MaxSize /\ cut \in BOOLEAN
  BY <1>1, Zenon DEF FileInv, FileTypeOK, ByteValues
<1>3. ASSUME NEW p \in Data, NEW off \in 0 .. MaxSize, WriteFile(p, off) PROVE FileInv'
  <2> DEFINE g == WriteAt(f, p, off)
             to == off + Len(p)
             byte2 == Overwritten(byte, off, off + Len(p), LAMBDA o : p[o - off + 1])
             m == Larger(n, off + Len(p))
  <2>1. off + Len(p) <= MaxSize /\ file' = g /\ fileReply' = NoRead("nil")
    BY <1>1, <1>3, Zenon DEF WriteFile
  <2>2. posix' = [byte |-> byte2, size |-> m, cutAnyway |-> cut]
    BY <1>1, <1>2, <1>3, Zenon DEF WriteFile
  <2>3. off \in Nat /\ to \in Nat /\ m \in 0 .. MaxSize
    BY <1>2, <2>1, DataIs, MemFileAssumption DEF Larger
  <2>4. Written(f, g, p, off, to) /\ SoundFile(g)
    <3>1. Written(f, g, p, off, to)
      BY <1>2, <2>1, <2>3, WrittenIs, Zenon
    <3> QED
      BY <3>1, Zenon DEF Written
  <2> HIDE DEF g
  <2>5. ~cut => SameFile(g, byte2, m)
    BY <1>2, <2>1, <2>3, <2>4, WrittenAgrees, Zenon
  <2>6. byte2 \in [Offsets -> ByteValues]
    <3>1. \A o \in Offsets : o \in off .. to - 1 => o - off + 1 \in 1 .. Len(p)
      BY <2>3, DataIs DEF Offsets
    <3>2. \A o \in Offsets : o \in off .. to - 1 => p[o - off + 1] \in ByteValues
      BY <3>1, DataIs, Zenon
    <3> QED
      BY <1>2, <3>2, Zenon DEF Overwritten
  <2> HIDE DEF byte2, m
  <2> QED
    BY <1>2, <2>1, <2>2, <2>3, <2>4, <2>5, <2>6, FileChanged, Zenon DEF FileErrors
<1>4. ASSUME NEW new \in 0 .. MaxSize, NEW handle \in BOOLEAN, SetInodeAttributes(new, handle) PROVE FileInv'
  <2> DEFINE g == SetSize(f, new)
             byte2 == Overwritten(byte, new, MaxSize, LAMBDA o : 0)
             fails == ~handle /\ new # 0
             e == IF fails THEN "EBADF" ELSE "nil"
  <2>1. file' = g /\ fileReply' = NoRead(e) /\ e \in FileErrors
    BY <1>1, <1>4, Zenon DEF SetInodeAttributes, FileErrors
  <2>2. Padded(f, g, new) /\ SoundFile(g) /\ g.len = new
    <3>1. Padded(f, g, new)
      BY <1>2, SetSizeIs, Zenon
    <3> QED
      BY <3>1, Zenon DEF Padded
  <2> HIDE DEF g
  <2>3. byte2 \in [Offsets -> ByteValues]
    BY <1>2, Zenon DEF Overwritten, ByteValues
  <2>4. CASE fails
    <3>1. posix' = [byte |-> byte, size |-> n, cutAnyway |-> TRUE]
      BY <1>2, <1>4, <2>4, Zenon DEF SetInodeAttributes
    <3> HIDE DEF e
    <3> QED
      BY <1>2, <2>1, <2>2, <3>1, FileChanged, Zenon
  <2>5. CASE ~fails
    <3> DEFINE cut2 == cut /\ new # 0
    <3>1. posix' = [byte |-> byte2, size |-> new, cutAnyway |-> cut2]
      BY <1>1, <1>4, <2>5, Zenon DEF SetInodeAttributes
    <3>2. ~cut => SameFile(g, byte2, new)
      BY <1>2, <2>2, SetSizeAgrees, Zenon
    <3>3. new = 0 => SameFile(g, byte2, new)
      <4> SUFFICES ASSUME new = 0 PROVE SameFile(g, byte2, new)
        BY Zenon
      <4>1. \A o \in Offsets : byte2[o] = 0
        BY MemFileAssumption DEF Overwritten, Offsets
      <4>2. \A i \in 1 .. new : FALSE
        OBVIOUS
      <4> QED
        BY <2>2, <2>3, <4>1, <4>2, Zenon DEF SameFile
    <3>4. cut2 \in BOOLEAN /\ (~cut2 => SameFile(g, byte2, new))
      BY <1>2, <3>2, <3>3, Zenon
    <3> HIDE DEF e, cut2, byte2
    <3> QED
      BY <2>1, <2>2, <2>3, <3>1, <3>4, FileChanged, Zenon
  <2> QED
    BY <2>4, <2>5, Zenon
<1>5. ASSUME NEW mode \in Modes, NEW off \in Offsets, NEW len \in 1 .. MaxSize, Fallocate(mode, off, len)
      PROVE  FileInv'
  <2> DEFINE g == Allocate(f, mode, off, len)
  <2>1. off + len <= MaxSize /\ fileReply' = NoRead("nil") /\ file' = g
    BY <1>1, <1>5, Zenon DEF Fallocate
  <2>2. off \in Nat /\ len \in Nat /\ "nil" \in FileErrors
    BY MemFileAssumption DEF Offsets, FileErrors
  <2>3. mode \in {0, 1}
    BY MemFileAssumption, Zenon
  <2>4. /\ SoundFile(g) /\ (mode # 0 => g = f)
        /\ mode = 0 => Padded(f, g, Larger(f.len, off + len))
    BY <1>2, <2>1, <2>2, AllocateIs, Zenon
  <2> HIDE DEF g
  <2>5. CASE mode = 0
    <3> DEFINE m == Larger(n, off + len)
    <3>1. posix' = [byte |-> byte, size |-> m, cutAnyway |-> cut]
      BY <1>1, <1>2, <1>5, <2>5, Zenon DEF Fallocate
    <3>2. m \in 0 .. MaxSize /\ m \in n .. MaxSize
      BY <1>2, <2>1, <2>2, MemFileAssumption DEF Larger
    <3>3. ~cut => SameFile(g, byte, m)
      <4> SUFFICES ASSUME ~cut PROVE SameFile(g, byte, m)
        BY Zenon
      <4>1. SameFile(f, byte, n) /\ f.len = n
        BY <1>2, Zenon DEF SameFile
      <4>2. Padded(f, g, m)
        BY <2>4, <2>5, <4>1, Zenon
      <4> HIDE DEF m
      <4> QED
        BY <3>2, <4>1, <4>2, LongerAgrees, Zenon
    <3> HIDE DEF m
    <3> QED
      BY <1>2, <2>1, <2>2, <2>4, <3>1, <3>2, <3>3, FileChanged, Zenon
  <2>6. CASE mode = 1
    <3>1. posix' = [byte |-> byte, size |-> n, cutAnyway |-> cut]
      BY <1>2, <1>5, <2>6, Zenon DEF Fallocate
    <3>2. g = f
      BY <2>4, <2>6
    <3> QED
      BY <1>2, <2>1, <2>2, <2>4, <3>1, <3>2, FileChanged, Zenon
  <2> QED
    BY <2>3, <2>5, <2>6, Zenon
<1>6. ASSUME NEW off \in 0 .. MaxSize + 1, NEW dst \in 1 .. MaxSize, ReadFile(off, dst) PROVE FileInv'
  <2> DEFINE read == ReadAt(f, off, dst)
  <2>1. /\ fileReply' = [err |-> "nil", read |-> read, off |-> off, dst |-> dst]
        /\ UNCHANGED <<file, posix>>
    BY <1>1, <1>6, Zenon DEF ReadFile
  <2>2. off \in Nat /\ dst \in Nat
    BY MemFileAssumption
  <2>3. /\ read \in Seq(ByteValues) /\ Len(read) \in Nat /\ Len(read) <= dst
        /\ \A i \in 1 .. Len(read) : off + i \in 1 .. f.len /\ read[i] = f.array[off + i]
        /\ off < f.len /\ Len(read) < dst => off + Len(read) = f.len
    <3>1. ReadOut(f, read, off, dst)
      BY <1>2, <2>2, ReadIs, Zenon
    <3> HIDE DEF read
    <3> QED
      BY <3>1, Zenon DEF ReadOut
  <2> HIDE DEF read
  <2>4. fileReply' \in [err : FileErrors, read : Seq(Bytes \cup {0}), off : Nat, dst : Nat]
    BY <2>1, <2>2, <2>3, Zenon DEF FileErrors, ByteValues
  <2>5. FileTypeOK'
    BY <2>1, <2>4, Zenon DEF FileInv, FileTypeOK
  <2>6. ~cut =>
          /\ \A i \in 1 .. Len(read) : off + i <= n /\ read[i] = byte[off + i - 1]
          /\ off < n /\ Len(read) < dst => off + Len(read) = n
    <3> SUFFICES ASSUME ~cut
                 PROVE  /\ \A i \in 1 .. Len(read) : off + i <= n /\ read[i] = byte[off + i - 1]
                        /\ off < n /\ Len(read) < dst => off + Len(read) = n
      BY Zenon
    <3>1. SameFile(f, byte, n) /\ f.len = n
      BY <1>2, Zenon DEF SameFile
    <3>2. \A i \in 1 .. Len(read) : off + i \in 1 .. n /\ read[i] = byte[(off + i) - 1]
      BY <2>3, <3>1, Zenon DEF SameFile
    <3>3. \A i \in 1 .. Len(read) : off + i <= n /\ (off + i) - 1 = off + i - 1
      BY <1>2, <2>2, <2>3, <3>2
    <3> QED
      BY <2>3, <3>1, <3>2, <3>3, Zenon
  <2>7. ReadsLastWritten'
    BY <1>1, <1>2, <2>1, <2>3, <2>6, Zenon DEF FileInv, ReadsLastWritten
  <2> QED
    BY <2>1, <2>5, <2>7, Zenon DEF FileInv, SoundFile, SameFile
<1>7. CASE UNCHANGED fileVars
  BY <1>7, Zenon DEF fileVars, FileInv, FileTypeOK, ReadsLastWritten, SoundFile, SameFile
<1> QED
  BY <1>3, <1>4, <1>5, <1>6, <1>7, Zenon DEF FileNext

-----------------------------------------------------------------------------
(* flushfs *)

\* What foo may hold, and what a user may be doing.
FileBytes == Seq(WriteValues \cup {0})
WriterRecords ==
    [op : {"none", "write", "report", "read", "attributes"}, at : {"user", "sent", "done"},
     value : WriteValues \cup {0}, writes : Int, last : WriteValues \cup {0},
     report : [bytes : FileBytes, size : Nat]]

\* What user p has written: the write that has been handled, or the last one
\* before the call in progress.
Known(u) == IF u.op = "write" /\ u.at = "done" THEN u.value ELSE u.last

\* What makes FlushReportsWrites inductive: what a user has written is in the
\* file, at the user's offset.
FlushInv ==
    /\ fooContents \in FileBytes /\ writer \in [Writers -> WriterRecords]
    /\ \A p \in Writers :
         /\ writer[p].at = "sent" => writer[p].op # "none"
         /\ Known(writer[p]) # 0 =>
              Len(fooContents) > p /\ fooContents[p + 1] = Known(writer[p])
    /\ FlushReportsWrites

\* An empty file and idle users satisfy the invariant of FlushFS.
LEMMA FlushStart == FlushInit => FlushInv
<1> SUFFICES ASSUME FlushInit PROVE FlushInv
  BY Zenon
<1>1. FreshWriter \in WriterRecords /\ FreshWriter.last = 0 /\ FreshWriter.at = "user"
  BY DEF FreshWriter, NoReport, WriterRecords, FileBytes
<1>2. writer \in [Writers -> WriterRecords] /\ \A p \in Writers : writer[p] = FreshWriter
  BY <1>1, Zenon DEF FlushInit
<1>3. FlushReportsWrites
  BY <1>1, <1>2, Zenon DEF FlushReportsWrites
<1> QED
  BY <1>1, <1>2, <1>3 DEF FlushInit, FlushInv, FileBytes, Known

\* All of foo is kept but what is at the offset of user p.
KeptBut(p, new, foo) == \A i \in 1 .. Len(foo) : i # p + 1 => new[i] = foo[i]

\* WriteFile keeps what was there, zeros where it extends the file, and puts the
\* value at the offset of the user.
LEMMA FlushWritten ==
    ASSUME NEW p \in Nat, NEW v \in WriteValues \cup {0}, NEW foo \in FileBytes,
           NEW pad \in FileBytes, Len(foo) + Len(pad) > p,
           NEW new, new = [foo \o pad EXCEPT ![p + 1] = v]
    PROVE  /\ new \in FileBytes /\ Len(new) > p /\ new[p + 1] = v /\ Len(new) >= Len(foo)
           /\ KeptBut(p, new, foo)
<1> DEFINE long == foo \o pad
<1>1. Len(foo) \in Nat /\ foo \in Seq(WriteValues \cup {0})
  BY DEF FileBytes
<1>2. Len(pad) \in Nat /\ pad \in Seq(WriteValues \cup {0})
  BY DEF FileBytes
<1>3. /\ long \in Seq(WriteValues \cup {0}) /\ Len(long) = Len(foo) + Len(pad)
      /\ \A i \in 1 .. Len(foo) : long[i] = foo[i]
  BY <1>1, <1>2, ConcatProperties
<1>4. new = [long EXCEPT ![p + 1] = v]
  BY Zenon
<1> HIDE DEF long
<1>5. Len(long) > p /\ Len(long) >= Len(foo) /\ p + 1 \in 1 .. Len(long)
  BY <1>1, <1>2, <1>3
<1>6. /\ new \in Seq(WriteValues \cup {0}) /\ Len(new) = Len(long)
      /\ \A i \in 1 .. Len(long) : new[i] = IF i = p + 1 THEN v ELSE long[i]
  <2> DEFINE V == WriteValues \cup {0}
             except == [long EXCEPT ![p + 1] = v]
  <2>1. long \in Seq(V) /\ v \in V
    BY <1>3, Zenon
  <2> HIDE DEF V
  <2>2. /\ except \in Seq(V) /\ Len(except) = Len(long)
        /\ \A i \in 1 .. Len(long) : except[i] = IF i = p + 1 THEN v ELSE long[i]
    BY <1>5, <2>1, ExceptSeq
  <2> HIDE DEF except
  <2> QED
    BY <1>4, <2>2, Zenon DEF V, except
<1>7. ASSUME NEW i \in 1 .. Len(foo), i # p + 1 PROVE new[i] = foo[i]
  <2>1. i \in 1 .. Len(long)
    BY <1>1, <1>2, <1>3
  <2> QED
    BY <1>3, <1>6, <1>7, <2>1, Zenon
<1>8. new[p + 1] = v
  BY <1>5, <1>6, Zenon
<1> QED
  BY <1>5, <1>6, <1>7, <1>8, Zenon DEF FileBytes, KeptBut

\* What ReadFile copies: the contents from the offset on.
LEMMA FlushReadFrom ==
    ASSUME NEW p \in Nat, NEW foo \in FileBytes,
           NEW bytes, bytes = IF p > Len(foo) THEN << >> ELSE SubSeq(foo, p + 1, Len(foo))
    PROVE  /\ bytes \in FileBytes
           /\ Len(foo) > p => bytes # << >> /\ Head(bytes) = foo[p + 1]
<1> DEFINE V == WriteValues \cup {0}
           rest == SubSeq(foo, p + 1, Len(foo))
<1>1. foo \in Seq(V) /\ Len(foo) \in Nat
  BY DEF FileBytes
<1>2. \A i \in p + 1 .. Len(foo) : foo[i] \in V
  BY <1>1, ElementOfSeq
<1> HIDE DEF V
<1>3. /\ rest \in Seq(V)
      /\ Len(rest) = IF p + 1 <= Len(foo) THEN Len(foo) - (p + 1) + 1 ELSE 0
      /\ \A i \in 1 .. Len(foo) - (p + 1) + 1 : rest[i] = foo[p + 1 + i - 1]
  BY <1>1, <1>2, SubSeqProperties
<1> HIDE DEF rest
<1>4. << >> \in Seq(V) /\ Len(<< >>) = 0
  BY EmptySeq, Zenon
<1>5. bytes \in Seq(V)
  BY <1>3, <1>4, Zenon DEF rest
<1>6. CASE Len(foo) > p
  <2>1. bytes = rest /\ Len(rest) > 0 /\ rest[1] = foo[p + 1]
    BY <1>1, <1>3, <1>6 DEF rest
  <2>2. rest # << >>
    BY <1>4, <2>1
  <2>3. Head(rest) = rest[1]
    BY <1>3, <2>2
  <2> QED
    BY <1>5, <2>1, <2>2, <2>3, Zenon DEF FileBytes, V
<1> QED
  BY <1>5, <1>6, Zenon DEF FileBytes, V

\* A padding of n zeros, none if n is not positive.
LEMMA ZeroPadding ==
    ASSUME NEW S, 0 \in S, NEW n \in Int
    PROVE  /\ [i \in 1 .. n |-> 0] \in Seq(S)
           /\ Len([i \in 1 .. n |-> 0]) = IF n > 0 THEN n ELSE 0
<1> DEFINE pad == [i \in 1 .. n |-> 0]
<1>1. CASE n > 0
  BY <1>1
<1>2. CASE ~ n > 0
  <2>1. pad = << >>
    BY <1>2
  <2>2. Len(pad) = 0 /\ pad \in Seq(S)
    BY <2>1, EmptySeq, Zenon
  <2> HIDE DEF pad
  <2>3. pad \in Seq(S) /\ Len(pad) = IF n > 0 THEN n ELSE 0
    BY <1>2, <2>2, Zenon
  <2> QED
    BY <2>3, Zenon DEF pad
<1> QED
  BY <1>1, <1>2, Zenon

\* Every step of the users and of FlushFS keeps its invariant.
LEMMA FlushStep == FlushInv /\ [FlushNext]_flushVars => FlushInv'
<1> SUFFICES ASSUME FlushInv, [FlushNext]_flushVars PROVE FlushInv'
  BY Zenon
<1>1. ASSUME NEW p \in Writers, NEW op \in {"write", "report", "read", "attributes"},
             NEW v \in WriteValues \cup {0}, FlushSend(p, op, v)
      PROVE  FlushInv'
  <2> DEFINE old == writer[p]
             n == old.writes + (IF op = "write" THEN 1 ELSE 0)
             new == [old EXCEPT !.op = op, !.at = "sent", !.value = v, !.report = NoReport, !.writes = n]
  <2>1. old.at = "user" /\ UNCHANGED fooContents
    BY <1>1, Zenon DEF FlushSend
  <2>0. writer' = [writer EXCEPT ![p] = new]
    BY <1>1, Zenon DEF FlushSend
  <2>2. NoReport \in [bytes : FileBytes, size : Nat]
    BY DEF NoReport, FileBytes
  <2>3. old \in WriterRecords
    BY Zenon DEF FlushInv
  <2>4. n \in Int
    BY <2>3 DEF WriterRecords
  <2> HIDE DEF n
  <2>5. new \in WriterRecords /\ new.last = old.last /\ new.at = "sent" /\ new.op = op
    BY <2>2, <2>3, <2>4, Zenon DEF WriterRecords
  <2> HIDE DEF new
  <2>6. /\ writer' \in [Writers -> WriterRecords]
        /\ \A q \in Writers : writer'[q] = IF q = p THEN new ELSE writer[q]
    BY <2>0, <2>5, ZenonT(40) DEF FlushInv
  <2>7. FlushReportsWrites'
    BY <2>5, <2>6 DEF FlushInv, FlushReportsWrites
  <2> QED
    BY <2>1, <2>5, <2>6, <2>7 DEF FlushInv, Known
<1>2. ASSUME NEW p \in Writers, FlushHandle(p) PROVE FlushInv'
  <2> DEFINE old == writer[p]
             report == Reported(p, old.op)
             new == [old EXCEPT !.at = "done", !.report = report]
  <2>0. /\ old.at = "sent" /\ writer' = [writer EXCEPT ![p] = new]
        /\ IF old.op = "write" THEN FlushWrite(p) ELSE UNCHANGED fooContents
    BY <1>2, Zenon DEF FlushHandle
  <2>1. old \in WriterRecords /\ p \in Nat /\ old.op \in {"write", "report", "read", "attributes"}
    BY <2>0, FlushFSAssumption, Zenon DEF FlushInv, WriterRecords
  <2>2. Len(fooContents) \in Nat /\ fooContents \in FileBytes /\ NoReport.bytes = << >>
    BY DEF FlushInv, FileBytes, NoReport
  <2>3. FlushRead(p) \in FileBytes /\ (Len(fooContents) > p =>
          FlushRead(p) # << >> /\ Head(FlushRead(p)) = fooContents[p + 1])
    BY <2>1, <2>2, FlushReadFrom, Zenon DEF FlushRead
  <2>4. /\ report \in [bytes : FileBytes, size : Nat]
        /\ old.op = "report" => report.bytes = fooContents
        /\ old.op = "read" => report.bytes = FlushRead(p)
        /\ old.op = "attributes" => report.size = Len(fooContents)
    BY <2>1, <2>2, <2>3 DEF Reported, FooAttributes, NoReport, FileBytes
  <2> HIDE DEF report
  <2>5. /\ new \in WriterRecords /\ new.at = "done" /\ new.report = report
        /\ new.op = old.op /\ new.last = old.last /\ new.value = old.value
    BY <2>1, <2>4, Zenon DEF WriterRecords
  <2> HIDE DEF new
  <2>6. /\ writer' \in [Writers -> WriterRecords]
        /\ \A q \in Writers : writer'[q] = IF q = p THEN new ELSE writer[q]
    BY <2>0, <2>5, ZenonT(40) DEF FlushInv
  <2>7. FlushReportsWrites'
    <3>1. old.last # 0 /\ old.op # "write" => Len(fooContents) > p /\ fooContents[p + 1] = old.last
      BY <2>0, Zenon DEF FlushInv, Known
    <3> QED
      BY <2>3, <2>4, <2>5, <2>6, <3>1 DEF FlushInv, FlushReportsWrites
  <2>8. CASE old.op = "write"
    <3>1. /\ fooContents' \in FileBytes /\ Len(fooContents') > p /\ fooContents'[p + 1] = old.value
          /\ Len(fooContents') >= Len(fooContents)
          /\ KeptBut(p, fooContents', fooContents)
      <4>1. old.value \in WriteValues \cup {0}
        BY <2>1, Zenon DEF WriterRecords
      <4> DEFINE padding == [i \in 1 .. p + 1 - Len(fooContents) |-> 0]
      <4>2. padding \in FileBytes /\ Len(fooContents) + Len(padding) > p
        <5>1. p + 1 - Len(fooContents) \in Int
          BY <2>1, <2>2
        <5>2. padding \in FileBytes /\ Len(padding) = IF p + 1 - Len(fooContents) > 0 THEN p + 1 - Len(fooContents) ELSE 0
          BY <5>1, ZeroPadding, Zenon DEF FileBytes
        <5> HIDE DEF padding
        <5> QED
          BY <2>1, <2>2, <5>2
      <4>3. fooContents' = [fooContents \o padding EXCEPT ![p + 1] = old.value]
        BY <2>0, <2>8, Zenon DEF FlushWrite
      <4> HIDE DEF padding
      <4>4. PICK foo, v, after, pad :
              foo = fooContents /\ v = old.value /\ after = fooContents' /\ pad = padding
        BY Zenon
      <4>5. /\ p \in Nat /\ foo \in FileBytes /\ v \in WriteValues \cup {0} /\ pad \in FileBytes
            /\ after = [foo \o pad EXCEPT ![p + 1] = v] /\ Len(foo) + Len(pad) > p
        BY <2>1, <2>2, <4>1, <4>2, <4>3, <4>4, ZenonT(40)
      <4>6. /\ after \in FileBytes /\ Len(after) > p /\ after[p + 1] = v /\ Len(after) >= Len(foo)
            /\ KeptBut(p, after, foo)
        BY <4>5, FlushWritten
      <4> QED
        BY <4>4, <4>6, Zenon
    <3>2. Len(fooContents') \in Nat
      BY <3>1 DEF FileBytes
    <3>3. ASSUME NEW q \in Writers, Known(writer'[q]) # 0
          PROVE  Len(fooContents') > q /\ fooContents'[q + 1] = Known(writer'[q])
      <4>1. CASE q = p
        BY <2>5, <2>6, <2>8, <3>1, <4>1, Zenon DEF Known
      <4>2. CASE q # p
        <5>1. q \in Nat /\ Len(fooContents) > q /\ fooContents[q + 1] = Known(writer'[q])
          BY <2>6, <3>3, <4>2, FlushFSAssumption, ZenonT(40) DEF FlushInv
        <5>2. q + 1 \in 1 .. Len(fooContents) /\ q + 1 # p + 1
          BY <2>1, <2>2, <4>2, <5>1
        <5> QED
          BY <2>2, <3>1, <3>2, <5>1, <5>2 DEF KeptBut
      <4> QED
        BY <4>1, <4>2, Zenon
    <3> QED
      BY <2>5, <2>6, <2>7, <3>1, <3>3, Zenon DEF FlushInv
  <2>9. CASE old.op # "write"
    <3>1. ASSUME NEW q \in Writers PROVE Known(writer'[q]) = Known(writer[q])
      BY <2>5, <2>6, <2>9, Zenon DEF Known
    <3> QED
      BY <2>0, <2>5, <2>6, <2>7, <2>9, <3>1, ZenonT(40) DEF FlushInv
  <2> QED
    BY <2>8, <2>9, Zenon
<1>3. ASSUME NEW p \in Writers, FlushReturn(p) PROVE FlushInv'
  <2> DEFINE old == writer[p]
             known == Known(old)
             new == [old EXCEPT !.at = "user", !.last = known, !.op = "none", !.value = 0, !.report = NoReport]
  <2>1. /\ old.at = "done" /\ UNCHANGED fooContents
        /\ writer' = [writer EXCEPT ![p] = new]
    BY <1>3, Zenon DEF FlushReturn, Known
  <2>2. NoReport \in [bytes : FileBytes, size : Nat]
    BY DEF NoReport, FileBytes
  <2>3. old \in WriterRecords
    BY Zenon DEF FlushInv
  <2>4. known \in WriteValues \cup {0}
    BY <2>3, Zenon DEF Known, WriterRecords
  <2> HIDE DEF known
  <2>5. new \in WriterRecords /\ new.last = known /\ new.at = "user" /\ new.op = "none"
    BY <2>2, <2>3, <2>4, Zenon DEF WriterRecords
  <2> HIDE DEF new
  <2>6. /\ writer' \in [Writers -> WriterRecords]
        /\ \A q \in Writers : writer'[q] = IF q = p THEN new ELSE writer[q]
    BY <2>1, <2>5, Zenon DEF FlushInv
  <2>7. FlushReportsWrites'
    BY <2>5, <2>6 DEF FlushInv, FlushReportsWrites
  <2> QED
    BY <2>1, <2>5, <2>6, <2>7 DEF FlushInv, Known, known
<1>4. CASE UNCHANGED flushVars
  BY <1>4, Zenon DEF flushVars, FlushInv, FlushReportsWrites
<1> QED
  BY <1>1, <1>2, <1>3, <1>4, Zenon DEF FlushNext

-----------------------------------------------------------------------------
(* loopbackfs *)

\* Every path, every inode number, and what a call may be doing.
AllPaths == Paths \cup {<< >>, DirPath}
AllInos == FileInos \cup {LoopRoot, DirIno}
Entries == AllInos \cup {0, Dangling}
MirrorRecords ==
    [op : {"none", "lookup", "getattr", "read"}, at : {"idle", "start", "stat", "found", "done"},
     parent : AllInos \cup {0}, name : {"none", "a", "d"}, off : Nat, path : AllPaths,
     id : AllInos \cup {0}, reply : {"none", "OK", "ENOENT", "EIO"}, got : Nat,
     ino : Entries, from : Nat]

\* What a lookup or a use has found out so far.
MirrorSound(r) ==
    /\ r.at = "start" => r.parent \in {LoopRoot, DirIno} \cap DOMAIN inodes
    /\ r.at = "stat" => r.id \in lost \/ tree[r.path] = r.id
    /\ r.at = "found" => r.id \in DOMAIN inodes
    /\ r.at \in {"stat", "found"} => r.id \in AllInos /\ r.ino = r.id /\ r.from <= version[r.id]

\* LoopMirrors for one call.
AnswerRight(r) ==
    r.at = "done" =>
      /\ r.reply = "ENOENT" => r.ino \in {0, Dangling}
      /\ r.reply = "OK" => r.id = r.ino
      /\ r.reply = "OK" /\ r.ino \notin lost => r.got \in r.from .. version[r.ino]
      /\ r.reply = "EIO" /\ r.ino \notin lost =>
           r.op = "read" /\ \E v \in r.from .. version[r.ino] : r.off > size[r.ino][v]

\* What makes LoopMirrors inductive: fs.inodes keeps a path where the inode still is,
\* if it has kept its names.  An answer without ENOENT is about an inode there is.
LoopInv ==
    /\ tree \in [AllPaths -> Entries] /\ tree[<< >>] = LoopRoot /\ tree[DirPath] = DirIno
    /\ \A p \in Paths : tree[p] \notin {LoopRoot, DirIno}
    /\ version \in [AllInos -> 0 .. MaxVersion] /\ size \in [AllInos -> [0 .. MaxVersion -> Nat]]
    /\ lost \in SUBSET (FileInos \cup {0, Dangling})
    /\ DOMAIN inodes \subseteq AllInos /\ LoopRoot \in DOMAIN inodes
    /\ \A i \in DOMAIN inodes : inodes[i] \in AllPaths /\ (i \in lost \/ tree[inodes[i]] = i)
    /\ mirror \in [Mirrors -> MirrorRecords]
    /\ \A m \in Mirrors :
         /\ MirrorSound(mirror[m]) /\ AnswerRight(mirror[m])
         /\ mirror[m].at = "done" /\ mirror[m].reply # "ENOENT" => mirror[m].ino \in AllInos

\* The answers of the calls are what LoopMirrors says of them.
LEMMA AnswersMirror == LoopInv => LoopMirrors
BY ZenonT(40) DEF LoopInv, LoopMirrors, AnswerRight

\* The root and the directory are not among the paths of files.
LEMMA PathsDistinct == << >> \notin Paths /\ DirPath \notin Paths /\ << >> # DirPath
BY Zenon DEF Paths, DirPath

\* The inode numbers of the root, of the directory and of files differ.
LEMMA InosDistinct ==
    /\ 0 \notin AllInos /\ Dangling \notin AllInos /\ LoopRoot # DirIno /\ Dangling # 0
    /\ FileInos \cap {LoopRoot, DirIno, 0, Dangling} = {}
    /\ {LoopRoot, DirIno} \cap {0, Dangling} = {}
BY LoopbackFSAssumption DEF AllInos, LoopRoot, DirIno, Dangling

\* A user with no call under way.
LEMMA IdleIsMirror == IdleMirror \in MirrorRecords /\ IdleMirror.at = "idle"
BY Zenon DEF IdleMirror, MirrorRecords, AllPaths, Entries

\* The directory underneath, empty, satisfies the invariant of LoopbackFS.
LEMMA LoopStart == LoopInit => LoopInv
<1> SUFFICES ASSUME LoopInit PROVE LoopInv
  BY Zenon
<1>1. /\ tree \in [AllPaths -> Entries] /\ tree[<< >>] = LoopRoot /\ tree[DirPath] = DirIno
      /\ \A p \in Paths : tree[p] = 0
  BY PathsDistinct, Zenon DEF LoopInit, AllPaths, AllInos, Entries
<1>2. \A m \in Mirrors : mirror[m] = IdleMirror
  BY Zenon DEF LoopInit
<1>3. \A m \in Mirrors : MirrorSound(mirror[m])
  BY <1>2, IdleIsMirror, Zenon DEF MirrorSound
<1>4. \A m \in Mirrors : AnswerRight(mirror[m]) /\ mirror[m].at # "done"
  BY <1>2, IdleIsMirror, Zenon DEF AnswerRight
<1>5. mirror \in [Mirrors -> MirrorRecords]
  BY IdleIsMirror, Zenon DEF LoopInit
<1>6. /\ version \in [AllInos -> 0 .. MaxVersion] /\ size \in [AllInos -> [0 .. MaxVersion -> Nat]]
      /\ lost = {} /\ DOMAIN inodes = {LoopRoot} /\ inodes[LoopRoot] = << >>
  BY LoopbackFSAssumption DEF LoopInit, AllInos
<1>7. LoopRoot # 0 /\ DirIno # 0
  BY DEF LoopRoot, DirIno
<1> QED
  BY <1>1, <1>3, <1>4, <1>5, <1>6, <1>7, Zenon DEF LoopInv, AllInos, AllPaths

\* Every step of a call, and of whoever else changes the directory underneath, keeps
\* the invariant of LoopbackFS.
LEMMA LoopStep == LoopInv /\ [LoopNext]_loopVars => LoopInv'
<1> SUFFICES ASSUME LoopInv, [LoopNext]_loopVars PROVE LoopInv'
  BY Zenon
<1>1. ASSUME NEW p \in Paths, NEW i \in FileInos \cup {Dangling}, CreateBelow(p, i) PROVE LoopInv'
  <2>1. /\ tree[p] = 0 /\ tree' = [tree EXCEPT ![p] = i]
        /\ UNCHANGED <<version, size, lost, inodes, mirror>>
    BY <1>1, Zenon DEF CreateBelow
  <2>2. i \in Entries /\ i \notin {LoopRoot, DirIno}
    BY InosDistinct, Zenon DEF Entries, AllInos
  <2>3. /\ tree' \in [AllPaths -> Entries]
        /\ \A q \in AllPaths : tree[q] # 0 => tree'[q] = tree[q]
        /\ tree'[<< >>] = LoopRoot /\ tree'[DirPath] = DirIno
        /\ \A q \in Paths : tree'[q] \notin {LoopRoot, DirIno}
    BY <2>1, <2>2, PathsDistinct, InosDistinct, ZenonT(40) DEF LoopInv, AllPaths
  <2>4. \A m \in Mirrors : MirrorSound(mirror[m])'
    BY <2>1, <2>3, InosDistinct DEF LoopInv, MirrorSound, MirrorRecords
  <2>5. \A m \in Mirrors : AnswerRight(mirror[m])'
    BY <2>1, Zenon DEF LoopInv, AnswerRight
  <2>6. \A j \in DOMAIN inodes : j # 0
    BY InosDistinct, Zenon DEF LoopInv
  <2> QED
    BY <2>1, <2>3, <2>4, <2>5, <2>6, ZenonT(80) DEF LoopInv
<1>2. ASSUME NEW i \in FileInos, NEW n \in 0 .. MaxLength, WriteBelow(i, n) PROVE LoopInv'
  <2>1. /\ version' = [version EXCEPT ![i] = @ + 1] /\ version[i] < MaxVersion
        /\ size' = [size EXCEPT ![i] = [@ EXCEPT ![version[i] + 1] = n]]
        /\ UNCHANGED <<tree, lost, inodes, mirror>>
    BY <1>2, ZenonT(40) DEF WriteBelow
  <2>2. i \in AllInos /\ version[i] \in 0 .. MaxVersion /\ version[i] + 1 \in 0 .. MaxVersion
    BY <2>1, LoopbackFSAssumption DEF LoopInv, AllInos
  <2>3. /\ version' \in [AllInos -> 0 .. MaxVersion]
        /\ \A j \in AllInos : version'[j] = IF j = i THEN version[j] + 1 ELSE version[j]
    BY <2>1, <2>2, ZenonT(40) DEF LoopInv
  <2>4. /\ size' \in [AllInos -> [0 .. MaxVersion -> Nat]]
        /\ \A j \in AllInos, v \in 0 .. MaxVersion : v # version[i] + 1 => size'[j][v] = size[j][v]
        /\ \A j \in AllInos \ {i}, v \in 0 .. MaxVersion : size'[j][v] = size[j][v]
    <3>1. n \in Nat
      BY LoopbackFSAssumption
    <3> QED
      BY <2>1, <2>2, <3>1, ZenonT(40) DEF LoopInv
  <2>5. \A j \in AllInos, v \in Nat : v <= version[j] => v <= version'[j] /\ size'[j][v] = size[j][v]
    <3> SUFFICES ASSUME NEW j \in AllInos, NEW v \in Nat, v <= version[j]
                 PROVE  v <= version'[j] /\ size'[j][v] = size[j][v]
      BY Zenon
    <3>1. version[j] \in 0 .. MaxVersion
      BY Zenon DEF LoopInv
    <3>2. v \in 0 .. MaxVersion /\ v <= version'[j] /\ (j = i => v # version[i] + 1)
      BY <2>3, <3>1, LoopbackFSAssumption
    <3> QED
      BY <2>4, <3>2, Zenon
  <2>6. \A j \in AllInos : version[j] \in Nat /\ version'[j] \in Nat
    BY <2>3, LoopbackFSAssumption DEF LoopInv
  <2>7. ASSUME NEW m \in Mirrors PROVE MirrorSound(mirror[m])'
    <3>1. mirror[m] \in MirrorRecords /\ MirrorSound(mirror[m])
      BY Zenon DEF LoopInv
    <3>2. mirror[m].from \in Nat
      BY <3>1, Zenon DEF MirrorRecords
    <3> QED
      BY <2>1, <2>5, <3>1, <3>2, Zenon DEF MirrorSound
  <2>8. ASSUME NEW m \in Mirrors PROVE AnswerRight(mirror[m])'
    <3> DEFINE r == mirror[m]
    <3>1. r \in MirrorRecords /\ AnswerRight(r) /\ r.from \in Nat /\ r.got \in Nat
      BY Zenon DEF LoopInv, MirrorRecords
    <3>2. r.at = "done" /\ r.reply # "ENOENT" => r.ino \in AllInos
      BY Zenon DEF LoopInv
    <3>3. ASSUME NEW j \in AllInos, NEW v, v \in r.from .. version[j]
          PROVE  v \in r.from .. version'[j] /\ size'[j][v] = size[j][v]
      <4>1. v \in Nat /\ r.from <= v /\ v <= version[j]
        BY <2>6, <3>1, <3>3
      <4>2. v <= version'[j] /\ size'[j][v] = size[j][v]
        BY <2>5, <4>1, Zenon
      <4> QED
        BY <2>6, <3>1, <4>1, <4>2
    <3> HIDE DEF r
    <3>4. mirror' = mirror /\ lost' = lost
      BY <2>1, Zenon
    <3>5. ASSUME NEW q, q = r PROVE AnswerRight(q)'
      BY <3>1, <3>2, <3>3, <3>4, <3>5, ZenonT(60) DEF AnswerRight
    <3> QED
      BY <3>4, <3>5, Zenon DEF r
  <2> QED
    BY <2>1, <2>3, <2>4, <2>7, <2>8, ZenonT(40) DEF LoopInv
<1>3. ASSUME NEW p \in Paths, NEW q \in Paths, MoveBelow(p, q) PROVE LoopInv'
  <2>1. /\ lost' = lost \cup {tree[p], tree[q]}
        /\ tree' = IF p = q THEN [tree EXCEPT ![p] = 0] ELSE [tree EXCEPT ![q] = tree[p], ![p] = 0]
        /\ UNCHANGED <<version, size, inodes, mirror>>
    BY <1>3, ZenonT(40) DEF MoveBelow
  <2>2. /\ tree' \in [AllPaths -> Entries]
        /\ tree'[<< >>] = LoopRoot /\ tree'[DirPath] = DirIno
        /\ \A o \in Paths : tree'[o] \notin {LoopRoot, DirIno}
        /\ \A o \in AllPaths : tree[o] \in lost' \/ tree'[o] = tree[o]
    BY <2>1, PathsDistinct, InosDistinct, ZenonT(40) DEF LoopInv, AllPaths, AllInos, Entries
  <2>3. lost \subseteq lost' /\ lost' \in SUBSET (FileInos \cup {0, Dangling})
    <3>1. tree[p] \in FileInos \cup {0, Dangling} /\ tree[q] \in FileInos \cup {0, Dangling}
      BY ZenonT(40) DEF LoopInv, AllPaths, AllInos, Entries
    <3> QED
      BY <2>1, <3>1, Zenon DEF LoopInv
  <2>4. \A j \in DOMAIN inodes : inodes[j] \in AllPaths /\ (j \in lost' \/ tree'[inodes[j]] = j)
    BY <2>2, <2>3, Zenon DEF LoopInv
  <2>5. ASSUME NEW m \in Mirrors PROVE MirrorSound(mirror[m])'
    <3>1. MirrorSound(mirror[m]) /\ mirror[m].path \in AllPaths
      BY Zenon DEF LoopInv, MirrorRecords
    <3> QED
      BY <2>1, <2>2, <2>3, <3>1, ZenonT(40) DEF MirrorSound
  <2>6. \A m \in Mirrors : AnswerRight(mirror[m])'
    BY <2>1, <2>3, ZenonT(40) DEF LoopInv, AnswerRight
  <2> QED
    BY <2>1, <2>2, <2>3, <2>4, <2>5, <2>6, ZenonT(40) DEF LoopInv
\* What one process does, if it says so itself.
<1>4. ASSUME NEW m \in Mirrors, NEW new \in MirrorRecords, mirror' = [mirror EXCEPT ![m] = new],
             UNCHANGED <<tree, version, size, lost, inodes>>, MirrorSound(new),
             AnswerRight(new), new.at = "done" /\ new.reply # "ENOENT" => new.ino \in AllInos
      PROVE  LoopInv'
  <2>1. /\ mirror' \in [Mirrors -> MirrorRecords]
        /\ \A o \in Mirrors : mirror'[o] = IF o = m THEN new ELSE mirror[o]
    BY <1>4, ZenonT(40) DEF LoopInv
  <2>2. \A o \in Mirrors : MirrorSound(mirror[o])'
    BY <1>4, <2>1 DEF LoopInv, MirrorSound
  <2>3. \A o \in Mirrors : AnswerRight(mirror[o])'
    BY <1>4, <2>1, ZenonT(40) DEF LoopInv, AnswerRight
  <2> QED
    BY <1>4, <2>1, <2>2, <2>3, ZenonT(40) DEF LoopInv
<1>5. ASSUME NEW m \in Mirrors, NEW op \in {"lookup", "getattr", "read"}, NEW parent \in AllInos,
             NEW name \in {"none", "a", "d"}, NEW off \in Nat,
             op = "lookup" => parent \in {LoopRoot, DirIno},
             MirrorSends(m, op, parent, name, off)
      PROVE  LoopInv'
  <2> DEFINE at == IF op = "lookup" THEN "start" ELSE "found"
             id == IF op = "lookup" THEN 0 ELSE parent
             from == IF op = "lookup" THEN 0 ELSE version[parent]
             up == IF op = "lookup" THEN parent ELSE 0
             new == [IdleMirror EXCEPT !.op = op, !.name = name, !.off = off, !.parent = up, !.at = at,
                                       !.id = id, !.ino = id, !.from = from]
  <2>1. /\ parent \in DOMAIN inodes /\ mirror' = [mirror EXCEPT ![m] = new]
        /\ UNCHANGED <<tree, version, size, lost, inodes>>
    BY <1>5, Zenon DEF MirrorSends, Set
  <2>2. /\ from \in Nat /\ id \in AllInos \cup {0} /\ id \in Entries /\ up \in AllInos \cup {0}
        /\ at \in {"start", "found"}
    BY LoopbackFSAssumption DEF LoopInv, Entries
  <2>3. /\ op = "lookup" => at = "start" /\ parent \in {LoopRoot, DirIno} /\ up = parent
        /\ op # "lookup" => at = "found" /\ id = parent /\ from = version[parent]
    BY <1>5, Zenon
  <2> HIDE DEF at, id, from, up
  <2>4. /\ new \in MirrorRecords /\ new.at = at /\ new.id = id /\ new.ino = id /\ new.from = from
        /\ new.parent = up
    BY <2>2, IdleIsMirror, ZenonT(120) DEF MirrorRecords
  <2> HIDE DEF new
  <2>5. MirrorSound(new)
    BY <2>1, <2>2, <2>3, <2>4 DEF LoopInv, MirrorSound
  <2>6. AnswerRight(new) /\ new.at # "done"
    BY <2>2, <2>4, Zenon DEF AnswerRight
  <2> QED
    BY <1>4, <2>1, <2>4, <2>5, <2>6, Zenon
<1>6. ASSUME NEW m \in Mirrors, StatChild(m) PROVE LoopInv'
  <2> DEFINE old == mirror[m]
             path == JoinPath(old.parent, old.name)
             i == Stat(path)
             below == Below(m)
             kept == [old EXCEPT !.ino = below, !.parent = 0, !.name = "none"]
  <2>1. /\ old.at = "start" /\ UNCHANGED <<tree, version, size, lost, inodes>>
        /\ mirror' = [mirror EXCEPT ![m] =
             IF i = 0 THEN [kept EXCEPT !.at = "done", !.reply = "ENOENT"]
             ELSE [kept EXCEPT !.at = "stat", !.path = path, !.id = i, !.from = version[i]]]
    BY <1>6, Zenon DEF StatChild, Set
  <2>2. old \in MirrorRecords /\ old.parent \in {LoopRoot, DirIno} /\ old.parent \in DOMAIN inodes
    BY <2>1, Zenon DEF LoopInv, MirrorSound
  <2>3. /\ below \in Entries /\ i \in AllInos \cup {0}
        /\ i # 0 => path \in AllPaths /\ tree[path] = i
    <3>1. \A x : At(x) \in Entries /\ (At(x) # 0 => x \in AllPaths /\ tree[x] = At(x))
      BY Zenon DEF LoopInv, At, Entries
    <3> QED
      BY <3>1, Zenon DEF Below, Stat, Entries
  <2>4. below = At(path)
    <3>1. inodes[LoopRoot] = << >> /\ (DirIno \in DOMAIN inodes => inodes[DirIno] = DirPath)
      <4>1. LoopRoot \notin lost /\ DirIno \notin lost
        BY InosDistinct, Zenon DEF LoopInv
      <4> QED
        BY <4>1, InosDistinct, ZenonT(40) DEF LoopInv, AllPaths
    <3>2. Append(<< >>, old.name) = <<old.name>> /\ Append(DirPath, old.name) = DirPath \o <<old.name>>
      BY DEF DirPath
    <3>3. CASE old.parent = LoopRoot
      BY <3>1, <3>2, <3>3, InosDistinct, Zenon DEF Below, JoinPath
    <3>4. CASE old.parent = DirIno
      BY <2>2, <3>1, <3>2, <3>4, Zenon DEF Below, JoinPath
    <3> QED
      BY <2>2, <3>3, <3>4, Zenon
  <2>7. i = IF below = Dangling THEN 0 ELSE below
    BY <2>4, Zenon DEF Stat
  <2>8. /\ kept \in MirrorRecords /\ kept.ino = below
    BY <2>2, <2>3, Zenon DEF MirrorRecords
  <2> HIDE DEF path, i, below, kept
  <2>5. CASE i = 0
    <3> DEFINE new == [kept EXCEPT !.at = "done", !.reply = "ENOENT"]
    <3>1. new \in MirrorRecords /\ new.at = "done" /\ new.reply = "ENOENT" /\ new.ino = below
      BY <2>8, ZenonT(40) DEF MirrorRecords
    <3>2. mirror' = [mirror EXCEPT ![m] = new]
      BY <2>1, <2>5, Zenon
    <3> HIDE DEF new
    <3>3. MirrorSound(new)
      BY <3>1, Zenon DEF MirrorSound
    <3>4. AnswerRight(new)
      BY <2>5, <2>7, <3>1, Zenon DEF AnswerRight
    <3> QED
      BY <1>4, <2>1, <3>1, <3>2, <3>3, <3>4, Zenon
  <2>6. CASE i # 0
    <3> DEFINE new == [kept EXCEPT !.at = "stat", !.path = path, !.id = i, !.from = version[i]]
    <3>1. version[i] \in Nat
      BY <2>3, <2>6, LoopbackFSAssumption DEF LoopInv
    <3>2. /\ new \in MirrorRecords /\ new.at = "stat" /\ new.ino = below /\ new.path = path
          /\ new.id = i /\ new.from = version[i]
      BY <2>3, <2>6, <2>8, <3>1, ZenonT(40) DEF MirrorRecords
    <3>3. mirror' = [mirror EXCEPT ![m] = new]
      BY <2>1, <2>6, Zenon
    <3> HIDE DEF new
    <3>4. MirrorSound(new)
      BY <2>3, <2>6, <2>7, <3>1, <3>2 DEF MirrorSound
    <3>5. AnswerRight(new)
      BY <3>2, Zenon DEF AnswerRight
    <3> QED
      BY <1>4, <2>1, <3>2, <3>3, <3>4, <3>5, Zenon
  <2> QED
    BY <2>5, <2>6, Zenon
<1>7. ASSUME NEW m \in Mirrors, LoadOrStore(m) PROVE LoopInv'
  <2> DEFINE old == mirror[m]
             new == [old EXCEPT !.at = "found", !.path = << >>]
  <2>1. /\ old.at = "stat" /\ mirror' = [mirror EXCEPT ![m] = new]
        /\ inodes' = [k \in DOMAIN inodes \cup {old.id} |-> IF k \in DOMAIN inodes THEN inodes[k] ELSE old.path]
        /\ UNCHANGED <<tree, version, size, lost>>
    BY <1>7, Zenon DEF LoadOrStore, Set
  <2>2. old \in MirrorRecords /\ MirrorSound(old) /\ old.id \in AllInos /\ old.path \in AllPaths
    BY <2>1, Zenon DEF LoopInv, MirrorSound, MirrorRecords
  <2>3. /\ new \in MirrorRecords /\ new.at = "found" /\ new.id = old.id /\ new.ino = old.ino
        /\ new.from = old.from
    BY <2>2, Zenon DEF MirrorRecords, AllPaths
  <2> HIDE DEF new
  <2>4. /\ mirror' \in [Mirrors -> MirrorRecords]
        /\ \A o \in Mirrors : mirror'[o] = IF o = m THEN new ELSE mirror[o]
    BY <2>1, <2>3, Zenon DEF LoopInv
  <2>5. /\ DOMAIN inodes' = DOMAIN inodes \cup {old.id}
        /\ \A k \in DOMAIN inodes' : inodes'[k] \in AllPaths /\ (k \in lost \/ tree[inodes'[k]] = k)
    BY <2>1, <2>2, Zenon DEF LoopInv, MirrorSound
  <2>6. \A o \in Mirrors : MirrorSound(mirror[o])'
    <3>1. ASSUME NEW r, MirrorSound(r) PROVE MirrorSound(r)'
      BY <2>1, <2>5, <3>1, Zenon DEF MirrorSound
    <3>2. ASSUME NEW r, r = new PROVE MirrorSound(r)'
      BY <2>1, <2>2, <2>3, <2>5, <3>2, Zenon DEF MirrorSound
    <3> SUFFICES ASSUME NEW o \in Mirrors, NEW r, r = mirror'[o] PROVE MirrorSound(r)'
      BY ZenonT(40) DEF MirrorSound
    <3>3. r = new \/ MirrorSound(r)
      BY <2>4, Zenon DEF LoopInv
    <3> QED
      BY <3>1, <3>2, <3>3, ZenonT(40)
  <2>7. \A o \in Mirrors : AnswerRight(mirror[o])'
    BY <2>1, <2>3, <2>4, ZenonT(40) DEF LoopInv, AnswerRight
  <2> QED
    BY <2>1, <2>2, <2>3, <2>4, <2>5, <2>6, <2>7, ZenonT(40) DEF LoopInv
<1>8. ASSUME NEW m \in Mirrors, UseEntry(m) PROVE LoopInv'
  <2> DEFINE old == mirror[m]
             i == Stat(inodes[old.id])
             fails == i = 0 \/ (old.op = "read" /\ old.off > size[i][version[i]])
             reply == IF fails THEN "EIO" ELSE "OK"
             got == IF fails THEN 0 ELSE version[i]
             new == [old EXCEPT !.at = "done", !.reply = reply, !.got = got]
  <2>1. /\ old.at = "found" /\ mirror' = [mirror EXCEPT ![m] = new]
        /\ UNCHANGED <<tree, version, size, lost, inodes>>
    BY <1>8, Zenon DEF UseEntry, Set
  <2>2. /\ old \in MirrorRecords /\ MirrorSound(old) /\ old.id \in AllInos /\ old.id \in DOMAIN inodes
        /\ old.ino = old.id /\ old.from <= version[old.id] /\ old.from \in Nat
    BY <2>1, Zenon DEF LoopInv, MirrorSound, MirrorRecords
  <2>3. i \in AllInos \cup {0} /\ (old.id \notin lost => i = old.id)
    BY <2>2, InosDistinct, ZenonT(40) DEF LoopInv, Stat, At, Entries
  <2>4. /\ got \in Nat /\ reply \in {"OK", "EIO"}
        /\ reply = "OK" => got = version[i]
        /\ reply = "EIO" => i = 0 \/ (old.op = "read" /\ old.off > size[i][version[i]])
    <3>1. version \in [AllInos -> Nat]
      <4>1. version \in [AllInos -> 0 .. MaxVersion] /\ 0 .. MaxVersion \subseteq Nat
        BY LoopbackFSAssumption DEF LoopInv
      <4> QED
        BY <4>1, Zenon
    <3>2. i # 0 => version[i] \in Nat
      BY <2>3, <3>1, Zenon
    <3>3. 0 \in Nat
      OBVIOUS
    <3> QED
      BY <3>2, <3>3, Zenon
  <2> HIDE DEF got, reply, i
  <2>5. /\ new \in MirrorRecords /\ new.at = "done" /\ new.reply = reply /\ new.got = got
        /\ new.id = old.id /\ new.ino = old.ino /\ new.from = old.from /\ new.op = old.op /\ new.off = old.off
    BY <2>2, <2>4, ZenonT(40) DEF MirrorRecords
  <2> HIDE DEF new
  <2>6. MirrorSound(new)
    BY <2>5, Zenon DEF MirrorSound
  <2>7. version[old.id] \in old.from .. version[old.id]
    BY <2>2, LoopbackFSAssumption DEF LoopInv
  <2>8. old.id # 0
    BY <2>2, InosDistinct, Zenon
  <2>9. AnswerRight(new)
    BY <2>2, <2>3, <2>4, <2>5, <2>7, <2>8, ZenonT(60) DEF AnswerRight
  <2> QED
    BY <1>4, <2>1, <2>2, <2>5, <2>6, <2>9, Zenon
<1>9. ASSUME NEW m \in Mirrors, MirrorReturns(m) PROVE LoopInv'
  <2>1. MirrorSound(IdleMirror) /\ AnswerRight(IdleMirror) /\ IdleMirror.at # "done"
    BY IdleIsMirror, Zenon DEF MirrorSound, AnswerRight
  <2> QED
    BY <1>4, <1>9, <2>1, IdleIsMirror, Zenon DEF MirrorReturns, Set
<1>10. CASE UNCHANGED loopVars
  BY <1>10, ZenonT(40) DEF loopVars, LoopInv, AnswerRight, MirrorSound
<1>11. ASSUME NEW m \in Mirrors, NEW parent \in {LoopRoot, DirIno}, NEW name \in {"a", "d"},
              MirrorSends(m, "lookup", parent, name, 0)
       PROVE  LoopInv'
  BY <1>5, <1>11, Zenon DEF AllInos
<1>12. ASSUME NEW m \in Mirrors, NEW i \in FileInos, MirrorSends(m, "getattr", i, "none", 0) PROVE LoopInv'
  BY <1>5, <1>12, Zenon DEF AllInos
<1>13. ASSUME NEW m \in Mirrors, NEW i \in FileInos, NEW off \in 1 .. MaxLength,
              MirrorSends(m, "read", i, "none", off)
       PROVE  LoopInv'
  <2>1. off \in Nat /\ i \in AllInos
    BY LoopbackFSAssumption DEF AllInos
  <2> QED
    BY <1>5, <1>13, <2>1, Zenon
<1> QED
  BY <1>1, <1>2, <1>3, <1>6, <1>7, <1>8, <1>9, <1>10, <1>11, <1>12, <1>13, ZenonT(40) DEF LoopNext

-----------------------------------------------------------------------------
(* forgetfs *)

\* Seen is what makes the properties inductive: an inode with an op under way is
\* held by the kernel, an inode not made yet has no count, and one that has been
\* counted has been looked up.
Seen ==
    /\ \A k \in Kinds, i \in IDs :
         phase # "destroyed" /\ sent[k][i] > 0 => nlookup[i] > 0
    /\ \A i \in IDs : answered[i] > 0 => nlookup[i] > 0
    /\ \A i \in IDs : i >= nextInodeID =>
         lookupCount[i] = 0 /\ i \notin lookedUp /\ nlookup[i] = 0 /\ entries[i] = 0 /\ forgets[i] = 0
    /\ \A i \in IDs : i < nextInodeID => i \in lookedUp

ForgetInv == TypeOK /\ NoPanic /\ CountsBalance /\ Seen

\* A canned inode has one lookup that is never given up.
LEMMA CannedType == \A i : Canned(i) \in Nat
BY Zenon DEF Canned

\* The initial state (New) satisfies the invariant.
LEMMA ForgetInit == Init => ForgetInv
<1> SUFFICES ASSUME Init PROVE ForgetInv
  BY Zenon
<1> USE ForgetFSAssumption
<1>1. TypeOK
  <2>1. nextInodeID \in Next_ .. MaxInodeID + 1 /\ lookedUp \subseteq IDs
    BY DEF Init, IDs, Next_
  <2>2. lookupCount \in [IDs -> Nat] /\ nlookup \in [IDs -> Nat]
    BY Zenon DEF Init
  <2>3. sent \in [Kinds -> [IDs -> Nat]]
    BY Zenon DEF Init
  <2>4. answered \in [IDs -> Nat] /\ entries \in [IDs -> Nat] /\ forgets \in [IDs -> Nat]
    BY Zenon DEF Init
  <2> QED
    BY <2>1, <2>2, <2>3, <2>4, Zenon DEF Init, TypeOK
<1>2. NoPanic /\ CountsBalance
  BY DEF Init, NoPanic, CountsBalance, Canned, IDs, Root, Foo, Bar, Next_
<1>3. Seen
  BY DEF Init, Seen, IDs, Kinds, Root, Next_
<1> QED
  BY <1>1, <1>2, <1>3, Zenon DEF ForgetInv

\* An inode on which an op is under way is found by findInodeByID.
LEMMA SentFound ==
    ASSUME ForgetInv, phase # "destroyed", NEW k \in Kinds, NEW i \in IDs, sent[k][i] > 0
    PROVE  Finds(i)
<1>1. nlookup[i] > 0
  BY Zenon DEF ForgetInv, Seen
<1>2. lookupCount[i] > 0
  BY <1>1 DEF ForgetInv, CountsBalance, TypeOK, Canned
<1>3. i < nextInodeID
  BY <1>1 DEF ForgetInv, Seen, TypeOK, IDs
<1> QED
  BY <1>2, <1>3 DEF Finds, Forgotten, ForgetInv, TypeOK

\* foo and bar can always be found, since New looks them up once for good.
LEMMA CannedFound ==
    ASSUME ForgetInv, phase # "destroyed", NEW i \in {Foo, Bar}
    PROVE  i \in IDs /\ Finds(i)
<1>1. i \in IDs
  BY ForgetFSAssumption DEF IDs, Foo, Bar
<1>2. lookupCount[i] > 0
  BY <1>1 DEF ForgetInv, CountsBalance, TypeOK, Canned
<1>3. i < nextInodeID
  BY DEF ForgetInv, TypeOK, Foo, Bar, Next_
<1> QED
  BY <1>1, <1>2, <1>3 DEF Finds, Forgotten, ForgetInv, TypeOK

\* The lookups the kernel gives up can be given up: ForgetInode does not panic.
LEMMA ForgetFound ==
    ASSUME ForgetInv, phase # "destroyed", NEW i \in IDs, NEW n \in Nat \ {0}, n <= forgets[i]
    PROVE  Finds(i) /\ lookupCount[i] >= n
<1>1. lookupCount[i] >= n
  BY DEF ForgetInv, CountsBalance, TypeOK, Canned
<1>2. i < nextInodeID
  BY DEF ForgetInv, Seen, TypeOK, IDs
<1> QED
  BY <1>1, <1>2 DEF Finds, Forgotten, ForgetInv, TypeOK

\* Every step of the kernel and of the file system preserves the invariant.
LEMMA ForgetStep == ForgetInv /\ [Next]_vars => ForgetInv'
<1> SUFFICES ASSUME ForgetInv, [Next]_vars PROVE ForgetInv'
  BY Zenon
<1> USE ForgetFSAssumption, CannedType
<1>1. ASSUME NEW i \in IDs, NEW k \in Kinds, Send(k, i) PROVE ForgetInv'
  <2>1. TypeOK'
    BY <1>1 DEF ForgetInv, TypeOK, Send, fsVars
  <2>2. NoPanic' /\ CountsBalance'
    BY <1>1, Zenon DEF ForgetInv, NoPanic, CountsBalance, Send, fsVars
  <2>3. Seen'
    BY <1>1, Zenon DEF ForgetInv, TypeOK, Seen, Send, fsVars
  <2> QED
    BY <2>1, <2>2, <2>3, Zenon DEF ForgetInv
<1>2. ASSUME NEW i \in IDs, ReceiveEntry(i) PROVE ForgetInv'
  <2>1. TypeOK'
    BY <1>2 DEF ForgetInv, TypeOK, ReceiveEntry, fsVars
  <2>2. NoPanic' /\ CountsBalance'
    <3> SUFFICES ASSUME NEW j \in IDs
             PROVE  lookupCount'[j] = Canned(j) + nlookup'[j] + entries'[j] + forgets'[j]
      BY <1>2, Zenon DEF ForgetInv, NoPanic, CountsBalance, ReceiveEntry, fsVars
    <3>1. lookupCount[j] = Canned(j) + nlookup[j] + entries[j] + forgets[j]
      BY <1>2, ZenonT(40) DEF ForgetInv, CountsBalance, ReceiveEntry, fsVars
    <3>2. CASE j = i
      <4>1. /\ lookupCount'[j] = lookupCount[j] /\ nlookup'[j] = nlookup[j] + 1
            /\ entries'[j] = entries[j] - 1 /\ forgets'[j] = forgets[j]
        BY <1>2, <3>2, Zenon DEF ForgetInv, TypeOK, ReceiveEntry, fsVars
      <4>2. /\ Canned(j) \in Nat /\ nlookup[j] \in Nat
            /\ entries[j] \in Nat /\ forgets[j] \in Nat
        BY Zenon DEF ForgetInv, TypeOK
      <4> QED
        BY <3>1, <4>1, <4>2
    <3>3. CASE j # i
      BY <1>2, <3>1, <3>3, Zenon DEF ForgetInv, TypeOK, ReceiveEntry, fsVars
    <3> QED
      BY <3>2, <3>3, Zenon
  <2>3. Seen'
    BY <1>2 DEF ForgetInv, TypeOK, Seen, ReceiveEntry, fsVars
  <2> QED
    BY <2>1, <2>2, <2>3, Zenon DEF ForgetInv
<1>3. ASSUME NEW i \in IDs, Consume(i) PROVE ForgetInv'
  <2>1. TypeOK'
    BY <1>3 DEF ForgetInv, TypeOK, Consume, fsVars
  <2>2. NoPanic' /\ CountsBalance'
    BY <1>3, Zenon DEF ForgetInv, NoPanic, CountsBalance, Consume, fsVars
  <2>3. Seen'
    BY <1>3, Zenon DEF ForgetInv, TypeOK, Seen, Consume, fsVars
  <2> QED
    BY <2>1, <2>2, <2>3, Zenon DEF ForgetInv
<1>4. ASSUME NEW i \in IDs, NEW n \in 1 .. MaxLookups, Forget(i, n) PROVE ForgetInv'
  <2>1. TypeOK'
    BY <1>4 DEF ForgetInv, TypeOK, Forget, fsVars
  <2>2. NoPanic' /\ CountsBalance'
    <3> SUFFICES ASSUME NEW j \in IDs
             PROVE  lookupCount'[j] = Canned(j) + nlookup'[j] + entries'[j] + forgets'[j]
      BY <1>4, Zenon DEF ForgetInv, NoPanic, CountsBalance, Forget, fsVars
    <3>1. lookupCount[j] = Canned(j) + nlookup[j] + entries[j] + forgets[j]
      BY <1>4, Zenon DEF ForgetInv, CountsBalance, Forget, fsVars
    <3>2. CASE j = i
      <4>1. /\ lookupCount'[j] = lookupCount[j] /\ nlookup'[j] = nlookup[j] - n
            /\ entries'[j] = entries[j] /\ forgets'[j] = forgets[j] + n
        BY <1>4, <3>2, Zenon DEF ForgetInv, TypeOK, Forget, fsVars
      <4>2. /\ Canned(j) \in Nat /\ nlookup[j] \in Nat
            /\ entries[j] \in Nat /\ forgets[j] \in Nat
        BY Zenon DEF ForgetInv, TypeOK
      <4> QED
        BY <3>1, <4>1, <4>2
    <3>3. CASE j # i
      BY <1>4, <3>1, <3>3, Zenon DEF ForgetInv, TypeOK, Forget, fsVars
    <3> QED
      BY <3>2, <3>3, Zenon
  <2>3. Seen'
    BY <1>4 DEF ForgetInv, TypeOK, Seen, Forget, fsVars
  <2> QED
    BY <2>1, <2>2, <2>3, Zenon DEF ForgetInv
<1>5. ASSUME NEW i \in IDs, NEW n \in 1 .. MaxLookups, ForgetInode(i, n) PROVE ForgetInv'
  <2>1. Finds(i) /\ lookupCount[i] >= n
    BY <1>5, ForgetFound DEF ForgetInode
  <2>2. TypeOK'
    BY <1>5, <2>1 DEF ForgetInv, TypeOK, ForgetInode
  <2>3. NoPanic' /\ CountsBalance'
    BY <1>5, <2>1 DEF ForgetInv, TypeOK, NoPanic, CountsBalance, ForgetInode
  <2>4. Seen'
    BY <1>5, <2>1 DEF ForgetInv, TypeOK, Seen, ForgetInode, Finds
  <2> QED
    BY <2>2, <2>3, <2>4, Zenon DEF ForgetInv
<1>6. ASSUME NEW i \in IDs, LookUpInode(i) PROVE ForgetInv'
  <2>0. "lookup" \in Kinds
    BY Zenon DEF Kinds
  <2>1. Finds(i)
    BY <1>6, <2>0, SentFound, Zenon DEF LookUpInode
  <2>2. CASE Handled("lookup", i) /\ UNCHANGED <<lookupCount, lookedUp, entries, nextInodeID>>
    <3>1. TypeOK'
      BY <2>2, <2>0 DEF ForgetInv, TypeOK, Handled
    <3>2. NoPanic' /\ CountsBalance'
      BY <2>2, Zenon DEF ForgetInv, NoPanic, CountsBalance, Handled
    <3>3. Seen'
      BY <2>2, <2>0, <1>6 DEF ForgetInv, TypeOK, Seen, Handled, LookUpInode
    <3> QED
      BY <3>1, <3>2, <3>3, Zenon DEF ForgetInv
  <2>3. ASSUME NEW child \in {Foo, Bar}, Handled("lookup", i), IncrementLookupCount(child),
               entries' = [entries EXCEPT ![child] = @ + 1], UNCHANGED nextInodeID
        PROVE ForgetInv'
    <3>0. child \in IDs /\ Finds(child)
      BY <2>3, CannedFound, Zenon DEF Handled
    <3>1. TypeOK'
      BY <2>3, <2>0, <3>0 DEF ForgetInv, TypeOK, Handled, IncrementLookupCount
    <3>2. NoPanic' /\ CountsBalance'
      <4> SUFFICES ASSUME NEW j \in IDs
               PROVE  lookupCount'[j] = Canned(j) + nlookup'[j] + entries'[j] + forgets'[j]
        BY <2>3, <3>0, Zenon DEF ForgetInv, NoPanic, CountsBalance, Handled, IncrementLookupCount
      <4>1. lookupCount[j] = Canned(j) + nlookup[j] + entries[j] + forgets[j]
        BY <2>3, <3>0, ZenonT(40) DEF ForgetInv, CountsBalance, Handled, IncrementLookupCount
      <4>2. CASE j = child
        <5>1. /\ lookupCount'[j] = lookupCount[j] + 1 /\ nlookup'[j] = nlookup[j]
              /\ entries'[j] = entries[j] + 1 /\ forgets'[j] = forgets[j]
          BY <2>3, <3>0, <4>2, Zenon DEF ForgetInv, TypeOK, Handled, IncrementLookupCount
        <5>2. /\ Canned(j) \in Nat /\ nlookup[j] \in Nat
              /\ entries[j] \in Nat /\ forgets[j] \in Nat
          BY Zenon DEF ForgetInv, TypeOK
        <5> QED
          BY <4>1, <5>1, <5>2
      <4>3. CASE j # child
        BY <2>3, <3>0, <4>1, <4>3, Zenon DEF ForgetInv, TypeOK, Handled, IncrementLookupCount
      <4> QED
        BY <4>2, <4>3, Zenon
    <3>3. Seen'
      BY <2>3, <2>0, <3>0, Zenon DEF ForgetInv, TypeOK, Seen, Handled, IncrementLookupCount, Finds
    <3> QED
      BY <3>1, <3>2, <3>3, Zenon DEF ForgetInv
  <2>4. \A child \in {Foo, Bar} : Finds(child)
    BY <1>6, CannedFound, Zenon DEF LookUpInode
  <2> QED
    BY <1>6, <2>1, <2>2, <2>3, <2>4, Zenon DEF LookUpInode
<1>7. ASSUME NEW i \in IDs, Mint(i) PROVE ForgetInv'
  <2>0. "make" \in Kinds /\ nextInodeID \in Nat
    BY DEF Kinds, ForgetInv, TypeOK, Next_
  <2>1. Finds(i)
    BY <1>7, <2>0, SentFound, Zenon DEF Mint
  <2>2. /\ Handled("make", i) /\ nextInodeID \in IDs
        /\ nextInodeID' = nextInodeID + 1
        /\ IncrementLookupCount(nextInodeID)
        /\ entries' = [entries EXCEPT ![nextInodeID] = @ + 1]
    BY <1>7, <2>1 DEF Mint, ForgetInv, TypeOK, IDs, Next_
  <2>3. TypeOK'
    <3>1. nextInodeID' \in Next_ .. MaxInodeID + 1
      BY <2>2, <2>0 DEF ForgetInv, TypeOK, IDs, Next_
    <3>2. lookedUp' \subseteq IDs /\ lookupCount' \in [IDs -> Nat] /\ entries' \in [IDs -> Nat]
      BY <2>2 DEF ForgetInv, TypeOK, IncrementLookupCount
    <3>3. sent' \in [Kinds -> [IDs -> Nat]] /\ answered' \in [IDs -> Nat]
      BY <2>2, <2>0 DEF ForgetInv, TypeOK, Handled
    <3> QED
      BY <2>2, <3>1, <3>2, <3>3, Zenon DEF ForgetInv, TypeOK, Handled
  <2>4. NoPanic' /\ CountsBalance'
    BY <2>2 DEF ForgetInv, TypeOK, NoPanic, CountsBalance, Handled, IncrementLookupCount
  <2>5. Seen'
    <3> DEFINE new == nextInodeID
    <3>1. \A k \in Kinds, j \in IDs : sent'[k][j] > 0 => nlookup'[j] > 0
      BY <2>2, <2>0, Zenon DEF ForgetInv, TypeOK, Seen, Handled
    <3>2. \A j \in IDs : answered'[j] > 0 => nlookup'[j] > 0
      BY <2>2, <2>0, Zenon DEF ForgetInv, TypeOK, Seen, Handled
    <3>3. \A j \in IDs : j >= new + 1 =>
            /\ lookupCount'[j] = 0 /\ j \notin lookedUp' /\ entries'[j] = 0
            /\ nlookup'[j] = 0 /\ forgets'[j] = 0
      <4> SUFFICES ASSUME NEW j \in IDs, j >= new + 1
                   PROVE  /\ lookupCount'[j] = 0 /\ j \notin lookedUp' /\ entries'[j] = 0
                          /\ nlookup'[j] = 0 /\ forgets'[j] = 0
        BY Zenon
      <4>1. j # nextInodeID /\ j >= nextInodeID
        BY <2>0 DEF IDs
      <4>2. /\ lookupCount[j] = 0 /\ j \notin lookedUp /\ entries[j] = 0
            /\ nlookup[j] = 0 /\ forgets[j] = 0
        BY <4>1, Zenon DEF ForgetInv, Seen
      <4> QED
        BY <2>2, <4>1, <4>2, Zenon DEF ForgetInv, TypeOK, Handled, IncrementLookupCount
    <3>4. \A j \in IDs : j < new + 1 => j \in lookedUp'
      BY <2>2, <2>0 DEF ForgetInv, Seen, IncrementLookupCount, IDs
    <3> QED
      BY <2>2, <3>1, <3>2, <3>3, <3>4, Zenon DEF Seen
  <2> QED
    BY <2>3, <2>4, <2>5, Zenon DEF ForgetInv
<1>8. ASSUME NEW i \in IDs, UseInode(i) PROVE ForgetInv'
  <2>0. "use" \in Kinds
    BY Zenon DEF Kinds
  <2>1. Finds(i)
    BY <1>8, <2>0, SentFound, Zenon DEF UseInode
  <2>2. Handled("use", i) /\ UNCHANGED <<lookupCount, lookedUp, entries, nextInodeID>>
    BY <1>8, <2>1, Zenon DEF UseInode
  <2>3. TypeOK'
    BY <2>2, <2>0 DEF ForgetInv, TypeOK, Handled
  <2>4. NoPanic' /\ CountsBalance'
    BY <2>2, Zenon DEF ForgetInv, NoPanic, CountsBalance, Handled
  <2>5. Seen'
    BY <2>2, <2>0, Zenon DEF ForgetInv, TypeOK, Seen, Handled
  <2> QED
    BY <2>3, <2>4, <2>5, Zenon DEF ForgetInv
<1>9. CASE Unmount
  BY <1>9, Zenon DEF ForgetInv, TypeOK, NoPanic, CountsBalance, Seen, Unmount, kernelVars
<1>10. CASE Destroy
  <2>1. TypeOK' /\ NoPanic'
    BY <1>10, Zenon DEF ForgetInv, TypeOK, NoPanic, Destroy, kernelVars
  <2>2. CountsBalance' /\ Seen'
    BY <1>10, Zenon DEF ForgetInv, TypeOK, CountsBalance, Seen, Destroy, kernelVars
  <2> QED
    BY <2>1, <2>2, Zenon DEF ForgetInv
<1>11. CASE UNCHANGED vars
  BY <1>11, Zenon DEF ForgetInv, TypeOK, NoPanic, CountsBalance, Seen, vars
<1> QED
  BY <1>1, <1>2, <1>3, <1>4, <1>5, <1>6, <1>7, <1>8, <1>9, <1>10, <1>11, Zenon DEF Next

\* The invariant holds in every reachable state.
THEOREM ForgetInvariance == Spec => []ForgetInv
BY ForgetInit, ForgetStep, PTL DEF Spec

\* No method of the file system panics: neither findInodeByID nor
\* DecrementLookupCount.
THEOREM ForgetNeverPanics == Spec => []NoPanic
<1>1. ForgetInv => NoPanic
  BY Zenon DEF ForgetInv
<1> QED
  BY <1>1, ForgetInvariance, PTL

\* The lookup counts of the file system and of the kernel balance.
THEOREM LookupCountsBalance == Spec => []CountsBalance
<1>1. ForgetInv => CountsBalance
  BY Zenon DEF ForgetInv
<1> QED
  BY <1>1, ForgetInvariance, PTL

\* Type correctness of ForgetFS.
THEOREM ForgetTypeCorrect == Spec => []TypeOK
<1>1. ForgetInv => TypeOK
  BY Zenon DEF ForgetInv
<1> QED
  BY <1>1, ForgetInvariance, PTL

\* No step of the kernel or of the file system revives a forgotten inode.
LEMMA DeadStep ==
    ASSUME ForgetInv, [Next]_vars, NEW i \in IDs, Forgotten(i)
    PROVE  Forgotten(i)' /\ nlookup'[i] = nlookup[i]
<1> USE ForgetFSAssumption
<1>1. i \in lookedUp /\ lookupCount[i] = 0 /\ i < nextInodeID
  <2>1. i \in lookedUp /\ lookupCount[i] = 0
    BY Zenon DEF Forgotten
  <2> QED
    BY <2>1 DEF ForgetInv, Seen, TypeOK, IDs
<1>2. CASE phase = "destroyed"
  <2>1. UNCHANGED vars
    BY <1>2, ZenonT(40) DEF Next, vars, Send, ReceiveEntry, Consume, Forget, Unmount, LookUpInode, Mint,
                UseInode, ForgetInode, Destroy
  <2> QED
    BY <1>1, <2>1, Zenon DEF Forgotten, vars
<1>3. CASE phase # "destroyed"
  <2>1. Canned(i) = 0 /\ nlookup[i] = 0 /\ entries[i] = 0 /\ forgets[i] = 0
    <3>1. /\ Canned(i) \in Nat /\ nlookup[i] \in Nat
          /\ entries[i] \in Nat /\ forgets[i] \in Nat
      BY CannedType, Zenon DEF ForgetInv, TypeOK
    <3>2. lookupCount[i] = Canned(i) + nlookup[i] + entries[i] + forgets[i]
      BY <1>3, Zenon DEF ForgetInv, CountsBalance
    <3>3. 0 = Canned(i) + nlookup[i] + entries[i] + forgets[i]
      BY <1>1, <3>2, Zenon
    <3> QED
      BY <3>1, <3>3, SMTT(30)
  <2>2. i \notin {Foo, Bar}
    BY <2>1 DEF Canned
  <2>3. ASSUME NEW j \in IDs, NEW k \in Kinds, Send(k, j)
        PROVE  UNCHANGED <<lookedUp, lookupCount, nlookup>>
    BY <2>3, Zenon DEF Send, fsVars
  <2>4. ASSUME NEW j \in IDs, ReceiveEntry(j)
        PROVE  UNCHANGED <<lookedUp, lookupCount>> /\ nlookup'[i] = nlookup[i]
    BY <2>1, <2>4 DEF ReceiveEntry, fsVars, ForgetInv, TypeOK
  <2>5. ASSUME NEW j \in IDs, Consume(j) PROVE UNCHANGED <<lookedUp, lookupCount, nlookup>>
    BY <2>5, Zenon DEF Consume, fsVars
  <2>6. ASSUME NEW j \in IDs, NEW n \in 1 .. MaxLookups, Forget(j, n)
        PROVE  UNCHANGED <<lookedUp, lookupCount>> /\ nlookup'[i] = nlookup[i]
    BY <2>1, <2>6 DEF Forget, fsVars, ForgetInv, TypeOK
  <2>7. ASSUME NEW j \in IDs, NEW n \in 1 .. MaxLookups, ForgetInode(j, n)
        PROVE  UNCHANGED <<lookedUp, nlookup>> /\ lookupCount'[i] = 0
    BY <1>1, <2>1, <2>7 DEF ForgetInode, Panics, kernelVars, ForgetInv, TypeOK
  <2>8. ASSUME NEW j \in IDs, LookUpInode(j)
        PROVE  i \in lookedUp' /\ UNCHANGED nlookup /\ lookupCount'[i] = 0
    BY <1>1, <2>2, <2>8, Zenon DEF LookUpInode, Panics, kernelVars, Handled, IncrementLookupCount,
                            ForgetInv, TypeOK
  <2>9. ASSUME NEW j \in IDs, Mint(j)
        PROVE  i \in lookedUp' /\ UNCHANGED nlookup /\ lookupCount'[i] = 0
    <3>1. i # nextInodeID
      BY <1>1 DEF ForgetInv, TypeOK, IDs
    <3> QED
      BY <1>1, <2>9, <3>1, Zenon DEF Mint, Panics, kernelVars, Handled, IncrementLookupCount,
                              ForgetInv, TypeOK
  <2>10. ASSUME NEW j \in IDs, UseInode(j) PROVE UNCHANGED <<lookedUp, lookupCount, nlookup>>
    BY <2>10, Zenon DEF UseInode, Panics, kernelVars, Handled
  <2>11. CASE Unmount
    BY <1>1, <2>11, Zenon DEF Unmount, kernelVars, Forgotten
  <2>12. CASE Destroy
    BY <1>1, <2>12, Zenon DEF Destroy, kernelVars, Forgotten
  <2>13. CASE UNCHANGED vars
    BY <1>1, <2>13, Zenon DEF vars, Forgotten
  <2> QED
    BY <1>1, <2>3, <2>4, <2>5, <2>6, <2>7, <2>8, <2>9, <2>10, <2>11, <2>12, <2>13, Zenon
       DEF Next, Forgotten
<1> QED
  BY <1>2, <1>3, Zenon

\* A forgotten inode stays forgotten: its ID is never given out again and the kernel
\* gets no further entry for it.
THEOREM ForgottenForGood == Spec => DeadStaysDead
<1>1. ForgetInv /\ [Next]_vars =>
        [\A i \in IDs : Forgotten(i) => Forgotten(i)' /\ nlookup'[i] = nlookup[i]]_vars
  BY DeadStep, Zenon
<1> QED
  BY <1>1, ForgetInvariance, PTL DEF Spec, DeadStaysDead

-----------------------------------------------------------------------------
(* What they promise *)

\* A reader of a file of memfs gets what was last written there, however it was
\* written, truncated and extended, unless it was by punching a hole.
THEOREM ReadsAreLastWritten ==
    ASSUME 3 \notin Modes
    PROVE  FileSpec => []ReadsLastWritten
<1>1. FileInv => ReadsLastWritten
  BY Zenon DEF FileInv
<1> QED
  BY <1>1, FileStart, FileStep, PTL DEF FileSpec

\* What flushfs reports to a user who flushes, syncs, reads or asks for the size holds
\* what that user wrote last, whatever the others write in between.
THEOREM FlushesReportWrites == FlushSpec => []FlushReportsWrites
<1>1. FlushInv => FlushReportsWrites
  BY Zenon DEF FlushInv
<1> QED
  BY <1>1, FlushStart, FlushStep, PTL DEF FlushSpec

\* What roloopbackfs answers is about the inode that the name stood for, ENOENT only if
\* there was none to be found; for a file that has kept its names it is a version the
\* file had during the call, or EIO for a read from beyond the end of one.
THEOREM LoopbackMirrors == LoopSpec => []LoopMirrors
BY AnswersMirror, LoopStart, LoopStep, PTL DEF LoopSpec
=============================================================================
