---------------------------- MODULE MessagePath ----------------------------
(***************************************************************************)
(* The way of a request and its reply through the two messages: the        *)
(* message read into the InMessage, the op and the buffers that            *)
(* convertInMessage makes of it, what the method puts into them, what      *)
(* kernelResponse makes of it and what Reply writes.  Requests come one    *)
(* after another and use the same two messages, as the freelists hand them *)
(* out (Connection shows that concurrent ops never share one).             *)
(*                                                                         *)
(* A byte of a result is a token <<r, i>>: the i-th byte that request r's  *)
(* method produced.  A unit of a request is <<0, v>>.                      *)
(***************************************************************************)
EXTENDS OutMessage, Requests

CONSTANTS
    MaxRequests     \* how many requests come (a bound)

ASSUME MessagePathAssumption == MaxRequests \in Nat

VARIABLES
    useVectoredRead,   \* config.UseVectoredRead
    in,        \* the InMessage
    out,       \* the OutMessage
    op,        \* the op being handled
    result,    \* what its method has set: Data, BytesRead and the attributes
    stage,     \* "idle", "method", "reply", "ended" (ReadOp has failed) or "panic"
    count,     \* requests so far
    wire,      \* the last packet written
    sent,      \* history: the request as the kernel meant it, and whether it was cut
    expect     \* history: the error, and the bytes the method meant to return

vars == <<useVectoredRead, in, out, op, result, stage, count, wire, sent, expect>>

\* Where the reply of an op comes from:
\*   none     ops without a response
\*   empty    ops with an empty response
\*   struct   one structure
\*   structs  two of them
\*   string   a string
\*   readdir  a buffer in the OutMessage
\*   xattr    the same, or for size 0 a structure with the size
\*   read     a buffer in the InMessage, or none for size 0
\*   vector   buffers of the file system
\*   error    never anything but an error (handleOp returns ENOSYS)
Kind(o) ==
    CASE o.opcode \in {"Forget", "BatchForget", "Interrupt"} -> "none"
      [] o.opcode = "Create" -> "structs"
      [] o.opcode = "Readlink" -> "string"
      [] o.opcode = "Readdir" -> "readdir"
      [] o.opcode \in {"Getxattr", "Listxattr"} -> "xattr"
      [] o.opcode = "Read" -> IF useVectoredRead THEN "vector" ELSE "read"
      [] o.opcode = "Unknown" -> "error"
      [] o.opcode \in {"Lookup", "Getattr", "Setattr", "Mkdir", "Mknod", "Symlink", "Link",
                        "Open", "Opendir", "Write", "Statfs", "Init"} -> "struct"
      [] OTHER -> "empty"

\* The bytes asked for, whether op.Dst is not empty, and where it is.
Size(o) == IF o.opcode \in {"Read", "Readdir"} THEN Number(o.in[3]) ELSE Number(o.in[1])
DstInOut(o) == Kind(o) \in {"readdir", "xattr"} /\ Size(o) > 0
HasDst(o) == DstInOut(o) \/ (Kind(o) = "read" /\ HasFree(in, Size(o)))

\* What a method returns, and the number the header carries for it: only a
\* syscall.Errno passes, any other error becomes EIO.
Errors == {"nil", "errno", "other"}
Errno(err) == IF err = "other" THEN "EIO" ELSE err
Produced(r, n) == [i \in 1 .. n |-> <<r, i>>]
Tokens == (-1 .. MaxRequests) \X (0 .. 2 ^ 16)
Headers == [unique : 0 .. MaxRequests, error : {"nil", "errno", "EIO"},
            len : 0 .. HeaderSize + 2 * MaxData]
NoAttr == [mode |-> [perm |-> 0, bits |-> {}], rdev |-> 0, mtime |-> 0]
NoResult == [data |-> << >>, bytesRead |-> 0, attr |-> NoAttr]
NoPacket == [header |-> NoHeader, bytes |-> OutHeaderBytes, of |-> 0, attr |-> convertAttributes(NoAttr)]
NothingSent == [request |-> Op("none"), cut |-> FALSE]
NothingExpected == [error |-> "nil", bytes |-> << >>]

Init ==
    /\ useVectoredRead \in BOOLEAN
    /\ in = [header |-> NoMessage, size |-> 0, ok |-> TRUE, storage |-> Units(bufSize - 1, 0)]
    /\ out = [header |-> NoHeader, sglist |-> NilList]
    /\ op = Op("none")
    /\ result = NoResult
    /\ stage = "idle"
    /\ count = 0
    /\ wire = NoPacket
    /\ sent = NothingSent
    /\ expect = NothingExpected

-----------------------------------------------------------------------------
\* What convertInMessage does to the OutMessage for a Readdir, Getxattr or Listxattr
\* request: a buffer that op.Dst refers to.
Prepared(m, o) == IF DstInOut(o) THEN Grow(m, Size(o)) ELSE m

\* ReadOp: readMessage, getOutMessage and convertInMessage.  The device may hand over
\* a message in part.  A message that is refused or does not convert ends ReadOp with
\* an error; an interrupt is handled inline, and ReadOp goes on.
ReadOp(r, flags, cut) ==
    LET all == Layout(r, flags)
        header == [opcode |-> r.opcode, unique |-> count + 1, len |-> Len(all) + 1]
        read == SubSeq(<<header>> \o all, 1, Len(all) + 1 - cut)
    IN  /\ stage = "idle" /\ count < MaxRequests
        /\ count = 0 <=> r = InitRequest
        /\ flags # << >> => r.opcode = "Rename"
        /\ cut <= Len(all) + 1
        /\ count' = count + 1
        /\ sent' = [request |-> r, cut |-> cut > 0]
        /\ wire' = NoPacket /\ expect' = NothingExpected /\ result' = NoResult
        /\ IF Len(all) >= bufSize                     \* read(2) fails
           THEN stage' = "ended" /\ UNCHANGED <<in, out, op>>
           ELSE /\ in' = InitMessage(in, read)
                /\ op' = IF in'.ok THEN convertInMessage(r.opcode, Remaining(in')) ELSE Corrupt
                /\ IF op'.opcode = "corrupt" THEN stage' = "ended" /\ UNCHANGED out
                   ELSE /\ out' = Prepared(Reset(out), op')
                        /\ stage' = CASE op'.opcode = "panic" -> "panic"
                                      [] op'.opcode = "Interrupt" -> "idle"
                                      [] OTHER -> "method"
        /\ UNCHANGED useVectoredRead

\* op.Mode, with os.ModeDir for a new directory.
ModeOf(o) ==
    LET mode == ConvertFileMode(Number(IF o.opcode = "Setattr" THEN o.in[2] ELSE o.in[1]))
    IN  IF o.opcode = "Mkdir" THEN [mode EXCEPT !.bits = @ \cup {"Dir"}] ELSE mode

\* The attributes that a file system keeps of what it is told, and returns.
Kept(o) ==
    [mode |-> IF o.opcode \in {"Mkdir", "Mknod", "Create"} \/ (o.opcode = "Setattr" /\ Valid(o.in, 1))
              THEN ModeOf(o) ELSE NoAttr.mode,
     rdev |-> IF o.opcode = "Mknod" THEN Number(o.in[2]) ELSE 0,
     mtime |-> IF o.opcode = "Setattr" /\ Valid(o.in, 6)
               THEN timeUnix(Number(o.in[7]), Number(o.in[MtimeNsec])) ELSE 0]

\* What a method may leave behind when it returns err: n bytes read into Dst, or n
\* bytes in buffers of its own, of which the first k are meant.
Method(err, n, split, k) ==
    LET r == count
        kind == Kind(op)
        meant == CASE HasDst(op) \/ kind = "string" -> Produced(r, n)
                   [] kind = "vector" -> Produced(r, k)
                   [] kind \in {"struct", "xattr"} -> Produced(r, MaxData)
                   [] kind = "structs" -> Produced(r, 2 * MaxData)
                   [] OTHER -> << >>
        filled(s, from) == [i \in DOMAIN s |-> IF i \in from + 1 .. from + n THEN <<r, i - from>> ELSE s[i]]
    IN  /\ stage = "method"
        /\ kind \in {"readdir", "read"} \/ HasDst(op) => n <= Size(op)
        /\ kind \notin {"readdir", "xattr", "read", "string", "vector"} => n = 0
        /\ kind # "vector" => split = 0 /\ k = 0
        /\ kind = "error" => err = "errno"
        /\ op.opcode = "Init" => err = "nil"
        /\ k <= n
        /\ stage' = "reply"
        /\ result' = [data |-> CASE kind = "string" -> <<Produced(r, n)>>
                                [] kind = "vector" -> <<SubSeq(Produced(r, n), 1, split),
                                                        SubSeq(Produced(r, n), split + 1, n)>>
                                [] OTHER -> << >>,
                      bytesRead |-> IF kind = "vector" THEN k ELSE n,
                      attr |-> Kept(op)]
        /\ out' = IF ~DstInOut(op) THEN out ELSE [out EXCEPT !.sglist[2] = filled(@, 0)]
        /\ in' = IF kind # "read" \/ ~HasDst(op) THEN in
                 ELSE [in EXCEPT !.storage = filled(@, in.size - 1)]
        /\ expect' = [error |-> err, bytes |-> IF err = "nil" THEN meant ELSE << >>]
        /\ UNCHANGED <<useVectoredRead, op, count, wire, sent>>

-----------------------------------------------------------------------------
\* kernelResponseForOp.  A structure is one segment, grown and then filled in.
Filled(m, from) ==
    Append_(m, <<[i \in 1 .. MaxData |-> <<count, from + i>>]>>)

\* op.Dst of a read: the units after the request.
Dst == SubSeq(in.storage, in.size, in.size + Size(op) - 1)

\* Seeded bug: only the first of the buffers is sent.
WithDataFirst(m) ==
    CASE Kind(op) = "read" /\ HasDst(op) -> Append_(m, <<Dst>>)
      [] Kind(op) \in {"read", "vector"} ->
           Append_(m, IF result.data = << >> THEN << >> ELSE <<Head(result.data)>>)
      [] OTHER -> m

\* What is in the message before it is shrunk to what was read.
WithData(m) ==
    CASE Kind(op) = "read" /\ HasDst(op) -> Append_(m, <<Dst>>)
      [] Kind(op) \in {"read", "vector"} -> Append_(m, result.data)
      [] OTHER -> m

Shrinks == HasDst(op) \/ Kind(op) \in {"read", "vector"}

\* Seeded bug: the data of a read is appended whole.
KernelResponseForOpWhole(m) ==
    CASE Shrinks -> WithData(m)
      [] Kind(op) \in {"struct", "xattr"} -> Filled(m, 0)
      [] Kind(op) = "structs" -> Filled(Filled(m, 0), MaxData)
      [] Kind(op) = "string" -> Append_(m, result.data)
      [] OTHER -> m

KernelResponseForOp(m) ==
    CASE Shrinks -> ShrinkTo(WithData(m), HeaderSize + result.bytesRead)
      [] Kind(op) \in {"struct", "xattr"} -> Filled(m, 0)
      [] Kind(op) = "structs" -> Filled(Filled(m, 0), MaxData)
      [] Kind(op) = "string" -> Append_(m, result.data)
      [] OTHER -> m

WithLen(m) == [m EXCEPT !.header.len = Length(m)]

\* Seeded bug: an error leaves the buffer for the result in the message.
KernelResponseErrorWhole(m) ==
    LET h == [m EXCEPT !.header.unique = in.header.unique]
    IN  WithLen(IF expect.error # "nil" THEN [h EXCEPT !.header.error = Errno(expect.error)]
                ELSE KernelResponseForOp(h))

\* kernelResponse, for an op that has a response.
KernelResponse(m) ==
    LET h == [m EXCEPT !.header.unique = in.header.unique]
    IN  WithLen(IF expect.error # "nil"
                THEN ShrinkTo([h EXCEPT !.header.error = Errno(expect.error)], HeaderSize)
                ELSE KernelResponseForOp(h))

\* ShrinkTo panics when a method claims more bytes than it had room for.
Panics ==
    /\ Shrinks /\ expect.error = "nil"
    /\ ~InRange(WithData(out), HeaderSize + result.bytesRead)

\* Reply.  The write may fail (the request is gone); the list is then left for
\* Reset.
Reply ==
    /\ stage = "reply"
    /\ stage' = IF Panics THEN "panic" ELSE "idle"
    /\ IF Kind(op) = "none" \/ Panics
       THEN out' = [out EXCEPT !.header.unique = in.header.unique] /\ UNCHANGED wire
       ELSE LET m == KernelResponse(out)
            IN  \/ /\ wire' = [header |-> m.header, bytes |-> Flat(m), of |-> count,
                               attr |-> convertAttributes(result.attr)]
                   /\ out' = [m EXCEPT !.sglist = NilList]
                \/ out' = m /\ UNCHANGED wire
    /\ UNCHANGED <<useVectoredRead, in, op, result, count, sent, expect>>

Next ==
    \/ \E r \in KernelRequests \cup {InitRequest}, flags \in {<< >>, Units(FlagBytes, 0)}, cut \in 0 .. 2 :
         ReadOp(r, flags, cut)
    \/ \E err \in Errors, n \in 0 .. MaxData : \E split \in 0 .. n, k \in 0 .. n :
         Method(err, n, split, k)
    \/ Reply

Spec == Init /\ [][Next]_vars

-----------------------------------------------------------------------------
(* Properties *)

Answered == stage = "idle" /\ wire.of = count /\ count > 0

\* A packet is what its request calls for and nothing else, whatever the messages were
\* used for before.  Its length is the number of bytes written, its ID and error are
\* those of the request just handled, and an error comes without payload ("on OS X the
\* kernel otherwise returns EINVAL", kernelResponse).  The payload is what the method
\* returned: no byte of an earlier request, whose buffers the messages still hold, none
\* of the buffer beyond BytesRead, and none is lost between segments.
PacketExact ==
    Answered =>
      /\ wire.header.len = Len(wire.bytes)
      /\ wire.header.unique = count
      /\ wire.header.error = Errno(expect.error)
      /\ expect.error # "nil" => Len(wire.bytes) = HeaderSize
      /\ SubSeq(wire.bytes, HeaderSize + 1, Len(wire.bytes)) = expect.bytes

\* ShrinkTo cuts the message as a whole, wherever its segments end, and Len is its
\* length: what is left are its first n bytes.  It never panics for a method that keeps
\* to BytesRead <= len(Dst), or to the length of the Data it returns.
ShrinkToTruncates ==
    LET m == IF stage = "reply" /\ Kind(op) # "none" THEN WithData(out) ELSE out
    IN  /\ stage # "panic"
        /\ Length(m) = Len(Flat(m))
        /\ \A n \in HeaderSize .. Length(m) : Flat(ShrinkTo(m, n)) = SubSeq(Flat(m), 1, n)

\* The extended attribute that convertInMessage takes for a corrupt message ("len(payload)
\* < 3"): a name of one character with an empty value.
TakenForCorrupt(r) == r.opcode = "Setxattr" /\ Len(r.name) = 1 /\ r.rest = << >>

\* The op is the request the kernel sent.  A message handed over in part, of the header
\* or of what follows, never becomes an op.  A complete message becomes one, with the
\* names, data, entries and attributes that were meant, whatever the storage held
\* before; the one exception is the attribute above, which is refused and with which
\* ReadOp, and so the server, ends.
OpExact ==
    /\ stage # "ended" /\ count > 0 => op = sent.request
    /\ count > 0 => (stage = "ended" <=> sent.cut \/ TakenForCorrupt(sent.request))

\* The storage is large enough (bufSize): a ReadFile op always gets the buffer it asks
\* for beside its own message, or the kernel would take the empty answer for the end of
\* the file.
ReadHasRoom == stage = "method" /\ Kind(op) = "read" /\ Size(op) > 0 => HasDst(op)

\* The times that come back as they were sent: those from 1970 on, whole seconds before
\* it, and among both only what fits into an int64 of nanoseconds (about 1678 to 2262).
\* The fraction of a time before 1970 comes back as a huge unsigned number, and a time
\* out of range as another one.
TimeSurvives(secs, ticks) ==
    LET t == timeUnix(secs, ticks)
    IN  t = Signed(t, NanoWidth) /\ (t >= 0 \/ ticks = 0)

\* What the kernel is told of a file is what it asked for: the mode of chmod, mknod and
\* create, and of mkdir with the type of a directory, the device number, and the time of
\* utimes if it is one of the above, seconds and fraction, through convertInMessage, a
\* file system that keeps them, and the reply.
AttributesSurvive ==
    LET in1 == Number(sent.request.in[1])
        in2 == Number(sent.request.in[2])
    IN  Answered /\ expect.error = "nil" =>
          CASE sent.request.opcode = "Mkdir" -> wire.attr.mode = 4096 * S_IFDIR + in1
            [] sent.request.opcode = "Create" -> wire.attr.mode = in1
            [] sent.request.opcode = "Mknod" ->
                 wire.attr.mode = in1 /\ (TypeOf(in1) \in {S_IFCHR, S_IFBLK} => wire.attr.rdev = in2)
            [] sent.request.opcode = "Setattr" ->
                 LET secs == Number(sent.request.in[7])
                     ticks == Number(sent.request.in[MtimeNsec])
                 IN  /\ Valid(sent.request.in, 1) => wire.attr.mode = in2
                     /\ Valid(sent.request.in, 6) =>
                          (TimeSurvives(secs, ticks) <=> wire.attr.mtime = [secs |-> secs, ticks |-> ticks])
            [] OTHER -> TRUE
=============================================================================
