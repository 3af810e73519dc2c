----------------------------- MODULE OutMessage ----------------------------
(***************************************************************************)
(* internal/buffer/out_message.go: a reply as a header and a list of       *)
(* segments that are written to the kernel together.  The list is NilList, *)
(* or its first segment is the header itself.  Bytes are tokens.           *)
(***************************************************************************)
EXTENDS Integers, Sequences, SequencesExt

CONSTANTS
    HeaderSize    \* OutMessageHeaderSize

ASSUME OutMessageAssumption == HeaderSize \in Nat \ {0}

NilList == << >>
Zero == <<0, 0>>                                  \* a zeroed byte
NoHeader == [unique |-> 0, error |-> "nil", len |-> 0]
OutHeaderBytes == [i \in 1 .. HeaderSize |-> <<-1, i>>]

\* Seeded bug: the segments of the last reply stay.
ResetKeepsList(m) == [m EXCEPT !.header = NoHeader]

Reset(m) == [header |-> NoHeader, sglist |-> NilList]

Append_(m, segments) ==
    [m EXCEPT !.sglist = (IF @ = NilList THEN <<OutHeaderBytes>> ELSE @) \o segments]

Grow(m, n) == Append_(m, <<[i \in 1 .. n |-> Zero]>>)

\* All the bytes of the message, as writev or writeMessage sends them.
Flat(m) == IF m.sglist = NilList THEN OutHeaderBytes ELSE FlattenSeq(m.sglist)

Length(m) ==
    IF m.sglist = NilList THEN HeaderSize
    ELSE FoldLeft(LAMBDA n, s : n + Len(s), 0, m.sglist)

\* ShrinkTo does not panic.
InRange(m, n) == n >= HeaderSize /\ n <= Length(m)

\* Seeded bug: the segment that is cut is lost.
ShrinkToDropsPart(m, n) ==
    LET cut[i \in 1 .. Len(m.sglist) + 1, k \in 0 .. n] ==
          IF i <= Len(m.sglist) /\ k >= Len(m.sglist[i]) THEN cut[i + 1, k - Len(m.sglist[i])]
          ELSE SubSeq(m.sglist, 1, i - 1)
    IN  IF n = HeaderSize THEN [m EXCEPT !.sglist = NilList]
        ELSE [m EXCEPT !.sglist = cut[2, n - HeaderSize]]

\* The loop passes the segments that are kept whole; k bytes remain of the next one.
ShrinkTo(m, n) ==
    LET cut[i \in 1 .. Len(m.sglist) + 1, k \in 0 .. n] ==
          IF i <= Len(m.sglist) /\ k >= Len(m.sglist[i]) THEN cut[i + 1, k - Len(m.sglist[i])]
          ELSE IF k > 0 THEN Append(SubSeq(m.sglist, 1, i - 1), SubSeq(m.sglist[i], 1, k))
          ELSE SubSeq(m.sglist, 1, i - 1)
    IN  IF n = HeaderSize THEN [m EXCEPT !.sglist = NilList]
        ELSE [m EXCEPT !.sglist = cut[2, n - HeaderSize]]
=============================================================================
