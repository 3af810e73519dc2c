------------------------------ MODULE FlushFS ------------------------------
(***************************************************************************)
(* samples/flushfs: one file whose contents are reported on every flush    *)
(* and fsync.  Users write to it and close or sync it; the requests of     *)
(* different users are handled in any order, each under fs.mu.             *)
(*                                                                         *)
(* User p writes values at offset p only, so that nobody overwrites what   *)
(* another has written, but everybody extends the file.                    *)
(***************************************************************************)
EXTENDS Integers, Sequences

CONSTANTS Writers,      \* the users, numbers from 0
          WriteValues,  \* what they write: bytes other than 0
          MaxWrites     \* writes of each user (a bound)

ASSUME FlushFSAssumption == Writers \subseteq Nat /\ 0 \notin WriteValues

VARIABLES
    fooContents,   \* fs.fooContents
    writer         \* the users: their request, how far it is, and what they know

flushVars == <<fooContents, writer>>

NoReport == [bytes |-> << >>, size |-> 0]
FreshWriter == [op |-> "none", at |-> "user", value |-> 0, writes |-> 0, last |-> 0, report |-> NoReport]

FlushInit ==
    /\ fooContents = << >>
    /\ writer = [p \in Writers |-> FreshWriter]

\* The user makes a system call, and the kernel sends a request (external).
FlushSend(p, op, v) ==
    /\ writer[p].at = "user"
    /\ op = "write" => writer[p].writes < MaxWrites
    /\ LET writes == writer[p].writes + (IF op = "write" THEN 1 ELSE 0)
       IN  writer' = [writer EXCEPT ![p] = [writer[p] EXCEPT !.op = op, !.at = "sent", !.value = v,
                                                             !.report = NoReport, !.writes = writes]]
    /\ UNCHANGED fooContents

\* Seeded bug: the contents become as long as the write needs, even if they were longer.
FlushWriteCuts(p) ==
    fooContents' = [i \in 1 .. p + 1 |-> IF i = p + 1 THEN writer[p].value
                                         ELSE IF i <= Len(fooContents) THEN fooContents[i] ELSE 0]

\* WriteFile: padded with zeros up to the end of the write, then copied.
FlushWrite(p) ==
    LET padding == [i \in 1 .. p + 1 - Len(fooContents) |-> 0]
    IN  fooContents' = [fooContents \o padding EXCEPT ![p + 1] = writer[p].value]

\* ReadFile, from the offset of the user.
FlushRead(p) ==
    IF p > Len(fooContents) THEN << >> ELSE SubSeq(fooContents, p + 1, Len(fooContents))

\* fooAttributes, which LookUpInode and GetInodeAttributes answer with and
\* SetInodeAttributes too, leaving the contents whatever it is asked.
FooAttributes == [bytes |-> << >>, size |-> Len(fooContents)]

\* "report" stands for FlushFile and SyncFile, "attributes" for the three others.
Reported(p, op) ==
    CASE op = "report"     -> [bytes |-> fooContents, size |-> Len(fooContents)]
      [] op = "read"       -> [bytes |-> FlushRead(p), size |-> 0]
      [] op = "attributes" -> FooAttributes
      [] op = "write"      -> NoReport

FlushHandle(p) ==
    /\ writer[p].at = "sent"
    /\ writer' = [writer EXCEPT ![p].at = "done", ![p].report = Reported(p, writer[p].op)]
    /\ IF writer[p].op = "write" THEN FlushWrite(p) ELSE UNCHANGED fooContents

\* The system call returns (external).
FlushReturn(p) ==
    /\ writer[p].at = "done"
    /\ writer' = [writer EXCEPT ![p].at = "user",
                                ![p].last = IF writer[p].op = "write" THEN writer[p].value ELSE @,
                                ![p].op = "none", ![p].value = 0, ![p].report = NoReport]
    /\ UNCHANGED fooContents

FlushNext ==
    \E p \in Writers :
      \/ \E v \in WriteValues : FlushSend(p, "write", v)
      \/ \E op \in {"report", "read", "attributes"} : FlushSend(p, op, 0)
      \/ FlushHandle(p)
      \/ FlushReturn(p)

FlushSpec == FlushInit /\ [][FlushNext]_flushVars

FlushTypeOK ==
    /\ fooContents \in Seq(WriteValues \cup {0})
    /\ \A p \in Writers : writer[p].at \in {"user", "sent", "done"} /\ writer[p].writes \in 0 .. MaxWrites

\* "Whenever a flush or fsync is received, the supplied function will be called
\* with the current contents of the file": what is reported for a user's close
\* or fsync, read back or counted in the size holds the value that user wrote
\* last, whatever the others have written in between or extended the file by.
FlushReportsWrites ==
    \A p \in Writers :
      LET u == writer[p]
      IN  u.at = "done" /\ u.last # 0 =>
            /\ u.op = "report" => Len(u.report.bytes) > p /\ u.report.bytes[p + 1] = u.last
            /\ u.op = "read" => u.report.bytes # << >> /\ Head(u.report.bytes) = u.last
            /\ u.op = "attributes" => u.report.size > p
=============================================================================
