----------------------------- MODULE Connection -----------------------------
(***************************************************************************)
(* connection.go: a Connection reads messages from /dev/fuse, turns them   *)
(* into ops (ReadOp) and writes the replies (Reply).                       *)
(*                                                                         *)
(* One goroutine, the reader, calls ReadOp; every op is later replied to   *)
(* by the goroutine that handles it.  The atomic steps are the critical    *)
(* sections under c.mu (the two freelists, the map cancelFuncs) and the    *)
(* read(2) and write(2) calls.                                             *)
(***************************************************************************)
EXTENDS FuseKernel, Freelist

CONSTANTS
    InMsgs, OutMsgs,  \* addresses of buffer.InMessage and buffer.OutMessage
    FaultyDevice,     \* may read(2) fail with something else than ENODEV/EINTR?
    None

ASSUME ConnectionAssumption ==
    /\ FaultyDevice \in BOOLEAN
    /\ None \notin Reqs
    /\ None \notin InMsgs
    /\ None \notin OutMsgs

VARIABLES
    inFree, outFree,  \* c.inMessages, c.outMessages
    content,          \* content[b]: the kernel message InMessage b holds
    cancelFuncs,      \* c.cancelFuncs: which op's context an ID cancels
    ctx,              \* state of the context handed out with an op
    rpc,              \* where the reader is
    rIn, rOut,        \* the reader's local variables inMsg and outMsg
    rOp,              \* the op ReadOp returned last
    pc,               \* where the goroutine handling op r is
    opIn, opOut,      \* opState.inMsg, opState.outMsg until they are put back
    panicked          \* which panic has ended the process, if any

bufvars == <<inFree, outFree, content>>
readervars == <<rpc, rIn, rOut, rOp>>
opvars == <<pc, opIn, opOut>>
cvars == <<bufvars, cancelFuncs, ctx, readervars, opvars, panicked>>

ReaderStates ==
    {"idle", "reading", "converting", "converted", "returned", "sync", "eof",
     "error", "stopped"}
OpStates ==
    {"none", "read", "handling", "finishing", "responding", "callback",
     "putIn", "putOut", "replied", "done"}

CTypeOK ==
    /\ inFree \in Seq(InMsgs)
    /\ outFree \in Seq(OutMsgs)
    /\ content \in [InMsgs -> [req : Reqs \cup {None}, intr : BOOLEAN]]
    /\ cancelFuncs \in [IDs -> Reqs \cup {None}]
    /\ ctx \in [Reqs -> {"none", "parent", "live", "cancelled", "finished"}]
    /\ rpc \in ReaderStates
    /\ rIn \in InMsgs \cup {None}
    /\ rOut \in OutMsgs \cup {None}
    /\ rOp \in Reqs \cup {None}
    /\ pc \in [Reqs -> OpStates]
    /\ opIn \in [Reqs -> InMsgs \cup {None}]
    /\ opOut \in [Reqs -> OutMsgs \cup {None}]
    /\ panicked \in {"no", "recordCancelFunc", "finishOp", "ServeOps"}

CInit ==
    /\ inFree = << >> /\ outFree = << >>
    /\ content = [b \in InMsgs |-> [req |-> None, intr |-> FALSE]]
    /\ cancelFuncs = [u \in IDs |-> None]
    /\ ctx = [r \in Reqs |-> "none"]
    /\ rpc = "idle" /\ rIn = None /\ rOut = None /\ rOp = None
    /\ pc = [r \in Reqs |-> "none"]
    /\ opIn = [r \in Reqs |-> None]
    /\ opOut = [r \in Reqs |-> None]
    /\ panicked = "no"

\* Messages some live variable of the program refers to, freelists aside.
InHeld == ({rIn} \cup {opIn[r] : r \in Reqs}) \ {None}
OutHeld == ({rOut} \cup {opOut[r] : r \in Reqs}) \ {None}

-----------------------------------------------------------------------------
(* readMessage *)

GetInMessage ==
    /\ rpc = "idle"
    /\ \E b \in InMsgs : Gets(inFree, InMsgs \ InHeld, b) /\ rIn' = b
    /\ inFree' = AfterGet(inFree)
    /\ rpc' = "reading"
    /\ UNCHANGED <<kvars, outFree, content, cancelFuncs, ctx, rOut, rOp, opvars,
                   panicked>>

\* m.Init(c.dev) reads one message into the buffer.  (After EINTR the loop
\* tries again with nothing changed, which is no step of this model.)
ReadInto(m) ==
    /\ rpc = "reading"
    /\ content' = [content EXCEPT ![rIn] = m]
    /\ rpc' = "converting"
    /\ UNCHANGED <<inFree, outFree, cancelFuncs, ctx, rIn, rOut, rOp, opvars,
                   panicked>>

ReadRequest(r) == KDeliver(r) /\ ReadInto([req |-> r, intr |-> FALSE])

ReadInterrupt(r) == KDeliverInterrupt(r) /\ ReadInto([req |-> r, intr |-> TRUE])

\* Seeded bug: the error path puts the message back twice.
ReadFailsPutsTwice ==
    /\ rpc = "reading"
    /\ \/ kconn = "down" /\ rpc' = "eof"
       \/ FaultyDevice /\ rpc' = "error"
    /\ inFree' = AfterPut(AfterPut(inFree, rIn), rIn)
    /\ rIn' = None
    /\ UNCHANGED <<kvars, outFree, content, cancelFuncs, ctx, rOut, rOp, opvars,
                   panicked>>

\* The read fails: the message goes back to the freelist, and ReadOp returns
\* io.EOF for ENODEV or else the error.
ReadFails ==
    /\ rpc = "reading"
    /\ \/ kconn = "down" /\ rpc' = "eof"
       \/ FaultyDevice /\ rpc' = "error"
    /\ inFree' = AfterPut(inFree, rIn)
    /\ rIn' = None
    /\ UNCHANGED <<kvars, outFree, content, cancelFuncs, ctx, rOut, rOp, opvars,
                   panicked>>

-----------------------------------------------------------------------------
(* The rest of ReadOp *)

GetOutMessage ==
    /\ rpc = "converting"
    /\ \E b \in OutMsgs : Gets(outFree, OutMsgs \ OutHeld, b) /\ rOut' = b
    /\ outFree' = AfterGet(outFree)
    /\ rpc' = "converted"
    /\ UNCHANGED <<kvars, inFree, content, cancelFuncs, ctx, rIn, rOp, opvars,
                   panicked>>

\* convertInMessage fails: only the OutMessage is put back.
ConvertFails ==
    /\ rpc = "converted"
    /\ ~content[rIn].intr /\ kind[content[rIn].req] = "bad"
    /\ outFree' = AfterPut(outFree, rOut)
    /\ rIn' = None /\ rOut' = None
    /\ rpc' = "error"
    /\ UNCHANGED <<kvars, inFree, content, cancelFuncs, ctx, rOp, opvars, panicked>>

\* Seeded bug: the ID looked up is not the one to be interrupted.
HandleInterruptOfAny ==
    /\ rpc = "converted"
    /\ content[rIn].intr
    /\ \E u \in IDs :
         ctx' = IF cancelFuncs[u] = None
                THEN ctx ELSE [ctx EXCEPT ![cancelFuncs[u]] = "cancelled"]
    /\ rIn' = None /\ rOut' = None
    /\ rpc' = "idle"
    /\ UNCHANGED <<kvars, bufvars, cancelFuncs, rOp, opvars, panicked>>

\* An interrupt is handled inline; both messages are left to the collector.
HandleInterrupt ==
    /\ rpc = "converted"
    /\ content[rIn].intr
    /\ LET target == cancelFuncs[uniq[content[rIn].req]]
       IN  ctx' = IF target = None THEN ctx
                                   ELSE [ctx EXCEPT ![target] = "cancelled"]
    /\ rIn' = None /\ rOut' = None
    /\ rpc' = "idle"
    /\ UNCHANGED <<kvars, bufvars, cancelFuncs, rOp, opvars, panicked>>

\* beginOp records nothing for the opcode OpForget.
RecordsCancel(k) == k # "forget"

\* beginOp, and ReadOp returns the op with the messages in its context.
\* recordCancelFunc panics if the ID is in the map; the process is then gone and
\* the state it leaves behind is of no interest.
BeginOp ==
    /\ rpc = "converted"
    /\ LET r == content[rIn].req
           records == RecordsCancel(kind[r])
       IN  /\ ~content[rIn].intr /\ kind[r] # "bad"
           /\ panicked' = IF records /\ cancelFuncs[uniq[r]] # None
                         THEN "recordCancelFunc" ELSE panicked
           /\ cancelFuncs' = IF records THEN [cancelFuncs EXCEPT ![uniq[r]] = r]
                                       ELSE cancelFuncs
           /\ ctx' = [ctx EXCEPT ![r] = IF records THEN "live" ELSE "parent"]
           /\ rOp' = r
           /\ pc' = [pc EXCEPT ![r] = "read"]
           /\ opIn' = [opIn EXCEPT ![r] = rIn]
           /\ opOut' = [opOut EXCEPT ![r] = rOut]
    /\ rIn' = None /\ rOut' = None
    /\ rpc' = "returned"
    /\ UNCHANGED <<kvars, bufvars>>

-----------------------------------------------------------------------------
(* Reply *)

\* The request whose header is in op r's InMessage.
Header(r) == content[opIn[r]].req

\* Seeded bug: finishOp does not delete the map entry.
FinishOpKeepsEntry(r) ==
    /\ pc[r] = "finishing"
    /\ ctx' = [ctx EXCEPT ![r] = IF @ = "live" THEN "finished" ELSE @]
    /\ pc' = [pc EXCEPT ![r] = "responding"]
    /\ UNCHANGED <<kvars, bufvars, cancelFuncs, readervars, opIn, opOut, panicked>>

\* finishOp cancels the context (if handleInterrupt has not) and forgets the ID,
\* or panics if the map does not have it.
FinishOp(r) ==
    /\ pc[r] = "finishing"
    /\ LET u == uniq[Header(r)]
           records == RecordsCancel(kind[Header(r)])
       IN  /\ panicked' = IF records /\ cancelFuncs[u] = None THEN "finishOp"
                                                           ELSE panicked
           /\ ctx' = [q \in Reqs |->
                         IF records /\ q = cancelFuncs[u] /\ ctx[q] = "live"
                         THEN "finished" ELSE ctx[q]]
           /\ cancelFuncs' = IF records THEN [cancelFuncs EXCEPT ![u] = None]
                                       ELSE cancelFuncs
    /\ pc' = [pc EXCEPT ![r] = "responding"]
    /\ UNCHANGED <<kvars, bufvars, readervars, opIn, opOut>>

\* callbackForOp finds a callback only on ReadFileOp and WriteFileOp.
HasCallback(r) == kind[r] = "rw"

\* Seeded bug: ops with a response are not replied to.
RespondToInitOnly(r) ==
    /\ pc[r] = "responding"
    /\ IF kind[r] # "init" THEN UNCHANGED kvars
                           ELSE KWrite(uniq[Header(r)], TRUE)
    /\ pc' = [pc EXCEPT ![r] = IF HasCallback(r) THEN "callback" ELSE "putIn"]
    /\ UNCHANGED <<bufvars, cancelFuncs, ctx, readervars, opIn, opOut, panicked>>

\* Seeded bug: the InMessage is put back before the callback.
RespondFreesFirst(r) ==
    /\ pc[r] = "responding"
    /\ IF kind[r] \in NoReply THEN UNCHANGED kvars
                              ELSE KWrite(uniq[Header(r)], kind[r] = "init")
    /\ inFree' = AfterPut(inFree, opIn[r])
    /\ pc' = [pc EXCEPT ![r] = IF HasCallback(r) THEN "callback" ELSE "putIn"]
    /\ UNCHANGED <<outFree, content, cancelFuncs, ctx, readervars, opIn, opOut,
                   panicked>>

\* kernelResponse, then write or writev unless the op has no response.  The
\* deferred function runs next, whether the write succeeded or not.
Respond(r) ==
    /\ pc[r] = "responding"
    /\ IF kind[r] \in NoReply THEN UNCHANGED kvars
                              ELSE KWrite(uniq[Header(r)], kind[r] = "init")
    /\ pc' = [pc EXCEPT ![r] = IF HasCallback(r) THEN "callback" ELSE "putIn"]
    /\ UNCHANGED <<bufvars, cancelFuncs, ctx, readervars, opIn, opOut, panicked>>

Callback(r) ==
    /\ pc[r] = "callback"
    /\ pc' = [pc EXCEPT ![r] = "putIn"]
    /\ UNCHANGED <<kvars, bufvars, cancelFuncs, ctx, readervars, opIn, opOut,
                   panicked>>

PutInMessage(r) ==
    /\ pc[r] = "putIn"
    /\ inFree' = AfterPut(inFree, opIn[r])
    /\ opIn' = [opIn EXCEPT ![r] = None]
    /\ pc' = [pc EXCEPT ![r] = "putOut"]
    /\ UNCHANGED <<kvars, outFree, content, cancelFuncs, ctx, readervars, opOut,
                   panicked>>

PutOutMessage(r) ==
    /\ pc[r] = "putOut"
    /\ outFree' = AfterPut(outFree, opOut[r])
    /\ opOut' = [opOut EXCEPT ![r] = None]
    /\ pc' = [pc EXCEPT ![r] = "replied"]
    /\ UNCHANGED <<kvars, inFree, content, cancelFuncs, ctx, readervars, opIn,
                   panicked>>

-----------------------------------------------------------------------------
ReadOp ==
    \/ GetInMessage
    \/ \E r \in Reqs : ReadRequest(r) \/ ReadInterrupt(r)
    \/ ReadFails
    \/ GetOutMessage
    \/ ConvertFails
    \/ HandleInterrupt
    \/ BeginOp

Reply(r) ==
    \/ FinishOp(r)
    \/ Respond(r)
    \/ Callback(r)
    \/ PutInMessage(r)
    \/ PutOutMessage(r)
=============================================================================
