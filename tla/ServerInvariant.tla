-------------------------- MODULE ServerInvariant --------------------------
(***************************************************************************)
(* The inductive invariant of FileSystemServer: what has to hold in every  *)
(* state for its safety properties to follow, for any number of requests,  *)
(* IDs and messages.  ServerProofs proves it inductive.                    *)
(***************************************************************************)
EXTENDS FileSystemServer

\* The kernel reuses the ID of a request without reply before the op is
\* finished only for FUSE_FORGET, the one exception beginOp makes.
ASSUME ReuseAssumption == ReusedAtOnce \subseteq {"forget"}

\* The reader's local variables are set exactly where ReadOp uses them, and an
\* op that was read but not dispatched is the one the reader returned last.
ReaderLocals ==
    /\ rIn # None <=> rpc \in {"reading", "converting", "converted"}
    /\ rOut # None <=> rpc = "converted"
    /\ rOp # None <=> rpc \in {"returned", "sync"}
    /\ rpc = "returned" => pc[rOp] = "read"
    /\ rpc = "sync" => pc[rOp] \notin {"none", "read"}
    /\ \A r \in Reqs : pc[r] = "read" => rpc = "returned" /\ rOp = r

\* An op has its two messages until it puts them back, and its InMessage still
\* holds the request the op was made from.
OpMessages ==
    \A r \in Reqs :
      /\ opIn[r] # None <=> pc[r] \notin {"none", "putOut", "replied", "done"}
      /\ opOut[r] # None <=> pc[r] \notin {"none", "replied", "done"}
      /\ opIn[r] # None => content[opIn[r]] = [req |-> r, intr |-> FALSE]

\* What the reader's message can be once it is read: a delivered request no op
\* was made from, or an interrupt of a request the kernel interrupted.
MessageRead ==
    rpc \in {"converting", "converted"} =>
      LET m == content[rIn]
      IN  /\ m.req \in Reqs
          /\ m.intr => m.req \in interrupted
          /\ ~m.intr => /\ pc[m.req] = "none"
                        /\ ksta[m.req] \in {"sent", "over", "aborted"}

\* Kernel and ops agree on how far a request has come.
KernelAgrees ==
    /\ \A r \in Reqs :
         /\ pc[r] # "none" => ksta[r] \in {"sent", "over", "answered", "aborted"}
         /\ ksta[r] = "over" => kind[r] \in ReusedAtOnce
         /\ r \in intr => r \in interrupted /\ ksta[r] = "sent"
         /\ r \in interrupted => ksta[r] \in {"sent", "answered", "aborted"}
    /\ \A r, q \in Reqs :
         /\ r # q
         /\ ksta[r] \in {"pending", "sent", "aborted"}
         /\ ksta[q] \in {"pending", "sent", "aborted"}
         => uniq[r] # uniq[q]

\* Only ops with a Callback get to run one.
CallbackOps == \A r \in Reqs : pc[r] = "callback" => HasCallback(r)

\* An op that has an entry in c.cancelFuncs.
Recorded(r) ==
    pc[r] \in {"read", "handling", "finishing"} /\ RecordsCancel(kind[r])

\* c.cancelFuncs is exactly the recorded ops, by ID.
CancelMap ==
    /\ \A r \in Reqs : Recorded(r) => cancelFuncs[uniq[r]] = r
    /\ \A u \in IDs, r \in Reqs : cancelFuncs[u] = r => Recorded(r) /\ uniq[r] = u

\* While the reader has an interrupt in its hands, no other op can come to
\* carry the ID it names.
InterruptTarget ==
    rpc \in {"converting", "converted"} /\ content[rIn].intr =>
      \A q \in Reqs :
        Recorded(q) /\ uniq[q] = uniq[content[rIn].req] => q = content[rIn].req

\* Ops whose goroutine has not called opsInFlight.Done.
InFlight ==
    {r \in Reqs : pc[r] \in {"handling", "finishing", "responding", "callback",
                             "putIn", "putOut", "replied"}}

\* The WaitGroup counts the ops in flight once the mount is up; before that the
\* only op is the one Init waits for.
WaitGroupCounts ==
    /\ mount = "handshake" =>
         opsInFlight = 0 /\ \A r \in Reqs : pc[r] # "none" => r = rOp
    /\ mount = "failed" =>
         opsInFlight = 0 /\ \A r \in Reqs : pc[r] \in {"none", "done"}
    /\ mount # "handshake" => opsInFlight = Cardinality(InFlight)
    /\ mount \in {"draining", "destroyed", "closed", "joined", "failed"} =>
         rpc = "stopped"
    /\ mount \in {"destroyed", "closed", "joined"} => opsInFlight = 0

\* The inductive invariant.
IInv ==
    /\ TypeOK
    /\ ReaderLocals
    /\ OpMessages
    /\ BuffersExclusive
    /\ MessageRead
    /\ KernelAgrees
    /\ CallbackOps
    /\ CancelMap
    /\ InterruptTarget
    /\ NoCancelFuncPanic
    /\ CancelledOnlyIfInterrupted
    /\ ReplyAnswersItsRequest
    /\ WaitGroupCounts

-----------------------------------------------------------------------------
(* What FileSystemServer needs besides to implement OpLifecycle *)

\* Serving ends, and ReadOp returns io.EOF, only after the kernel has hung up.
HangupSeen ==
    rpc = "eof" \/ mount \in {"draining", "destroyed", "closed", "joined", "failed"} =>
      kconn = "down"

\* Requests are aborted when the kernel hangs up, and then all of them.
HangupAborts ==
    \A r \in Reqs :
      /\ ksta[r] \in {"pending", "sent"} => kconn # "down"
      /\ ksta[r] = "aborted" => kconn = "down"

\* A request that the kernel has done with before there is an op for it is in
\* the reader's hands.
ForgetInHand ==
    \A r \in Reqs : ksta[r] = "over" /\ pc[r] = "none" => InHand(r)

\* A context is cancelled only once there is an op it was made for.
ContextOfOp == \A r \in Reqs : pc[r] = "none" => ctx[r] # "cancelled"

RInv == IInv /\ HangupSeen /\ HangupAborts /\ ForgetInHand /\ ContextOfOp
=============================================================================
