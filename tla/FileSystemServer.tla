-------------------------- MODULE FileSystemServer --------------------------
(***************************************************************************)
(* fuseutil.NewFileSystemServer serving a Connection under fuse.Mount: the *)
(* handshake in newConnection, the ServeOps loop with a goroutine per op,  *)
(* and the shutdown that lets MountedFileSystem.Join return.               *)
(***************************************************************************)
EXTENDS Connection

VARIABLES
    mount,         \* how far Mount and the goroutine it starts have come
    opsInFlight    \* s.opsInFlight, the WaitGroup's counter

svars == <<mount, opsInFlight>>
vars == <<kvars, cvars, svars>>

\* "handshake": in newConnection; "serving": in the ServeOps loop; "draining":
\* in opsInFlight.Wait; "destroyed": fs.Destroy was called; "closed": c.close
\* was called; "joined": joinStatusAvailable is closed; "failed": Mount returned
\* newConnection's error.
MountStates ==
    {"handshake", "serving", "draining", "destroyed", "closed", "joined", "failed"}

\* Type correctness of the whole state.
TypeOK ==
    /\ KTypeOK
    /\ CTypeOK
    /\ mount \in MountStates
    /\ opsInFlight \in Nat

Init ==
    /\ KInit
    /\ CInit
    /\ mount = "handshake"
    /\ opsInFlight = 0

-----------------------------------------------------------------------------
(* newConnection *)

\* Seeded bug: c.Init returns its error without replying to the op.
InitOpReadGivesUp ==
    /\ mount = "handshake" /\ rpc = "returned"
    /\ mount' = IF kind[rOp] = "init" THEN mount ELSE "failed"
    /\ rpc' = IF kind[rOp] = "init" THEN "sync" ELSE "stopped"
    /\ pc' = [pc EXCEPT ![rOp] = IF kind[rOp] = "init" THEN "handling" ELSE @]
    /\ UNCHANGED <<kvars, bufvars, cancelFuncs, ctx, rIn, rOut, rOp, opIn, opOut,
                   panicked, opsInFlight>>

\* c.Init gets an op from ReadOp and goes on in the same goroutine.
InitOpRead ==
    /\ mount = "handshake" /\ rpc = "returned"
    /\ pc' = [pc EXCEPT ![rOp] = "handling"]
    /\ rpc' = "sync"
    /\ UNCHANGED <<kvars, bufvars, cancelFuncs, ctx, rIn, rOut, rOp, opIn, opOut,
                   panicked, svars>>

\* c.Init fails if the op was not an initOp, the version too old or the reply
\* not written; newConnection then closes the device, which ends the kernel's
\* connection.  Otherwise Mount starts the serving goroutine.
InitReturns ==
    /\ mount = "handshake" /\ rpc = "sync"
    /\ pc[rOp] = "replied"
    /\ pc' = [pc EXCEPT ![rOp] = "done"]
    /\ rOp' = None
    /\ \/ /\ kind[rOp] = "init" /\ ksta[rOp] = "answered"
          /\ mount' = "serving"
          /\ rpc' = "idle"
          /\ UNCHANGED kvars
       \/ /\ ~(kind[rOp] = "init" /\ ksta[rOp] = "answered")
          /\ mount' = "failed"
          /\ rpc' = "stopped"
          /\ KHangup
    /\ UNCHANGED <<bufvars, cancelFuncs, ctx, rIn, rOut, opIn, opOut, panicked,
                   opsInFlight>>

\* c.Init fails because ReadOp did.
InitReadFails ==
    /\ mount = "handshake" /\ rpc \in {"eof", "error"}
    /\ mount' = "failed"
    /\ rpc' = "stopped"
    /\ KHangup
    /\ UNCHANGED <<bufvars, cancelFuncs, ctx, rIn, rOut, rOp, opvars, panicked,
                   opsInFlight>>

-----------------------------------------------------------------------------
(* ServeOps *)

\* Seeded bug: every op is handled in the reading goroutine.
SynchronousAlways(k) == TRUE

\* Ops that ServeOps handles in its own goroutine.
Synchronous(k) == k = "forget"

\* Seeded bug: the op is not added to opsInFlight.
DispatchWithoutAdd ==
    /\ mount = "serving" /\ rpc = "returned"
    /\ pc' = [pc EXCEPT ![rOp] = "handling"]
    /\ IF Synchronous(kind[rOp]) THEN rpc' = "sync" /\ UNCHANGED rOp
                                 ELSE rpc' = "idle" /\ rOp' = None
    /\ UNCHANGED <<kvars, bufvars, cancelFuncs, ctx, rIn, rOut, opIn, opOut,
                   panicked, svars>>

Dispatch ==
    /\ mount = "serving" /\ rpc = "returned"
    /\ opsInFlight' = opsInFlight + 1
    /\ pc' = [pc EXCEPT ![rOp] = "handling"]
    /\ IF Synchronous(kind[rOp]) THEN rpc' = "sync" /\ UNCHANGED rOp
                                 ELSE rpc' = "idle" /\ rOp' = None
    /\ UNCHANGED <<kvars, bufvars, cancelFuncs, ctx, rIn, rOut, opIn, opOut,
                   panicked, mount>>

SyncReturns ==
    /\ mount = "serving" /\ rpc = "sync"
    /\ pc[rOp] = "done"
    /\ rpc' = "idle"
    /\ rOp' = None
    /\ UNCHANGED <<kvars, bufvars, cancelFuncs, ctx, rIn, rOut, opvars, panicked,
                   svars>>

\* io.EOF ends the loop; the deferred function starts waiting.
LoopEnds ==
    /\ mount = "serving" /\ rpc = "eof"
    /\ mount' = "draining"
    /\ rpc' = "stopped"
    /\ UNCHANGED <<kvars, bufvars, cancelFuncs, ctx, rIn, rOut, rOp, opvars,
                   panicked, opsInFlight>>

\* Any other error is a panic.
ServePanics ==
    /\ mount = "serving" /\ rpc = "error"
    /\ panicked' = "ServeOps"
    /\ UNCHANGED <<kvars, bufvars, cancelFuncs, ctx, readervars, opvars, svars>>

\* Seeded bug: the file system is destroyed without waiting.
DestroyAtOnce ==
    /\ mount = "draining"
    /\ mount' = "destroyed"
    /\ UNCHANGED <<kvars, cvars, opsInFlight>>

\* opsInFlight.Wait returns, and the file system is destroyed.
Destroy ==
    /\ mount = "draining"
    /\ opsInFlight = 0
    /\ mount' = "destroyed"
    /\ UNCHANGED <<kvars, cvars, opsInFlight>>

\* The goroutine started by Mount closes the device after ServeOps returns.
Close ==
    /\ mount = "destroyed"
    /\ mount' = "closed"
    /\ KHangup
    /\ UNCHANGED <<cvars, opsInFlight>>

JoinAvailable ==
    /\ mount = "closed"
    /\ mount' = "joined"
    /\ UNCHANGED <<kvars, cvars, opsInFlight>>

-----------------------------------------------------------------------------
(* handleOp *)

\* The file system method for r returns (during the handshake, c.Init has
\* decided on its reply).
Handle(r) ==
    /\ pc[r] = "handling"
    /\ kind[r] = "wait" => ctx[r] = "cancelled" \/ mount = "handshake"
    /\ pc' = [pc EXCEPT ![r] = "finishing"]
    /\ UNCHANGED <<kvars, bufvars, cancelFuncs, ctx, readervars, opIn, opOut,
                   panicked, svars>>

\* Seeded bug: no opsInFlight.Done.
DoneForgotten(r) ==
    /\ pc[r] = "replied"
    /\ mount # "handshake"
    /\ pc' = [pc EXCEPT ![r] = "done"]
    /\ UNCHANGED <<kvars, bufvars, cancelFuncs, ctx, readervars, opIn, opOut,
                   panicked, svars>>

\* Deferred opsInFlight.Done.
Done(r) ==
    /\ pc[r] = "replied"
    /\ mount # "handshake"
    /\ pc' = [pc EXCEPT ![r] = "done"]
    /\ opsInFlight' = opsInFlight - 1
    /\ UNCHANGED <<kvars, bufvars, cancelFuncs, ctx, readervars, opIn, opOut,
                   panicked, mount>>

-----------------------------------------------------------------------------
Kernel ==
    /\ \/ \E r \in Reqs, k \in AllKinds, u \in IDs : Issue(r, k, u)
       \/ \E r \in Reqs : Interrupt(r)
       \/ Unmount
    /\ UNCHANGED <<cvars, svars>>

Reader ==
    \/ ReadOp /\ UNCHANGED svars
    \/ InitOpRead
    \/ InitReturns
    \/ InitReadFails
    \/ Dispatch
    \/ SyncReturns
    \/ LoopEnds
    \/ ServePanics
    \/ Destroy
    \/ Close
    \/ JoinAvailable

Op(r) ==
    \/ Handle(r)
    \/ Reply(r) /\ UNCHANGED svars
    \/ Done(r)

\* Mount failed, Join can return, or the process has panicked.
Stopped ==
    /\ mount \in {"joined", "failed"} \/ panicked # "no"
    /\ UNCHANGED vars

Next ==
    \/ panicked = "no" /\ (Kernel \/ Reader \/ \E r \in Reqs : Op(r))
    \/ Stopped

Spec == Init /\ [][Next]_vars

\* Goroutines that can run are run, and file system methods return (those that
\* wait for a cancellation: after it).  Nothing is assumed of the kernel.
Fairness ==
    /\ WF_vars(panicked = "no" /\ Reader)
    /\ \A r \in Reqs : WF_vars(panicked = "no" /\ Op(r))

FairSpec == Spec /\ Fairness

-----------------------------------------------------------------------------
(* Safety *)

\* Op r still uses its messages.
HoldsIn(r) == opIn[r] # None
HoldsOut(r) == opOut[r] # None

\* Message buffers are never shared (freelists.go, connection.go): a buffer is
\* on its freelist at most once, and a buffer that the reader or an op still
\* uses is used by nobody else and is not on the freelist.
BuffersExclusive ==
    /\ NoDuplicates(inFree)
    /\ NoDuplicates(outFree)
    /\ OnList(inFree) \cap InHeld = {}
    /\ OnList(outFree) \cap OutHeld = {}
    /\ \A r \in Reqs : /\ HoldsIn(r) => opIn[r] # rIn
                       /\ HoldsOut(r) => opOut[r] # rOut
    /\ \A r, q \in Reqs : r # q =>
          /\ HoldsIn(r) => opIn[r] # opIn[q]
          /\ HoldsOut(r) => opOut[r] # opOut[q]

\* The panics in recordCancelFunc and finishOp are never reached, although the
\* kernel reuses the IDs of answered requests and of forgets at once.
NoCancelFuncPanic == panicked \notin {"recordCancelFunc", "finishOp"}

\* handleInterrupt never cancels the wrong op: a context is cancelled before
\* its op is finished only if the kernel interrupted that very request, even
\* when the interrupt was read before and is handled after its ID was freed.
CancelledOnlyIfInterrupted ==
    \A r \in Reqs : ctx[r] = "cancelled" => r \in interrupted

Responded == {"callback", "putIn", "putOut", "replied", "done"}

\* Reply answers its own request: once the goroutine of r has written its reply
\* the kernel no longer waits for r, and the kernel never takes a reply for r
\* before that.  A request without a reply is never answered.
ReplyAnswersItsRequest ==
    \A r \in Reqs :
      /\ pc[r] \in Responded /\ kind[r] \notin NoReply
            => ksta[r] \in {"answered", "aborted"}
      /\ ksta[r] = "answered" => pc[r] \in Responded /\ kind[r] \notin NoReply

\* The Callback of ReadFileOp and WriteFileOp runs once, after the kernel has
\* the response (or the connection has gone), while the op still owns both
\* messages (fuseops/ops.go, ReadFileOp.Callback).
CallbackBetweenReplyAndFree ==
    [][\A r \in Reqs :
         pc[r] = "callback" /\ pc'[r] # "callback" =>
           /\ ksta[r] \in {"answered", "aborted"}
           /\ opIn[r] \in InMsgs \ OnList(inFree)
           /\ opOut[r] \in OutMsgs \ OnList(outFree)]_vars

\* fs.Destroy, and after it the close of the device and Join, come only when
\* every op read from the connection has been replied to and no file system
\* method is running or will run (FileSystem.Destroy, Connection.close and
\* MountedFileSystem.Join say so).
QuietWhenDestroyed ==
    mount \in {"destroyed", "closed", "joined", "failed"} =>
      /\ \A r \in Reqs : pc[r] \in {"none", "done"}
      /\ \A u \in IDs : cancelFuncs[u] = None
      /\ rpc = "stopped"

-----------------------------------------------------------------------------
(* Refinement of OpLifecycle *)

\* The reader has the request r in its InMessage.
InHand(r) ==
    rpc \in {"converting", "converted"} /\ content[rIn] = [req |-> r, intr |-> FALSE]

\* What OpLifecycle makes of a request the kernel thinks k of, whose op is at p.
Abstract(k, p, inHand) ==
    CASE k = "unissued" -> "none"
      [] k # "unissued" /\ p = "none" ->
           IF k = "aborted" /\ ~inHand THEN "dropped" ELSE "queued"
      [] p \in {"read", "handling", "finishing", "responding"} -> "serving"
      [] p \in Responded -> IF k = "answered" THEN "answered" ELSE "unanswered"

AbstractState(r) == Abstract(ksta[r], pc[r], InHand(r))

Lifecycle == INSTANCE OpLifecycle WITH
    Requests <- Reqs,
    st <- [r \in Reqs |-> AbstractState(r)],
    wants <- [r \in Reqs |-> kind[r] \notin NoReply],
    asked <- interrupted,
    cancelled <- {r \in Reqs : ctx[r] = "cancelled"},
    open <- kconn # "down",
    destroyed <- mount \in {"destroyed", "closed", "joined"}

\* The server, with its freelists, cancel functions and goroutines, keeps the
\* promises of OpLifecycle.
LifecycleSpec == Lifecycle!ASpec

-----------------------------------------------------------------------------
(* Liveness, of FairSpec *)

\* Once the kernel has hung up, Join becomes able to return (or Mount fails):
\* the reader sees ENODEV, in-flight ops drain, Destroy and close follow.
HangupLeadsToJoin == kconn = "down" ~> mount \in {"joined", "failed"}

\* Every request that has a reply gets one or is aborted by the kernel, though
\* the loop also handles forgets synchronously and interrupts inline, and other
\* ops wait to be cancelled.
RequestsAnswered ==
    \A r \in Reqs :
      Outstanding(r) /\ kind[r] # "wait" ~> ksta[r] \in {"answered", "aborted"}

\* An interrupt gets through: the op of an interrupted request finishes even if
\* its method returns only when its context is cancelled.
InterruptReleasesOp == \A r \in Reqs : r \in interrupted ~> pc[r] = "done"
=============================================================================
