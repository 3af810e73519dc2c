---------------------------- MODULE ServerProofs ----------------------------
(***************************************************************************)
(* The theorems about the server: FileSystemServer keeps its invariants,   *)
(* and implements OpLifecycle, for every number of requests, IDs and       *)
(* messages.                                                               *)
(***************************************************************************)
EXTENDS ServerCancelProofs, ServerRefinement, FiniteSetTheorems

\* InFlight is finite, so that it can be counted.
LEMMA InFlightFinite == InFlightCounts
<1>1. IsFiniteSet(Reqs)
  BY KernelAssumption, FS_Interval DEF Reqs
<1>2. IsFiniteSet(InFlight)
  BY <1>1, FS_Subset DEF InFlight
<1>3. Cardinality(InFlight) \in Nat /\ Cardinality({}) = 0
  BY <1>2, FS_CardinalityType, FS_EmptySet
<1>4. Cardinality(InFlight) = 0 => InFlight = {}
  BY <1>2, FS_EmptySet
<1>5. \A r \in Reqs \ InFlight : Cardinality(InFlight \cup {r}) = Cardinality(InFlight) + 1
  BY <1>2, FS_AddElement
<1>6. \A r \in InFlight : Cardinality(InFlight \ {r}) = Cardinality(InFlight) - 1
  BY <1>2, FS_RemoveElement
<1> QED BY <1>3, <1>4, <1>5, <1>6 DEF InFlightCounts

\* The initial state satisfies the invariant.
LEMMA InvariantInit == Init => IInv
<1> SUFFICES ASSUME Init PROVE IInv
  BY Zenon
<1>1. TypeOK
  BY TypeInit
<1>2. InFlight = {} /\ Cardinality(InFlight) = 0
  BY FS_EmptySet, ZenonT(60) DEF Init, CInit, InFlight
<1>3. BuffersExclusive
  BY DEF Init, CInit, BuffersExclusive, NoDuplicates, OnList, InHeld, OutHeld,
         HoldsIn, HoldsOut
<1>4. ReaderLocals /\ OpMessages /\ MessageRead
  BY ZenonT(40) DEF Init, CInit, ReaderLocals, OpMessages, MessageRead
<1>5. KernelAgrees /\ CallbackOps
  BY ZenonT(40) DEF Init, KInit, CInit, KernelAgrees, CallbackOps
<1>6. CancelMap /\ InterruptTarget /\ NoCancelFuncPanic
  BY ConnectionAssumption, ZenonT(40)
  DEF Init, KInit, CInit, CancelMap, Recorded, InterruptTarget, NoCancelFuncPanic
<1>7. CancelledOnlyIfInterrupted /\ ReplyAnswersItsRequest
  BY ZenonT(40) DEF Init, KInit, CInit, CancelledOnlyIfInterrupted, ReplyAnswersItsRequest,
         Responded
<1>8. WaitGroupCounts
  BY <1>2 DEF Init, CInit, WaitGroupCounts
<1> QED BY <1>1, <1>3, <1>4, <1>5, <1>6, <1>7, <1>8 DEF IInv

\* Steps that change nothing keep the invariant.
LEMMA InvariantStutter ==
    ASSUME IInv, UNCHANGED vars
    PROVE  IInv'
<1>1. UNCHANGED kvars /\ UNCHANGED cvars /\ UNCHANGED svars
  BY ZenonT(40) DEF vars
<1>2. /\ UNCHANGED <<kconn, kind, uniq, ksta, intr, interrupted>>
      /\ UNCHANGED <<inFree, outFree, content, cancelFuncs, ctx, panicked>>
      /\ UNCHANGED <<rpc, rIn, rOut, rOp, pc, opIn, opOut, mount, opsInFlight>>
  BY <1>1 DEF kvars, cvars, svars, bufvars, readervars, opvars
<1>3. TypeOK'
  BY <1>2, ZenonT(60) DEF IInv, TypeOK, KTypeOK, CTypeOK
<1>4. ReaderLocals' /\ OpMessages' /\ MessageRead'
  BY <1>2, ZenonT(60) DEF IInv, ReaderLocals, OpMessages, MessageRead
<1>5. BuffersExclusive'
  <2>1. InHeld' = InHeld /\ OutHeld' = OutHeld
    BY <1>2, ZenonT(40) DEF InHeld, OutHeld
  <2>2. OnList(inFree)' = OnList(inFree) /\ OnList(outFree)' = OnList(outFree)
    BY <1>2, ZenonT(40) DEF OnList
  <2>3. /\ NoDuplicates(inFree)' <=> NoDuplicates(inFree)
        /\ NoDuplicates(outFree)' <=> NoDuplicates(outFree)
    BY <1>2, ZenonT(40) DEF NoDuplicates
  <2>4. /\ \A r \in Reqs : HoldsIn(r)' <=> HoldsIn(r)
        /\ \A r \in Reqs : HoldsOut(r)' <=> HoldsOut(r)
    BY <1>2 DEF HoldsIn, HoldsOut
  <2>5. BuffersExclusive
    BY Zenon DEF IInv
  <2> QED BY <1>2, <2>1, <2>2, <2>3, <2>4, <2>5 DEF BuffersExclusive
<1>6. KernelAgrees' /\ CallbackOps' /\ CancelMap' /\ InterruptTarget'
  <2>1. KernelAgrees /\ CallbackOps /\ CancelMap /\ InterruptTarget
    BY Zenon DEF IInv
  <2>2. \A r \in Reqs : Recorded(r)' <=> Recorded(r)
    BY <1>2, ZenonT(40) DEF Recorded, RecordsCancel
  <2>3. KernelAgrees'
    BY <1>2, <2>1, ZenonT(60) DEF KernelAgrees
  <2>4. CallbackOps'
    BY <1>2, <2>1, ZenonT(40) DEF CallbackOps, HasCallback
  <2>5. CancelMap'
    BY <1>2, <2>1, <2>2, ZenonT(60) DEF CancelMap
  <2>6. InterruptTarget'
    BY <1>2, <2>1, <2>2, ZenonT(60) DEF InterruptTarget
  <2> QED BY <2>3, <2>4, <2>5, <2>6
<1>7. NoCancelFuncPanic' /\ CancelledOnlyIfInterrupted' /\ ReplyAnswersItsRequest'
  BY <1>2, ZenonT(60)
  DEF IInv, NoCancelFuncPanic, CancelledOnlyIfInterrupted, ReplyAnswersItsRequest
<1>8. WaitGroupCounts'
  BY <1>2 DEF IInv, WaitGroupCounts, InFlight
<1> QED BY <1>3, <1>4, <1>5, <1>6, <1>7, <1>8 DEF IInv

\* IInv is an invariant of the server, whatever the number of requests, IDs and
\* messages and whatever the kernel sends.
THEOREM Invariance == Spec => []IInv
<1>1. IInv /\ [Next]_vars => IInv'
  <2> SUFFICES ASSUME IInv, [Next]_vars PROVE IInv'
    BY Zenon
  <2>1. CASE Next
    BY <2>1, InFlightFinite, TypeStep, ReaderLocalsStep, OpMessagesStep, BuffersExclusiveStep, ZenonT(60),
       MessageReadStep, KernelAgreesStep, CallbackOpsStep, CancelMapStep,
       InterruptTargetStep, NoCancelFuncPanicStep, CancelledOnlyIfInterruptedStep,
       ReplyAnswersItsRequestStep, WaitGroupCountsStep
    DEF IInv
  <2>2. CASE UNCHANGED vars
    BY <2>2, InvariantStutter
  <2> QED BY <2>1, <2>2
<1> QED BY InvariantInit, <1>1, PTL DEF Spec

\* The state stays well typed; in particular the WaitGroup's counter, which
\* panics when it goes below zero, never does.
THEOREM TypeCorrect == Spec => []TypeOK
<1>1. IInv => TypeOK
  BY Zenon DEF IInv
<1> QED BY Invariance, <1>1, PTL

\* No InMessage or OutMessage is ever used by two parties, or put on its
\* freelist while it is used or twice.
THEOREM BuffersNeverShared == Spec => []BuffersExclusive
<1>1. IInv => BuffersExclusive
  BY DEF IInv
<1> QED BY Invariance, <1>1, PTL

\* recordCancelFunc and finishOp do not panic.
THEOREM CancelFuncsConsistent == Spec => []NoCancelFuncPanic
<1>1. IInv => NoCancelFuncPanic
  BY DEF IInv
<1> QED BY Invariance, <1>1, PTL

\* handleInterrupt cancels no op but the one the kernel interrupted.
THEOREM InterruptsHitTheirOp == Spec => []CancelledOnlyIfInterrupted
<1>1. IInv => CancelledOnlyIfInterrupted
  BY DEF IInv
<1> QED BY Invariance, <1>1, PTL

\* Reply settles the request its op was made from, and no other.
THEOREM RepliesMatch == Spec => []ReplyAnswersItsRequest
<1>1. IInv => ReplyAnswersItsRequest
  BY ZenonT(40) DEF IInv
<1> QED BY Invariance, <1>1, PTL

\* Nothing of the connection is in use when the file system is destroyed, the
\* device closed and Join released.
THEOREM DestroyedLast == Spec => []QuietWhenDestroyed
<1>1. IInv => QuietWhenDestroyed
  <2> SUFFICES ASSUME IInv, mount \in {"destroyed", "closed", "joined", "failed"}
               PROVE  /\ \A r \in Reqs : pc[r] \in {"none", "done"}
                      /\ \A u \in IDs : cancelFuncs[u] = None
                      /\ rpc = "stopped"
    BY ZenonT(40) DEF QuietWhenDestroyed
  <2>1. rpc = "stopped" /\ InFlight = {}
    BY InFlightFinite DEF IInv, WaitGroupCounts, InFlightCounts
  <2>2. \A r \in Reqs : pc[r] \in {"none", "done"}
    BY <2>1 DEF IInv, TypeOK, CTypeOK, OpStates, InFlight, ReaderLocals
  <2>3. ASSUME NEW u \in IDs, cancelFuncs[u] # None
        PROVE  FALSE
    <3>1. cancelFuncs[u] \in Reqs
      BY <2>3 DEF IInv, TypeOK, CTypeOK
    <3>2. Recorded(cancelFuncs[u])
      BY <3>1 DEF IInv, CancelMap
    <3> QED BY <2>2, <3>1, <3>2 DEF Recorded
  <2> QED BY <2>1, <2>2, <2>3
<1> QED BY Invariance, <1>1, PTL

\* A callback runs after the reply and before the messages are freed.
THEOREM CallbackInTime == Spec => CallbackBetweenReplyAndFree
<1> DEFINE Step(r) ==
      pc[r] = "callback" /\ pc'[r] # "callback" =>
        /\ ksta[r] \in {"answered", "aborted"}
        /\ opIn[r] \in InMsgs \ OnList(inFree)
        /\ opOut[r] \in OutMsgs \ OnList(outFree)
<1>1. IInv => \A r \in Reqs : Step(r)
  <2> SUFFICES ASSUME IInv, NEW r \in Reqs, pc[r] = "callback", pc'[r] # "callback"
               PROVE  /\ ksta[r] \in {"answered", "aborted"}
                      /\ opIn[r] \in InMsgs \ OnList(inFree)
                      /\ opOut[r] \in OutMsgs \ OnList(outFree)
    BY ZenonT(40)
  <2>1. opIn[r] \in InMsgs /\ opOut[r] \in OutMsgs
    BY ZenonT(60) DEF IInv, TypeOK, CTypeOK, OpMessages
  <2>2. opIn[r] \notin OnList(inFree) /\ opOut[r] \notin OnList(outFree)
    BY <2>1, ExclusiveHalves, ConnectionAssumption DEF IInv, Exclusive
  <2>3. kind[r] \notin NoReply
    BY ZenonT(40) DEF IInv, CallbackOps, HasCallback, NoReply
  <2>4. ksta[r] \in {"answered", "aborted"}
    BY <2>3 DEF IInv, ReplyAnswersItsRequest, Responded
  <2> QED BY <2>1, <2>2, <2>4
<1>2. IInv /\ [Next]_vars => [\A r \in Reqs : Step(r)]_vars
  BY <1>1, ZenonT(40)
<1> QED BY Invariance, <1>2, PTL DEF Spec, CallbackBetweenReplyAndFree

\* The invariant the refinement rests on.
THEOREM RefinementInvariance == Spec => []RInv
<1>1. Init => RInv
  <2> SUFFICES ASSUME Init PROVE RInv
    BY Zenon
  <2>1. IInv
    BY InvariantInit, ZenonT(40)
  <2>2. HangupSeen /\ HangupAborts /\ ForgetInHand /\ ContextOfOp
    BY ZenonT(40) DEF Init, KInit, CInit, HangupSeen, HangupAborts, ForgetInHand, ContextOfOp
  <2> QED BY <2>1, <2>2 DEF RInv
<1>2. RInv /\ [Next]_vars /\ IInv' => RInv'
  <2> SUFFICES ASSUME RInv, [Next]_vars, IInv' PROVE RInv'
    BY ZenonT(40)
  <2>1. CASE Next
    BY <2>1, HangupSeenStep, HangupAbortsStep, ForgetInHandStep, ContextOfOpStep DEF RInv
  <2>2. CASE UNCHANGED vars
    <3>1. /\ UNCHANGED <<kconn, ksta, content, ctx, rpc, rIn, pc, mount>>
      BY <2>2 DEF vars, kvars, cvars, svars, bufvars, readervars, opvars
    <3>2. HangupSeen' /\ HangupAborts' /\ ForgetInHand' /\ ContextOfOp'
      BY <3>1, ZenonT(60)
      DEF RInv, HangupSeen, HangupAborts, ForgetInHand, ContextOfOp, InHand
    <3> QED BY <3>2, ZenonT(40) DEF RInv
  <2> QED BY <2>1, <2>2
<1> QED BY <1>1, <1>2, Invariance, PTL DEF Spec

\* The server implements OpLifecycle: whatever the kernel, the reading goroutine
\* and the goroutines of the ops do, every request is served at most once,
\* answered at most once and by its own op, left unanswered only if it has no
\* reply or the kernel has hung up, and cancelled only on the kernel's request;
\* and the file system is destroyed after all of them.
THEOREM Refinement == Spec => LifecycleSpec
<1>1. RInv /\ RInv' /\ [Next]_vars => [Lifecycle!ANext]_(Lifecycle!avars)
  BY NextMaps, InFlightFinite, Zenon DEF AStep
<1> QED BY <1>1, InitMaps, RefinementInvariance, PTL DEF Spec, LifecycleSpec, Lifecycle!ASpec
=============================================================================
