------------------------- MODULE ServerCancelProofs -------------------------
(***************************************************************************)
(* What the steps of FileSystemServer keep: the map of cancel functions is *)
(* exact although IDs are reused, and every variable has its type.         *)
(***************************************************************************)
EXTENDS ServerStepProofs

-----------------------------------------------------------------------------
(* The map *)

\* A recorded op's request is not yet answered, so its ID is nobody else's.
LEMMA RecordedLive ==
    ASSUME IInv, NEW r \in Reqs, Recorded(r)
    PROVE  ksta[r] \in {"sent", "aborted"}
  BY ReuseAssumption, ZenonT(60)
  DEF IInv, KernelAgrees, ReplyAnswersItsRequest, Recorded, RecordsCancel, Responded

\* recordCancelFunc never finds the ID in the map.
LEMMA BeginOpFree ==
    ASSUME IInv, BeginOp, RecordsCancel(kind[content[rIn].req])
    PROVE  cancelFuncs[uniq[content[rIn].req]] = None
<1> DEFINE r == content[rIn].req
<1>1. r \in Reqs /\ pc[r] = "none" /\ ksta[r] \in {"sent", "over", "aborted"}
  BY Zenon DEF IInv, MessageRead, BeginOp
<1>2. ksta[r] \in {"sent", "aborted"} /\ uniq[r] \in IDs
  BY <1>1, ReuseAssumption, ZenonT(60)
  DEF IInv, KernelAgrees, RecordsCancel, TypeOK, KTypeOK
<1> HIDE DEF r
<1>3. ASSUME cancelFuncs[uniq[r]] # None
      PROVE  FALSE
  <2> DEFINE q == cancelFuncs[uniq[r]]
  <2>1. q \in Reqs /\ Recorded(q) /\ uniq[q] = uniq[r]
    <3>1. CancelMap /\ cancelFuncs \in [IDs -> Reqs \cup {None}]
      BY Zenon DEF IInv, TypeOK, CTypeOK
    <3> QED
      BY <1>2, <1>3, <3>1, Zenon DEF CancelMap
  <2> HIDE DEF q
  <2>2. ksta[q] \in {"sent", "aborted"}
    BY <2>1, RecordedLive, Zenon
  <2>3. q = r
    BY <1>1, <1>2, <2>1, <2>2, Zenon DEF IInv, KernelAgrees
  <2> QED BY <1>1, <2>1, <2>3, Zenon DEF Recorded
<1> QED BY <1>3, Zenon DEF r

\* finishOp finds its own op in the map.
LEMMA FinishOpFinds ==
    ASSUME IInv, NEW r \in Reqs, FinishOp(r)
    PROVE  /\ Header(r) = r
           /\ RecordsCancel(kind[r]) => cancelFuncs[uniq[r]] = r
<1>1. Header(r) = r
  BY HeaderOwn, Zenon DEF IInv, FinishOp
<1>2. RecordsCancel(kind[r]) => cancelFuncs[uniq[r]] = r
  BY Zenon DEF IInv, CancelMap, Recorded, FinishOp
<1> QED BY <1>1, <1>2, Zenon

\* recordCancelFunc and finishOp keep the map exact.
LEMMA CancelMapStep ==
    ASSUME IInv, Next
    PROVE  CancelMap'
<1>a. TypeOK /\ ReaderLocals /\ MessageRead /\ KernelAgrees /\ CancelMap
  BY Zenon DEF IInv
<1>b. /\ pc \in [Reqs -> OpStates] /\ rOp \in Reqs \cup {None}
      /\ kind \in [Reqs -> AllKinds] /\ uniq \in [Reqs -> IDs]
      /\ cancelFuncs \in [IDs -> Reqs \cup {None}]
  BY <1>a, Zenon DEF TypeOK, KTypeOK, CTypeOK
<1>c. None \notin Reqs
  BY ConnectionAssumption, Zenon
<1> DEFINE Busy == {"read", "handling", "finishing"}
<1>1. ASSUME UNCHANGED <<cancelFuncs, kind, uniq>>,
             \A q \in Reqs : pc'[q] \in Busy <=> pc[q] \in Busy
      PROVE  CancelMap'
  BY <1>1, <1>a, <1>b DEF CancelMap, Recorded, RecordsCancel
<1>2. CASE Kernel
  <2>1. UNCHANGED <<pc, cancelFuncs>>
    BY <1>2, Zenon DEF Kernel, cvars, opvars
  <2>2. ASSUME NEW r \in Reqs, NEW k \in AllKinds, NEW u \in IDs, Issue(r, k, u)
        PROVE  CancelMap'
    <3>1. pc[r] = "none"
      BY <2>2, <1>a, Zenon DEF Issue, KernelAgrees
    <3>2. kind' = [kind EXCEPT ![r] = k] /\ uniq' = [uniq EXCEPT ![r] = u]
      BY <2>2, Zenon DEF Issue
    <3> QED BY <1>a, <1>b, <2>1, <3>1, <3>2 DEF CancelMap, Recorded, RecordsCancel
  <2>3. CASE Unmount \/ \E r \in Reqs : Interrupt(r)
    BY <1>1, <2>1, <2>3, Zenon DEF Unmount, KHangup, Interrupt
  <2> QED BY <1>2, <2>2, <2>3, Zenon DEF Kernel
<1>3. ASSUME NEW r \in Reqs, ReadRequest(r) \/ ReadInterrupt(r)
      PROVE  CancelMap'
  BY <1>3, <1>1, Zenon
  DEF ReadRequest, ReadInterrupt, KDeliver, KDeliverInterrupt, ReadInto, opvars
<1>4. CASE GetInMessage \/ ReadFails \/ GetOutMessage \/ ConvertFails \/ HandleInterrupt
  BY <1>4, <1>1, Zenon
  DEF GetInMessage, ReadFails, GetOutMessage, ConvertFails, HandleInterrupt, kvars,
      opvars
<1>5. CASE BeginOp
  <2> DEFINE r == content[rIn].req
  <2>1. r \in Reqs /\ pc[r] = "none"
    BY <1>5, <1>a, Zenon DEF BeginOp, MessageRead
  <2>2. /\ UNCHANGED <<kind, uniq>> /\ pc' = [pc EXCEPT ![r] = "read"]
        /\ cancelFuncs' = IF RecordsCancel(kind[r])
                         THEN [cancelFuncs EXCEPT ![uniq[r]] = r] ELSE cancelFuncs
    BY <1>5, Zenon DEF BeginOp, kvars
  <2>3. RecordsCancel(kind[r]) => cancelFuncs[uniq[r]] = None
    BY <1>5, BeginOpFree, Zenon
  <2> HIDE DEF r
  <2>4. CASE RecordsCancel(kind[r])
    <3>1. \A q \in Reqs : Recorded(q) => uniq[q] # uniq[r]
      BY <1>a, <1>c, <2>3, <2>4 DEF CancelMap
    <3>2. \A q \in Reqs : Recorded(q)' <=> Recorded(q) \/ q = r
      BY <1>b, <2>1, <2>2, <2>4, Zenon DEF Recorded, RecordsCancel
    <3>3. cancelFuncs' = [cancelFuncs EXCEPT ![uniq[r]] = r]
      BY <2>2, <2>4, Zenon
    <3>4. \A q \in Reqs : Recorded(q)' => cancelFuncs'[uniq'[q]] = q
      BY <1>a, <1>b, <2>1, <2>2, <3>1, <3>2, <3>3 DEF CancelMap
    <3>5. \A u \in IDs, q \in Reqs : cancelFuncs'[u] = q => Recorded(q)' /\ uniq'[q] = u
      BY <1>a, <1>b, <2>1, <2>2, <3>2, <3>3 DEF CancelMap
    <3> QED BY <3>4, <3>5, Zenon DEF CancelMap
  <2>5. CASE ~RecordsCancel(kind[r])
    <3>1. \A q \in Reqs : Recorded(q)' <=> Recorded(q)
      BY <1>b, <2>1, <2>2, <2>5, Zenon DEF Recorded, RecordsCancel
    <3> QED BY <1>a, <1>b, <2>2, <2>5, <3>1, Zenon DEF CancelMap
  <2> QED BY <2>4, <2>5, Zenon
<1>6. CASE InitOpRead \/ Dispatch \/ InitReturns
  <2>1. \A q \in Reqs : pc'[q] \in Busy <=> pc[q] \in Busy
    BY <1>6, <1>a, <1>b, Zenon DEF InitOpRead, Dispatch, InitReturns, ReaderLocals
  <2> QED BY <1>6, <1>1, <2>1, Zenon DEF InitOpRead, Dispatch, InitReturns, kvars, KHangup
<1>7. CASE \/ InitReadFails \/ SyncReturns \/ LoopEnds \/ ServePanics \/ Destroy
           \/ Close \/ JoinAvailable \/ Stopped
  <2>1. UNCHANGED <<pc, cancelFuncs, kind, uniq>>
    BY <1>7, Zenon
    DEF InitReadFails, SyncReturns, LoopEnds, ServePanics, Destroy, Close,
        JoinAvailable, Stopped, vars, cvars, kvars, opvars, KHangup
  <2> QED BY <1>1, <2>1, Zenon
<1>8. ASSUME NEW r \in Reqs, FinishOp(r)
      PROVE  CancelMap'
  <2>1. /\ UNCHANGED <<kind, uniq>> /\ pc[r] = "finishing"
        /\ pc' = [pc EXCEPT ![r] = "responding"]
        /\ cancelFuncs' = IF RecordsCancel(kind[r])
                         THEN [cancelFuncs EXCEPT ![uniq[r]] = None] ELSE cancelFuncs
    BY <1>8, FinishOpFinds, ZenonT(60) DEF FinishOp, kvars
  <2>2. RecordsCancel(kind[r]) => cancelFuncs[uniq[r]] = r
    BY <1>8, FinishOpFinds, Zenon
  <2>3. \A q \in Reqs : Recorded(q)' <=> Recorded(q) /\ q # r
    BY <1>b, <2>1, Zenon DEF Recorded, RecordsCancel
  <2>4. \A q \in Reqs : Recorded(q)' => cancelFuncs'[uniq'[q]] = q
    BY <1>a, <1>b, <2>1, <2>2, <2>3 DEF CancelMap
  <2>5. \A u \in IDs, q \in Reqs : cancelFuncs'[u] = q => Recorded(q)' /\ uniq'[q] = u
    <3>1. CASE RecordsCancel(kind[r])
      BY <1>a, <1>b, <1>c, <2>1, <2>2, <2>3, <3>1 DEF CancelMap
    <3>2. CASE ~RecordsCancel(kind[r])
      BY <1>a, <1>b, <2>1, <2>3, <3>2 DEF CancelMap, Recorded
    <3> QED BY <3>1, <3>2, Zenon
  <2> QED BY <2>4, <2>5, Zenon DEF CancelMap
<1>9. ASSUME NEW r \in Reqs, Op(r), ~FinishOp(r)
      PROVE  CancelMap'
  <2>1. UNCHANGED <<kind, uniq>>
    BY <1>9, RespondEffect, OpKernelUnchanged, Zenon DEF kvars
  <2>2. /\ UNCHANGED cancelFuncs
        /\ \A q \in Reqs : pc'[q] \in Busy <=> pc[q] \in Busy
    BY <1>9, <1>b, ZenonT(40)
    DEF Op, Handle, Reply, Respond, Callback, PutInMessage, PutOutMessage, Done
  <2> QED BY <1>1, <2>1, <2>2, Zenon
<1> QED
  BY <1>2, <1>3, <1>4, <1>5, <1>6, <1>7, <1>8, <1>9, Zenon DEF Next, Reader, ReadOp

\* Neither panic about the map is reached.
LEMMA NoCancelFuncPanicStep ==
    ASSUME IInv, Next
    PROVE  NoCancelFuncPanic'
<1>a. NoCancelFuncPanic /\ OpMessages
  BY Zenon DEF IInv
<1>1. CASE BeginOp
  BY <1>1, <1>a, BeginOpFree, Zenon DEF BeginOp, NoCancelFuncPanic
<1>2. ASSUME NEW r \in Reqs, FinishOp(r)
      PROVE  NoCancelFuncPanic'
  BY <1>2, <1>a, FinishOpFinds, ConnectionAssumption, ZenonT(60)
  DEF FinishOp, NoCancelFuncPanic
<1>3. CASE ServePanics
  BY <1>3, Zenon DEF ServePanics, NoCancelFuncPanic
<1>4. ASSUME UNCHANGED panicked
      PROVE  NoCancelFuncPanic'
  BY <1>4, <1>a, Zenon DEF NoCancelFuncPanic
<1>5. CASE Kernel \/ Destroy \/ Close \/ JoinAvailable \/ Stopped
  BY <1>5, <1>4, Zenon DEF Kernel, Destroy, Close, JoinAvailable, Stopped, vars, cvars
<1>6. CASE ReadOp /\ ~BeginOp
  BY <1>6, <1>4, Zenon
  DEF ReadOp, GetInMessage, ReadRequest, ReadInterrupt, ReadInto, ReadFails,
      GetOutMessage, ConvertFails, HandleInterrupt
<1>7. CASE \/ InitOpRead \/ InitReturns \/ InitReadFails \/ Dispatch \/ SyncReturns
           \/ LoopEnds
  BY <1>7, <1>4, Zenon
  DEF InitOpRead, InitReturns, InitReadFails, Dispatch, SyncReturns, LoopEnds
<1>8. ASSUME NEW r \in Reqs, Op(r), ~FinishOp(r)
      PROVE  NoCancelFuncPanic'
  BY <1>8, <1>4, Zenon
  DEF Op, Handle, Reply, Respond, Callback, PutInMessage, PutOutMessage, Done
<1> QED
  BY <1>1, <1>2, <1>3, <1>5, <1>6, <1>7, <1>8, Zenon DEF Next, Reader

-----------------------------------------------------------------------------
(* Interrupts *)

\* The op an interrupt names does not change while the reader converts it: the
\* reader itself is the only one to begin ops.
LEMMA InterruptTargetStep ==
    ASSUME IInv, Next
    PROVE  InterruptTarget'
<1>a. /\ TypeOK /\ ReaderLocals /\ MessageRead /\ KernelAgrees /\ CancelMap
      /\ InterruptTarget
  BY Zenon DEF IInv
<1>b. /\ pc \in [Reqs -> OpStates] /\ rOp \in Reqs \cup {None}
      /\ kind \in [Reqs -> AllKinds] /\ uniq \in [Reqs -> IDs]
      /\ content \in [InMsgs -> [req : Reqs \cup {None}, intr : BOOLEAN]]
      /\ rIn \in InMsgs \cup {None}
  BY <1>a, Zenon DEF TypeOK, KTypeOK, CTypeOK
<1>1. ASSUME rpc' \notin {"converting", "converted"}
      PROVE  InterruptTarget'
  BY <1>1, Zenon DEF InterruptTarget
<1>2. ASSUME UNCHANGED <<rIn, content, kind, uniq>>,
             rpc' \in {"converting", "converted"} => rpc \in {"converting", "converted"},
             \A q \in Reqs : Recorded(q)' => Recorded(q)
      PROVE  InterruptTarget'
  BY <1>2, <1>a, Zenon DEF InterruptTarget
<1>3. CASE Kernel
  <2>1. UNCHANGED <<rpc, rIn, content, pc>>
    BY <1>3, Zenon DEF Kernel, cvars, bufvars, readervars, opvars
  <2>2. ASSUME NEW r \in Reqs, NEW k \in AllKinds, NEW u \in IDs, Issue(r, k, u)
        PROVE  InterruptTarget'
    <3>1. pc[r] = "none" /\ r \notin interrupted
      BY <2>2, <1>a, Zenon DEF Issue, KernelAgrees
    <3>2. kind' = [kind EXCEPT ![r] = k] /\ uniq' = [uniq EXCEPT ![r] = u]
      BY <2>2, Zenon DEF Issue
    <3>3. \A q \in Reqs : Recorded(q)' => Recorded(q) /\ q # r
      BY <1>b, <2>1, <3>1, <3>2, Zenon DEF Recorded, RecordsCancel
    <3>4. rpc \in {"converting", "converted"} /\ content[rIn].intr =>
            content[rIn].req \in Reqs \ {r}
      BY <1>a, <3>1, Zenon DEF MessageRead
    <3>5. \A q \in Reqs \ {r} : uniq'[q] = uniq[q]
      BY <1>b, <3>2, Zenon
    <3> QED BY <1>a, <2>1, <3>3, <3>4, <3>5, Zenon DEF InterruptTarget
  <2>3. CASE Unmount \/ \E r \in Reqs : Interrupt(r)
    BY <1>2, <2>1, <2>3, Zenon DEF Unmount, KHangup, Interrupt, Recorded, RecordsCancel
  <2> QED BY <1>3, <2>2, <2>3, Zenon DEF Kernel
<1>4. ASSUME NEW r \in Reqs, ReadRequest(r)
      PROVE  InterruptTarget'
  <2>1. content'[rIn'] = [req |-> r, intr |-> FALSE]
    BY <1>4, <1>a, <1>b, Zenon DEF ReadRequest, ReadInto, ReaderLocals
  <2> QED BY <2>1 DEF InterruptTarget
<1>5. ASSUME NEW r \in Reqs, ReadInterrupt(r)
      PROVE  InterruptTarget'
  <2>1. content'[rIn'] = [req |-> r, intr |-> TRUE]
    BY <1>5, <1>a, <1>b, Zenon DEF ReadInterrupt, ReadInto, ReaderLocals
  <2>2. ksta[r] = "sent"
    BY <1>5, <1>a, Zenon DEF ReadInterrupt, KDeliverInterrupt, KernelAgrees
  <2>3. \A q \in Reqs : Recorded(q) /\ uniq[q] = uniq[r] => q = r
    BY <2>2, <1>a, RecordedLive, Zenon DEF KernelAgrees
  <2>4. UNCHANGED <<pc, kind, uniq>>
    BY <1>5, SMTT(60) DEF ReadInterrupt, KDeliverInterrupt, ReadInto, opvars
  <2> QED BY <2>1, <2>3, <2>4 DEF InterruptTarget, Recorded, RecordsCancel
<1>6. CASE GetInMessage \/ ReadFails \/ ConvertFails \/ HandleInterrupt \/ BeginOp
  <2>1. rpc' \notin {"converting", "converted"}
    <3>1. CASE GetInMessage \/ ReadFails
      BY <3>1, Zenon DEF GetInMessage, ReadFails
    <3>2. CASE ConvertFails \/ HandleInterrupt
      BY <3>2, Zenon DEF ConvertFails, HandleInterrupt
    <3>3. CASE BeginOp
      <4>1. rpc' = "returned"
        BY <3>3, Zenon DEF BeginOp
      <4> QED BY <4>1, Zenon
    <3> QED BY <1>6, <3>1, <3>2, <3>3, Zenon
  <2> QED BY <2>1, <1>1, Zenon
<1>7. CASE GetOutMessage
  BY <1>7, <1>2, Zenon DEF GetOutMessage, kvars, opvars, Recorded, RecordsCancel
<1>8. CASE \/ InitOpRead \/ InitReturns \/ InitReadFails \/ Dispatch \/ SyncReturns
           \/ LoopEnds
  BY <1>8, <1>1, Zenon
  DEF InitOpRead, InitReturns, InitReadFails, Dispatch, SyncReturns, LoopEnds
<1>9. CASE ServePanics \/ Destroy \/ Close \/ JoinAvailable \/ Stopped
  <2>1. UNCHANGED <<rpc, rIn, content, kind, uniq, pc>>
    BY <1>9, Zenon
    DEF ServePanics, Destroy, Close, JoinAvailable, Stopped, vars, kvars, cvars,
        bufvars, readervars, opvars, KHangup
  <2> QED BY <1>2, <2>1, Zenon DEF Recorded, RecordsCancel
<1>10. ASSUME NEW r \in Reqs, Op(r)
       PROVE  InterruptTarget'
  <2>1. UNCHANGED <<rpc, rIn, content, kind, uniq>>
    BY <1>10, <1>a, OpMoves, RespondEffect, OpKernelUnchanged, Zenon DEF readervars, kvars
  <2>2. \A q \in Reqs : pc'[q] \in {"read", "handling", "finishing"}
                          => pc[q] \in {"read", "handling", "finishing"}
    BY <1>10, <1>b, ZenonT(40)
    DEF Op, Handle, Reply, FinishOp, Respond, Callback, PutInMessage, PutOutMessage,
        Done
  <2> QED BY <1>2, <2>1, <2>2, SMTT(60) DEF Recorded, RecordsCancel
<1> QED
  BY <1>3, <1>4, <1>5, <1>6, <1>7, <1>8, <1>9, <1>10, ZenonT(40) DEF Next, Reader, ReadOp

\* The context handleInterrupt cancels is that of the interrupted request.
LEMMA CancelledOnlyIfInterruptedStep ==
    ASSUME IInv, Next
    PROVE  CancelledOnlyIfInterrupted'
<1>a. /\ TypeOK /\ MessageRead /\ CancelMap /\ InterruptTarget
      /\ CancelledOnlyIfInterrupted
  BY Zenon DEF IInv
<1>b. /\ ctx \in [Reqs -> {"none", "parent", "live", "cancelled", "finished"}]
      /\ cancelFuncs \in [IDs -> Reqs \cup {None}] /\ uniq \in [Reqs -> IDs]
  BY <1>a, Zenon DEF TypeOK, KTypeOK, CTypeOK
<1>1. ASSUME UNCHANGED ctx, interrupted \subseteq interrupted'
      PROVE  CancelledOnlyIfInterrupted'
  BY <1>1, <1>a, Zenon DEF CancelledOnlyIfInterrupted
<1>2. CASE Kernel
  BY <1>2, <1>1, Zenon DEF Kernel, Issue, Interrupt, Unmount, KHangup, cvars
<1>3. CASE HandleInterrupt
  <2> DEFINE target == cancelFuncs[uniq[content[rIn].req]]
  <2>1. content[rIn].req \in Reqs /\ content[rIn].req \in interrupted
    BY <1>3, <1>a, Zenon DEF HandleInterrupt, MessageRead
  <2>2. target \in Reqs \cup {None}
    BY <1>b, <2>1, ZenonT(40)
  <2>3. target \in Reqs => target \in interrupted
    BY <1>3, <1>a, <1>b, <2>1 DEF HandleInterrupt, CancelMap, InterruptTarget
  <2>4. /\ ctx' = IF target = None THEN ctx ELSE [ctx EXCEPT ![target] = "cancelled"]
        /\ UNCHANGED interrupted
    BY <1>3, Zenon DEF HandleInterrupt, kvars
  <2> HIDE DEF target
  <2> QED BY <1>a, <1>b, <2>2, <2>3, <2>4, Zenon DEF CancelledOnlyIfInterrupted
<1>4. CASE BeginOp
  <2>1. UNCHANGED interrupted
    BY <1>4, Zenon DEF BeginOp, kvars
  <2>2. \A q \in Reqs : ctx'[q] = "cancelled" => ctx[q] = "cancelled"
    BY <1>4, <1>b, Zenon DEF BeginOp
  <2> QED BY <1>a, <2>1, <2>2, Zenon DEF CancelledOnlyIfInterrupted
<1>5. ASSUME NEW r \in Reqs, FinishOp(r)
      PROVE  CancelledOnlyIfInterrupted'
  BY <1>5, <1>a, SMTT(60) DEF FinishOp, kvars, CancelledOnlyIfInterrupted
<1>6. CASE ReadOp /\ ~BeginOp /\ ~HandleInterrupt
  BY <1>6, <1>1, Zenon
  DEF ReadOp, GetInMessage, ReadRequest, ReadInterrupt, ReadInto, ReadFails,
      GetOutMessage, ConvertFails, KDeliver, KDeliverInterrupt, kvars
<1>7. CASE \/ InitOpRead \/ InitReturns \/ InitReadFails \/ Dispatch \/ SyncReturns
           \/ LoopEnds
  BY <1>7, <1>1, Zenon
  DEF InitOpRead, InitReturns, InitReadFails, Dispatch, SyncReturns, LoopEnds, kvars,
      KHangup
<1>8. CASE ServePanics \/ Destroy \/ Close \/ JoinAvailable \/ Stopped
  BY <1>8, <1>1, Zenon
  DEF ServePanics, Destroy, Close, JoinAvailable, Stopped, vars, kvars, cvars, KHangup
<1>9. ASSUME NEW r \in Reqs, Op(r), ~FinishOp(r)
      PROVE  CancelledOnlyIfInterrupted'
  <2>1. UNCHANGED interrupted
    BY <1>9, RespondEffect, OpKernelUnchanged, ZenonT(60) DEF kvars
  <2>2. UNCHANGED ctx
    BY <1>9, ZenonT(60)
    DEF Op, Handle, Reply, Respond, Callback, PutInMessage, PutOutMessage, Done
  <2> QED BY <1>1, <2>1, <2>2, Zenon
<1> QED
  BY <1>2, <1>3, <1>4, <1>5, <1>6, <1>7, <1>8, <1>9, Zenon DEF Next, Reader, ReadOp

-----------------------------------------------------------------------------
(* Types *)

\* The initial state is well typed.
LEMMA TypeInit == Init => TypeOK
  BY KernelAssumption, ConnectionAssumption
  DEF Init, KInit, CInit, TypeOK, KTypeOK, CTypeOK, AllKinds, KStates,
      ReaderStates, OpStates, MountStates

\* The kernel's variables keep their types in each of its steps.
LEMMA KernelTypeStep ==
    ASSUME KTypeOK
    PROVE  /\ UNCHANGED kvars => KTypeOK'
           /\ KHangup => KTypeOK'
           /\ \A r \in Reqs, k \in AllKinds, u \in IDs : Issue(r, k, u) => KTypeOK'
           /\ \A r \in Reqs : Interrupt(r) \/ KDeliver(r) \/ KDeliverInterrupt(r)
                                => KTypeOK'
           /\ \A u \in IDs, ok \in BOOLEAN : KWrite(u, ok) => KTypeOK'
<1> USE DEF KTypeOK
<1>1. UNCHANGED kvars => KTypeOK'
  BY Zenon DEF kvars
<1>2. KHangup => KTypeOK'
  BY Zenon DEF KHangup, KStates
<1>3. \A r \in Reqs, k \in AllKinds, u \in IDs : Issue(r, k, u) => KTypeOK'
  BY DEF Issue, KStates
<1>4. ASSUME NEW r \in Reqs, Interrupt(r) \/ KDeliver(r) \/ KDeliverInterrupt(r)
      PROVE  KTypeOK'
  <2>1. CASE Interrupt(r)
    BY <2>1, Zenon DEF Interrupt
  <2>2. CASE KDeliver(r)
    BY <2>2, Zenon DEF KDeliver, KStates
  <2>3. CASE KDeliverInterrupt(r)
    BY <2>3, Zenon DEF KDeliverInterrupt
  <2> QED BY <1>4, <2>1, <2>2, <2>3, Zenon
<1>5. ASSUME NEW u \in IDs, NEW ok \in BOOLEAN, KWrite(u, ok)
      PROVE  KTypeOK'
  <2>1. CASE UNCHANGED kvars
    BY <2>1, <1>1, Zenon
  <2>2. ASSUME NEW r \in Reqs, ksta' = [ksta EXCEPT ![r] = "answered"],
               intr' = intr \ {r},
               kconn' = IF kconn = "new" /\ ok THEN "up" ELSE kconn,
               UNCHANGED <<kind, uniq, interrupted>>
        PROVE  KTypeOK'
    BY <2>2, Zenon DEF KStates
  <2> QED BY <1>5, <2>1, <2>2, Zenon DEF KWrite
<1> QED BY <1>1, <1>2, <1>3, <1>4, <1>5, Zenon

\* Every step keeps the state well typed.  Done can decrease the counter because
\* WaitGroupCounts says that it counts at least the op that is done.
LEMMA TypeStep ==
    ASSUME IInv, Next, InFlightCounts
    PROVE  TypeOK'
<1>a. TypeOK /\ ReaderLocals /\ OpMessages /\ MessageRead
  BY Zenon DEF IInv
<1> DEFINE Rest == CTypeOK /\ mount \in MountStates /\ opsInFlight \in Nat
<1>b. KTypeOK /\ CTypeOK /\ mount \in MountStates /\ opsInFlight \in Nat
  BY <1>a, Zenon DEF TypeOK
<1>k. KTypeOK'
  <2>1. CASE Kernel
    BY <2>1, <1>b, KernelTypeStep, Zenon DEF Kernel, Unmount
  <2>2. ASSUME NEW r \in Reqs, ReadRequest(r) \/ ReadInterrupt(r) PROVE KTypeOK'
    BY <2>2, <1>b, KernelTypeStep, Zenon DEF ReadRequest, ReadInterrupt
  <2>3. CASE GetInMessage \/ ReadFails \/ GetOutMessage \/ ConvertFails \/ HandleInterrupt \/ BeginOp
    BY <2>3, <1>b, KernelTypeStep, Zenon
    DEF GetInMessage, ReadFails, GetOutMessage, ConvertFails, HandleInterrupt, BeginOp
  <2>4. CASE InitOpRead \/ InitReturns \/ InitReadFails \/ Dispatch \/ SyncReturns
    BY <2>4, <1>b, KernelTypeStep, Zenon
    DEF InitOpRead, InitReturns, InitReadFails, Dispatch, SyncReturns
  <2>5. CASE LoopEnds \/ ServePanics \/ Destroy \/ Close \/ JoinAvailable \/ Stopped
    BY <2>5, <1>b, KernelTypeStep, Zenon
    DEF LoopEnds, ServePanics, Destroy, Close, JoinAvailable, Stopped, vars
  <2>6. ASSUME NEW r \in Reqs, Respond(r) PROVE KTypeOK'
    <3>0. Header(r) = r
      BY <2>6, <1>a, HeaderOwn, Zenon DEF Respond
    <3>1. uniq[Header(r)] \in IDs /\ (kind[r] = "init") \in BOOLEAN
      BY <3>0, <1>b, Zenon DEF KTypeOK
    <3> QED BY <2>6, <1>b, <3>1, KernelTypeStep, ZenonT(60) DEF Respond
  <2>7. ASSUME NEW r \in Reqs, Op(r), ~Respond(r) PROVE KTypeOK'
    BY <2>7, <1>b, OpKernelUnchanged, KernelTypeStep, Zenon
  <2> QED BY <2>1, <2>2, <2>3, <2>4, <2>5, <2>6, <2>7, Zenon DEF Next, Reader, ReadOp
<1>1. ASSUME Kernel PROVE Rest'
  <2>1. UNCHANGED <<cvars, svars>>
    BY <1>1, Zenon DEF Kernel
  <2> QED BY <2>1, <1>b, Zenon
          DEF CTypeOK, cvars, svars, bufvars, readervars, opvars
<1>2. ASSUME GetInMessage /\ UNCHANGED svars PROVE Rest'
  <2>1. PICK b \in InMsgs : Gets(inFree, InMsgs \ InHeld, b) /\ rIn' = b
    BY <1>2, Zenon DEF GetInMessage
  <2>2. AfterGet(inFree) \in Seq(InMsgs)
    BY <2>1, <1>b, AfterGetList, Zenon DEF CTypeOK, IInv, BuffersExclusive
  <2> QED BY <1>2, <1>b, <2>1, <2>2, Zenon
          DEF CTypeOK, GetInMessage, ReaderStates, svars, opvars
<1>3. ASSUME NEW m \in [req : Reqs \cup {None}, intr : BOOLEAN], ReadInto(m)
      PROVE  CTypeOK'
  BY <1>3, <1>a, <1>b, Zenon DEF CTypeOK, ReadInto, ReaderStates, opvars, ReaderLocals
<1>4. ASSUME NEW r \in Reqs, ReadRequest(r) \/ ReadInterrupt(r), UNCHANGED svars
      PROVE  Rest'
  <2>1. \A i \in BOOLEAN : [req |-> r, intr |-> i]
                                \in [req : Reqs \cup {None}, intr : BOOLEAN]
    BY Zenon
  <2>2. CTypeOK'
    BY <1>4, <1>3, <2>1, ZenonT(60) DEF ReadRequest, ReadInterrupt
  <2> QED BY <1>4, <2>2, <1>b, Zenon DEF svars
<1>5. ASSUME ReadFails /\ UNCHANGED svars PROVE Rest'
  <2>1. rIn \in InMsgs
    BY <1>5, <1>a, <1>b, Zenon DEF ReadFails, ReaderLocals, CTypeOK
  <2>2. AfterPut(inFree, rIn) \in Seq(InMsgs)
    BY <2>1, <1>b, AfterPutList, Zenon DEF CTypeOK
  <2> QED BY <1>5, <1>b, <2>2, Zenon
          DEF CTypeOK, ReadFails, ReaderStates, svars, opvars
<1>6. ASSUME GetOutMessage /\ UNCHANGED svars PROVE Rest'
  <2>1. PICK b \in OutMsgs : Gets(outFree, OutMsgs \ OutHeld, b) /\ rOut' = b
    BY <1>6, Zenon DEF GetOutMessage
  <2>2. AfterGet(outFree) \in Seq(OutMsgs)
    BY <2>1, <1>b, AfterGetList, Zenon DEF CTypeOK, IInv, BuffersExclusive
  <2> QED BY <1>6, <1>b, <2>1, <2>2, Zenon
          DEF CTypeOK, GetOutMessage, ReaderStates, svars, opvars
<1>7. ASSUME ConvertFails /\ UNCHANGED svars PROVE Rest'
  <2>1. rOut \in OutMsgs
    BY <1>7, <1>a, <1>b, Zenon DEF ConvertFails, ReaderLocals, CTypeOK
  <2>2. AfterPut(outFree, rOut) \in Seq(OutMsgs)
    BY <2>1, <1>b, AfterPutList, Zenon DEF CTypeOK
  <2> QED BY <1>7, <1>b, <2>2, Zenon
          DEF CTypeOK, ConvertFails, ReaderStates, svars, opvars
<1>8. ASSUME HandleInterrupt /\ UNCHANGED svars PROVE Rest'
  BY <1>8, <1>b, ZenonT(60)
  DEF CTypeOK, HandleInterrupt, ReaderStates, svars, opvars, bufvars
<1>9. ASSUME BeginOp /\ UNCHANGED svars PROVE Rest'
  <2>1. content[rIn].req \in Reqs
    BY <1>9, <1>a, Zenon DEF BeginOp, MessageRead
  <2>2. uniq[content[rIn].req] \in IDs
    BY <2>1, <1>b, Zenon DEF KTypeOK
  <2>3. PICK r \in Reqs : uniq[r] \in IDs /\ r = content[rIn].req
    BY <2>1, <2>2, Zenon
  <2>4. /\ panicked' \in {panicked, "recordCancelFunc"} /\ rOp' = r
        /\ cancelFuncs' \in {cancelFuncs, [cancelFuncs EXCEPT ![uniq[r]] = r]}
        /\ pc' = [pc EXCEPT ![r] = "read"] /\ opIn' = [opIn EXCEPT ![r] = rIn]
        /\ opOut' = [opOut EXCEPT ![r] = rOut]
    BY <1>9, <2>3, Zenon DEF BeginOp
  <2>5. ctx' \in {[ctx EXCEPT ![r] = "live"], [ctx EXCEPT ![r] = "parent"]}
    BY <1>9, <2>3, Zenon DEF BeginOp
  <2>6. /\ rIn' = None /\ rOut' = None /\ rpc' = "returned"
        /\ UNCHANGED <<kvars, inFree, outFree, content, mount, opsInFlight>>
    BY <1>9, Zenon DEF BeginOp, bufvars, svars
  <2> QED BY <1>b, <2>3, <2>4, <2>5, <2>6, ZenonT(40)
          DEF CTypeOK, ReaderStates, OpStates
<1>10. ASSUME NEW r \in Reqs, FinishOp(r), UNCHANGED svars
       PROVE  Rest'
  BY <1>10, <1>b, ZenonT(60)
  DEF CTypeOK, FinishOp, OpStates, svars, bufvars, readervars
<1>11. ASSUME NEW r \in Reqs, Respond(r), UNCHANGED svars
       PROVE  Rest'
  BY <1>11, <1>b, SMTT(60)
  DEF CTypeOK, Respond, OpStates, svars, bufvars, readervars
<1>12. ASSUME NEW r \in Reqs, Callback(r), UNCHANGED svars
       PROVE  Rest'
  BY <1>12, <1>b, SMTT(60)
  DEF CTypeOK, Callback, OpStates, svars, bufvars, readervars
<1>13. ASSUME NEW r \in Reqs, PutInMessage(r), UNCHANGED svars
       PROVE  Rest'
  <2>1. opIn[r] \in InMsgs
    BY <1>13, <1>a, <1>b, ZenonT(60) DEF PutInMessage, OpMessages, CTypeOK
  <2>2. AfterPut(inFree, opIn[r]) \in Seq(InMsgs)
    BY <2>1, <1>b, AfterPutList, Zenon DEF CTypeOK
  <2> QED BY <1>13, <1>b, <2>2, Zenon
          DEF CTypeOK, PutInMessage, OpStates, svars, readervars
<1>14. ASSUME NEW r \in Reqs, PutOutMessage(r), UNCHANGED svars
       PROVE  Rest'
  <2>1. opOut[r] \in OutMsgs
    BY <1>14, <1>a, <1>b, ZenonT(60) DEF PutOutMessage, OpMessages, CTypeOK
  <2>2. AfterPut(outFree, opOut[r]) \in Seq(OutMsgs)
    BY <2>1, <1>b, AfterPutList, Zenon DEF CTypeOK
  <2> QED BY <1>14, <1>b, <2>2, Zenon
          DEF CTypeOK, PutOutMessage, OpStates, svars, readervars
<1>15. ASSUME InitOpRead PROVE Rest'
  BY <1>15, <1>b, ZenonT(60)
  DEF CTypeOK, InitOpRead, ReaderStates, OpStates, svars, bufvars
<1>16. ASSUME InitReturns PROVE Rest'
  BY <1>16, <1>b, ZenonT(60)
  DEF CTypeOK, InitReturns, ReaderStates, OpStates, MountStates, bufvars
<1>17. ASSUME InitReadFails PROVE Rest'
  BY <1>17, <1>b, SMTT(60)
  DEF CTypeOK, InitReadFails, ReaderStates, MountStates, bufvars, opvars
<1>18. ASSUME Dispatch PROVE Rest'
  <2>1. rpc' \in {"sync", "idle"} /\ rOp' \in {rOp, None}
    BY <1>18, Zenon DEF Dispatch
  <2>2. pc' \in [Reqs -> OpStates]
    BY <1>18, <1>b, ZenonT(60) DEF Dispatch, CTypeOK, OpStates
  <2> QED BY <1>18, <1>b, <2>1, <2>2
          DEF CTypeOK, Dispatch, ReaderStates, bufvars
<1>19. ASSUME SyncReturns PROVE Rest'
  BY <1>19, <1>b, Zenon
  DEF CTypeOK, SyncReturns, ReaderStates, svars, bufvars, opvars
<1>20. ASSUME LoopEnds PROVE Rest'
  BY <1>20, <1>b, Zenon
  DEF CTypeOK, LoopEnds, ReaderStates, MountStates, bufvars, opvars
<1>21. ASSUME ServePanics PROVE Rest'
  BY <1>21, <1>b, SMTT(60)
  DEF CTypeOK, ServePanics, svars, bufvars, readervars, opvars
<1>22. ASSUME Destroy \/ Close \/ JoinAvailable PROVE Rest'
  BY <1>22, <1>b, SMTT(60)
  DEF CTypeOK, Destroy, Close, JoinAvailable, MountStates, cvars, bufvars,
      readervars, opvars
<1>23. ASSUME NEW r \in Reqs, Handle(r)
       PROVE  Rest'
  BY <1>23, <1>b, SMTT(60)
  DEF CTypeOK, Handle, OpStates, svars, bufvars, readervars
<1>24. ASSUME NEW r \in Reqs, Done(r)
       PROVE  Rest'
  <2>1. opsInFlight = Cardinality(InFlight) /\ r \in InFlight
    BY <1>24, Zenon DEF Done, IInv, WaitGroupCounts, InFlight
  <2>2. opsInFlight - 1 \in Nat
    BY <2>1, <1>b DEF InFlightCounts
  <2> QED BY <1>24, <1>b, <2>2, SMTT(60)
          DEF CTypeOK, Done, OpStates, bufvars, readervars
<1>25. ASSUME Stopped PROVE Rest'
  BY <1>25, <1>b, ZenonT(40)
  DEF CTypeOK, Stopped, vars, cvars, svars, bufvars, readervars, opvars
<1>26. Rest'
  BY <1>1, <1>2, <1>4, <1>5, <1>6, <1>7, <1>8, <1>9, <1>10, <1>11, <1>12, <1>13, SMTT(60),
     <1>14, <1>15, <1>16, <1>17, <1>18, <1>19, <1>20, <1>21, <1>22, <1>23, <1>24,
     <1>25
  DEF Next, Reader, ReadOp, Op, Reply
<1> QED BY <1>k, <1>26, Zenon DEF TypeOK

-----------------------------------------------------------------------------
(* The WaitGroup *)

\* Add and Done keep the counter equal to the number of ops in flight.
LEMMA WaitGroupCountsStep ==
    ASSUME IInv, Next, InFlightCounts
    PROVE  WaitGroupCounts'
<1>a. TypeOK /\ ReaderLocals /\ MessageRead /\ WaitGroupCounts
  BY Zenon DEF IInv
<1>b. /\ pc \in [Reqs -> OpStates] /\ rOp \in Reqs \cup {None}
      /\ mount \in MountStates /\ opsInFlight \in Nat
  BY <1>a, Zenon DEF TypeOK, CTypeOK
<1>1. ASSUME UNCHANGED <<pc, rOp, opsInFlight>>, mount = mount',
             rpc' # rpc => rpc # "stopped"
      PROVE  WaitGroupCounts'
  BY <1>1, <1>a, Zenon DEF WaitGroupCounts, InFlight
<1>2. CASE Kernel \/ ServePanics \/ Stopped
  BY <1>2, <1>1, SMTT(60)
  DEF Kernel, ServePanics, Stopped, vars, cvars, svars, readervars, opvars
<1>3. CASE ReadOp /\ ~BeginOp /\ UNCHANGED svars
  BY <1>3, <1>1, Zenon
  DEF ReadOp, GetInMessage, ReadRequest, ReadInterrupt, ReadInto, ReadFails,
      GetOutMessage, ConvertFails, HandleInterrupt, opvars, svars
<1>4. CASE BeginOp /\ UNCHANGED svars
  <2> DEFINE r == content[rIn].req
  <2>1. r \in Reqs /\ pc[r] = "none" /\ rpc = "converted" /\ rOp = None
    BY <1>4, <1>a, Zenon DEF BeginOp, MessageRead, ReaderLocals
  <2>2. /\ pc' = [pc EXCEPT ![r] = "read"] /\ rOp' = r /\ rpc' = "returned"
        /\ UNCHANGED <<mount, opsInFlight>>
    BY <1>4, Zenon DEF BeginOp, svars
  <2> HIDE DEF r
  <2>3. InFlight' = InFlight
    BY <1>b, <2>1, <2>2, Zenon DEF InFlight
  <2>4. mount \notin {"draining", "destroyed", "closed", "joined", "failed"}
    BY <1>a, <2>1, Zenon DEF WaitGroupCounts
  <2>5. mount = "handshake" => \A q \in Reqs : pc[q] = "none"
    BY <1>a, <2>1, ConnectionAssumption, Zenon DEF WaitGroupCounts
  <2> QED BY <1>a, <1>b, <2>1, <2>2, <2>3, <2>4, <2>5, SMTT(60) DEF WaitGroupCounts
<1>5. CASE InitOpRead
  BY <1>5, <1>a, <1>b, Zenon DEF InitOpRead, WaitGroupCounts, svars
<1>6. CASE InitReturns \/ InitReadFails
  <2>1. mount = "handshake" /\ rpc # "stopped" /\ opsInFlight' = 0
    BY <1>6, <1>a, Zenon DEF InitReturns, InitReadFails, WaitGroupCounts
  <2>2. mount' \in {"serving", "failed"} /\ (mount' = "failed" => rpc' = "stopped")
    BY <1>6, Zenon DEF InitReturns, InitReadFails
  <2>3. \A q \in Reqs : pc'[q] \in {"none", "done"}
    BY <1>6, <1>a, <1>b, ConnectionAssumption, Zenon
    DEF InitReturns, InitReadFails, WaitGroupCounts, ReaderLocals, opvars
  <2>4. InFlight' = {}
    BY <2>3, Zenon DEF InFlight
  <2>5. Cardinality(InFlight)' = 0
    BY <2>4, Zenon DEF InFlightCounts
  <2> QED BY <2>1, <2>2, <2>3, <2>5, Zenon DEF WaitGroupCounts
<1>7. CASE Dispatch
  <2>1. rOp \in Reqs /\ pc[rOp] = "read" /\ mount = "serving"
    BY <1>7, <1>a, <1>b, Zenon DEF Dispatch, ReaderLocals
  <2>2. /\ pc' = [pc EXCEPT ![rOp] = "handling"] /\ opsInFlight' = opsInFlight + 1
        /\ mount' = mount
    BY <1>7, Zenon DEF Dispatch
  <2>3. InFlight' = InFlight \cup {rOp} /\ rOp \notin InFlight
    BY <1>b, <2>1, <2>2, Zenon DEF InFlight
  <2>4. Cardinality(InFlight \cup {rOp}) = Cardinality(InFlight) + 1
    BY <2>1, <2>3 DEF InFlightCounts
  <2> QED BY <1>a, <2>1, <2>2, <2>3, <2>4, Zenon DEF WaitGroupCounts
<1>8. CASE SyncReturns
  BY <1>8, <1>a, Zenon DEF SyncReturns, WaitGroupCounts, InFlight, svars, opvars
<1>9. CASE LoopEnds
  BY <1>9, <1>a, Zenon DEF LoopEnds, WaitGroupCounts, InFlight, opvars
<1>10. CASE Destroy \/ Close \/ JoinAvailable
  BY <1>10, <1>a, Zenon
  DEF Destroy, Close, JoinAvailable, WaitGroupCounts, InFlight, cvars, readervars,
      opvars
<1>11. ASSUME NEW r \in Reqs, Handle(r) \/ (Reply(r) /\ UNCHANGED svars)
       PROVE  WaitGroupCounts'
  <2>1. UNCHANGED <<mount, opsInFlight, rpc, rOp>>
    BY <1>11, ZenonT(60)
    DEF Handle, Reply, FinishOp, Respond, Callback, PutInMessage, PutOutMessage,
        svars, readervars
  <2>2. /\ InFlight' = InFlight /\ r \in InFlight
        /\ \A q \in Reqs : q # r => pc'[q] = pc[q]
    BY <1>11, <1>b, ZenonT(60)
    DEF Handle, Reply, FinishOp, Respond, Callback, PutInMessage, PutOutMessage,
        InFlight
  <2>3. mount # "failed"
    BY <1>a, <2>2, Zenon DEF WaitGroupCounts, InFlight
  <2>4. pc[r] # "none"
    BY <2>2, Zenon DEF InFlight
  <2> QED BY <1>a, <2>1, <2>2, <2>3, <2>4, Zenon DEF WaitGroupCounts
<1>12. ASSUME NEW r \in Reqs, Done(r)
       PROVE  WaitGroupCounts'
  <2>1. /\ pc' = [pc EXCEPT ![r] = "done"] /\ pc[r] = "replied"
        /\ opsInFlight' = opsInFlight - 1 /\ UNCHANGED <<mount, rpc, rOp>>
        /\ mount # "handshake"
    BY <1>12, Zenon DEF Done, readervars
  <2>2. InFlight' = InFlight \ {r} /\ r \in InFlight
    BY <1>b, <2>1, Zenon DEF InFlight
  <2>3. Cardinality(InFlight \ {r}) = Cardinality(InFlight) - 1
    BY <2>2, Zenon DEF InFlightCounts
  <2>4. mount \notin {"failed", "destroyed", "closed", "joined"}
    BY <1>a, <2>1, <2>2, Zenon DEF WaitGroupCounts, InFlightCounts
  <2> QED BY <1>a, <2>1, <2>2, <2>3, <2>4, Zenon DEF WaitGroupCounts
<1> QED
  BY <1>2, <1>3, <1>4, <1>5, <1>6, <1>7, <1>8, <1>9, <1>10, <1>11, <1>12, SMTT(60)
  DEF Next, Reader, Op
=============================================================================
