-------------------------- MODULE ServerRefinement --------------------------
(***************************************************************************)
(* FileSystemServer implements OpLifecycle, for every number of requests,  *)
(* IDs and messages: every step of the kernel, the reader or an op is a    *)
(* step of the abstract specification or changes nothing in it.            *)
(***************************************************************************)
EXTENDS ServerStepProofs

-----------------------------------------------------------------------------
(* The invariant of the refinement *)

\* Steps that leave the kernel alone, and what the others do to it.
LEMMA KernelEffect ==
    ASSUME IInv, Next
    PROVE  \/ UNCHANGED kvars
           \/ KHangup
           \/ \E r \in Reqs, k \in AllKinds, u \in IDs : Issue(r, k, u)
           \/ \E r \in Reqs : Interrupt(r) \/ KDeliver(r) \/ KDeliverInterrupt(r)
           \/ \E r \in Reqs : Respond(r)
<1>1. CASE Kernel
  BY <1>1, ZenonT(60) DEF Kernel, Unmount
<1>2. CASE Reader
  BY <1>2, ZenonT(60)
  DEF Reader, ReadOp, GetInMessage, ReadRequest, ReadInterrupt, ReadFails,
      GetOutMessage, ConvertFails, HandleInterrupt, BeginOp, InitOpRead, InitReturns,
      InitReadFails, Dispatch, SyncReturns, LoopEnds, ServePanics, Destroy, Close,
      JoinAvailable
<1>3. ASSUME NEW r \in Reqs, Op(r)
      PROVE  UNCHANGED kvars \/ Respond(r)
  BY <1>3, OpKernelUnchanged, Zenon
<1>4. CASE Stopped
  BY <1>4, Zenon DEF Stopped, vars
<1> QED BY <1>1, <1>2, <1>3, <1>4, Zenon DEF Next

\* The write of a reply neither ends the connection nor revives it.
LEMMA RespondConn ==
    ASSUME NEW r \in Reqs, Respond(r)
    PROVE  kconn' = "down" <=> kconn = "down"
<1>1. ASSUME NEW u, NEW ok, KWrite(u, ok)
      PROVE  kconn' = "down" <=> kconn = "down"
  BY <1>1, Zenon DEF KWrite, kvars
<1> QED BY <1>1, Zenon DEF Respond, kvars

\* Every step keeps HangupAborts.
LEMMA HangupAbortsStep ==
    ASSUME RInv, Next
    PROVE  HangupAborts'
<1>a. IInv /\ HangupAborts /\ ksta \in [Reqs -> KStates]
  BY Zenon DEF RInv, IInv, TypeOK, KTypeOK
<1>1. CASE UNCHANGED kvars
  BY <1>1, <1>a, Zenon DEF HangupAborts, kvars
<1>2. CASE KHangup
  BY <1>2, <1>a, Zenon DEF HangupAborts, KHangup
<1>3. ASSUME NEW r \in Reqs, NEW k, NEW u, Issue(r, k, u)
      PROVE  HangupAborts'
  BY <1>3, <1>a, Zenon DEF HangupAborts, Issue, MayIssue
<1>4. ASSUME NEW r \in Reqs, Interrupt(r) \/ KDeliver(r) \/ KDeliverInterrupt(r)
      PROVE  HangupAborts'
  BY <1>4, <1>a, Zenon DEF HangupAborts, Interrupt, KDeliver, KDeliverInterrupt
<1>5. ASSUME NEW r \in Reqs, Respond(r)
      PROVE  HangupAborts'
  <2>1. kconn' = "down" <=> kconn = "down"
    BY <1>5, RespondConn, Zenon
  <2>2. \A q \in Reqs : ksta'[q] = ksta[q] \/ ksta'[q] = "answered"
    BY <1>5, <1>a, RespondEffect, Zenon
  <2> QED BY <1>a, <2>1, <2>2, Zenon DEF HangupAborts
<1> QED BY <1>a, <1>1, <1>2, <1>3, <1>4, <1>5, KernelEffect, Zenon

\* The kernel does not come back.
LEMMA HangupFinal ==
    ASSUME IInv, Next, kconn = "down"
    PROVE  kconn' = "down"
<1>1. ASSUME NEW r \in Reqs, NEW k, NEW u, Issue(r, k, u)
      PROVE  FALSE
  BY <1>1, Zenon DEF Issue, MayIssue
<1> QED BY <1>1, KernelEffect, RespondConn, Zenon
        DEF kvars, KHangup, Interrupt, KDeliver, KDeliverInterrupt

\* Every step keeps HangupSeen.
LEMMA HangupSeenStep ==
    ASSUME RInv, Next
    PROVE  HangupSeen'
<1>a. IInv /\ HangupSeen
  BY Zenon DEF RInv
<1> DEFINE Over(m) == m \in {"draining", "destroyed", "closed", "joined", "failed"}
<1>1. CASE kconn = "down"
  BY <1>1, <1>a, HangupFinal, Zenon DEF HangupSeen
<1>2. CASE kconn # "down"
  <2>1. rpc # "eof" /\ ~Over(mount)
    BY <1>2, <1>a, Zenon DEF HangupSeen
  <2>2. CASE Kernel \/ Stopped
    BY <2>1, <2>2, Zenon DEF Kernel, Stopped, HangupSeen, vars, cvars, svars, readervars
  <2>3. CASE Reader
    <3>1. CASE ReadOp /\ UNCHANGED svars
      BY <2>1, <3>1, <1>2, ZenonT(60)
      DEF ReadOp, GetInMessage, ReadRequest, ReadInterrupt, ReadInto, ReadFails,
          GetOutMessage, ConvertFails, HandleInterrupt, BeginOp, HangupSeen, svars
    <3>2. CASE InitReturns \/ InitReadFails \/ Close
      BY <2>1, <3>2, Zenon DEF InitReturns, InitReadFails, Close, KHangup, HangupSeen
    <3>3. CASE \/ InitOpRead \/ Dispatch \/ SyncReturns \/ LoopEnds \/ ServePanics
               \/ Destroy \/ JoinAvailable
      BY <2>1, <3>3, Zenon
      DEF InitOpRead, Dispatch, SyncReturns, LoopEnds, ServePanics, Destroy,
          JoinAvailable, HangupSeen, svars, readervars
    <3> QED BY <2>3, <3>1, <3>2, <3>3, Zenon DEF Reader
  <2>4. ASSUME NEW r \in Reqs, Op(r)
        PROVE  HangupSeen'
    BY <2>1, <2>4, ZenonT(60)
    DEF Op, Handle, Reply, FinishOp, Respond, Callback, PutInMessage, PutOutMessage,
        Done, HangupSeen, svars, readervars
  <2> QED BY <2>2, <2>3, <2>4, Zenon DEF Next
<1> QED BY <1>1, <1>2, Zenon

\* An op is made once, by beginOp, of the request in the reader's hands.
LEMMA OpMade ==
    ASSUME IInv, Next
    PROVE  \/ BeginOp
           \/ \A r \in Reqs : pc'[r] = "none" <=> pc[r] = "none"
<1>a. pc \in [Reqs -> OpStates] /\ ReaderLocals /\ rOp \in Reqs \cup {None}
  BY Zenon DEF IInv, TypeOK, CTypeOK
<1>1. CASE Kernel \/ Stopped
  BY <1>1, Zenon DEF Kernel, Stopped, vars, cvars, opvars
<1>2. CASE ReadOp /\ ~BeginOp
  BY <1>2, ZenonT(60)
  DEF ReadOp, GetInMessage, ReadRequest, ReadInterrupt, ReadInto, ReadFails,
      GetOutMessage, ConvertFails, HandleInterrupt, opvars
<1>3. CASE InitOpRead \/ Dispatch \/ InitReturns
  <2>1. pc[rOp] # "none"
    BY <1>3, <1>a, Zenon DEF InitOpRead, Dispatch, InitReturns, ReaderLocals
  <2>2. \E s \in {"handling", "done"} : pc' = [pc EXCEPT ![rOp] = s]
    BY <1>3, Zenon DEF InitOpRead, Dispatch, InitReturns
  <2> QED BY <1>a, <2>1, <2>2, Zenon
<1>4. CASE \/ InitReadFails \/ SyncReturns \/ LoopEnds \/ ServePanics \/ Destroy \/ Close
           \/ JoinAvailable
  BY <1>4, Zenon
  DEF InitReadFails, SyncReturns, LoopEnds, ServePanics, Destroy, Close, JoinAvailable,
      cvars, opvars
<1>5. ASSUME NEW r \in Reqs, Op(r)
      PROVE  \A q \in Reqs : pc'[q] = "none" <=> pc[q] = "none"
  BY <1>5, <1>a, ZenonT(60)
  DEF Op, Handle, Reply, FinishOp, Respond, Callback, PutInMessage, PutOutMessage, Done
<1> QED BY <1>1, <1>2, <1>3, <1>4, <1>5, Zenon DEF Next, Reader

\* Contexts are changed by beginOp, handleInterrupt and finishOp only.
LEMMA OtherContexts ==
    ASSUME Next, ~BeginOp, ~HandleInterrupt
    PROVE  UNCHANGED ctx \/ \E r \in Reqs : FinishOp(r)
<1>1. CASE Kernel \/ Stopped
  BY <1>1, Zenon DEF Kernel, Stopped, vars, cvars
<1>2. CASE Reader
  BY <1>2, ZenonT(60)
  DEF Reader, ReadOp, GetInMessage, ReadRequest, ReadInterrupt, ReadInto, ReadFails,
      GetOutMessage, ConvertFails, InitOpRead, InitReturns, InitReadFails, Dispatch,
      SyncReturns, LoopEnds, ServePanics, Destroy, Close, JoinAvailable, cvars
<1>3. ASSUME NEW r \in Reqs, Op(r)
      PROVE  UNCHANGED ctx \/ FinishOp(r)
  BY <1>3, ZenonT(60)
  DEF Op, Handle, Reply, Respond, Callback, PutInMessage, PutOutMessage, Done
<1> QED BY <1>1, <1>2, <1>3, Zenon DEF Next

\* The reader has its message in hand until convertInMessage is done with it.
LEMMA HandKept ==
    ASSUME Next, rpc \in {"converting", "converted"}, ~BeginOp, ~ConvertFails,
           ~HandleInterrupt
    PROVE  rpc' \in {"converting", "converted"} /\ UNCHANGED <<rIn, content>>
<1>1. CASE Kernel \/ Stopped
  BY <1>1, Zenon DEF Kernel, Stopped, vars, cvars, bufvars, readervars
<1>2. CASE Reader
  <2>1. CASE ReadOp
    BY <2>1, ZenonT(60)
    DEF ReadOp, GetInMessage, ReadRequest, ReadInterrupt, ReadInto, ReadFails,
        GetOutMessage
  <2>2. CASE Destroy \/ Close \/ JoinAvailable
    BY <2>2, Zenon DEF Destroy, Close, JoinAvailable, cvars, bufvars, readervars
  <2>3. CASE ~ReadOp /\ ~Destroy /\ ~Close /\ ~JoinAvailable
    BY <1>2, <2>3, Zenon
    DEF Reader, InitOpRead, InitReturns, InitReadFails, Dispatch, SyncReturns, LoopEnds,
        ServePanics
  <2> QED BY <2>1, <2>2, <2>3, Zenon
<1>3. ASSUME NEW r \in Reqs, Op(r)
      PROVE  rpc' \in {"converting", "converted"} /\ UNCHANGED <<rIn, content>>
  BY <1>3, ZenonT(60)
  DEF Op, Handle, Reply, FinishOp, Respond, Callback, PutInMessage, PutOutMessage, Done,
      bufvars, readervars
<1> QED BY <1>1, <1>2, <1>3, Zenon DEF Next

\* Requests come out of the kernel by a read.
LEMMA DeliveredByRead ==
    ASSUME IInv, Next, NEW r \in Reqs, ksta'[r] = "over", ksta[r] # "over"
    PROVE  ReadRequest(r)
<1>a. ksta \in [Reqs -> KStates]
  BY Zenon DEF IInv, TypeOK, KTypeOK
<1>1. ASSUME NEW q \in Reqs, ReadRequest(q)
      PROVE  q = r
  BY <1>1, <1>a, Zenon DEF ReadRequest, KDeliver
<1>2. CASE Kernel
  BY <1>2, <1>a, SMTT(60) DEF Kernel, Issue, Interrupt, Unmount, KHangup
<1>3. CASE Reader
  <2>1. (\E q \in Reqs : ReadRequest(q)) \/ UNCHANGED ksta \/ KHangup
    BY <1>3, ZenonT(60)
    DEF Reader, ReadOp, GetInMessage, ReadInterrupt, KDeliverInterrupt, ReadFails,
        GetOutMessage, ConvertFails, HandleInterrupt, BeginOp, InitOpRead, InitReturns,
        InitReadFails, Dispatch, SyncReturns, LoopEnds, ServePanics, Destroy, Close,
        JoinAvailable, kvars
  <2> QED BY <2>1, <1>1, <1>a, Zenon DEF KHangup
<1>4. ASSUME NEW q \in Reqs, Op(q)
      PROVE  FALSE
  BY <1>4, <1>a, OpKernelUnchanged, RespondEffect, Zenon DEF kvars
<1>5. CASE Stopped
  BY <1>5, Zenon DEF Stopped, vars, kvars
<1> QED BY <1>2, <1>3, <1>4, <1>5, Zenon DEF Next

\* Every step keeps ContextOfOp: handleInterrupt finds only functions of ops.
LEMMA ContextOfOpStep ==
    ASSUME RInv, Next
    PROVE  ContextOfOp'
<1>a. IInv /\ ContextOfOp /\ ctx \in [Reqs -> {"none", "parent", "live", "cancelled", "finished"}]
  BY Zenon DEF RInv, IInv, TypeOK, CTypeOK
<1>1. CASE BeginOp
  <2>1. content[rIn].req \in Reqs /\ pc \in [Reqs -> OpStates]
    BY <1>1, <1>a, Zenon DEF BeginOp, IInv, MessageRead, TypeOK, CTypeOK
  <2>2. /\ pc' = [pc EXCEPT ![content[rIn].req] = "read"]
        /\ \A q \in Reqs : q # content[rIn].req => ctx'[q] = ctx[q]
    BY <1>1, <1>a, <2>1, Zenon DEF BeginOp
  <2> QED BY <1>a, <2>1, <2>2, Zenon DEF ContextOfOp
<1>2. CASE HandleInterrupt
  <2>1. \A r \in Reqs : pc[r] = "none" => ctx'[r] = ctx[r]
    <3> DEFINE target == cancelFuncs[uniq[content[rIn].req]]
    <3>1. content[rIn].req \in Reqs
      BY <1>2, <1>a, Zenon DEF HandleInterrupt, IInv, MessageRead
    <3>2. uniq[content[rIn].req] \in IDs
      BY <3>1, <1>a, Zenon DEF IInv, TypeOK, KTypeOK
    <3>3. target \in Reqs \cup {None}
      BY <3>2, <1>a, ZenonT(40) DEF IInv, TypeOK, CTypeOK
    <3>4. target # None => pc[target] # "none"
      BY <3>2, <3>3, <1>a DEF IInv, CancelMap, Recorded
    <3>5. ctx' = IF target = None THEN ctx ELSE [ctx EXCEPT ![target] = "cancelled"]
      BY <1>2, Zenon DEF HandleInterrupt
    <3> HIDE DEF target
    <3> QED BY <3>3, <3>4, <3>5, <1>a, Zenon
  <2>2. UNCHANGED pc
    BY <1>2, Zenon DEF HandleInterrupt, opvars
  <2> QED BY <1>a, <2>1, <2>2, Zenon DEF ContextOfOp
<1>3. CASE ~BeginOp /\ ~HandleInterrupt
  <2>1. \A r \in Reqs : ctx'[r] = "cancelled" => ctx[r] = "cancelled"
    <3>1. CASE UNCHANGED ctx
      BY <3>1, Zenon
    <3>2. ASSUME NEW r \in Reqs, FinishOp(r)
          PROVE  \A q \in Reqs : ctx'[q] = "cancelled" => ctx[q] = "cancelled"
      BY <3>2, Zenon DEF FinishOp
    <3>3. UNCHANGED ctx \/ \E r \in Reqs : FinishOp(r)
      BY <1>3, OtherContexts, Zenon
    <3> QED BY <3>1, <3>2, <3>3, Zenon
  <2>2. \A r \in Reqs : pc'[r] = "none" => pc[r] = "none"
    BY <1>3, <1>a, OpMade, Zenon
  <2> QED BY <1>a, <2>1, <2>2, Zenon DEF ContextOfOp
<1> QED BY <1>1, <1>2, <1>3, Zenon

\* Every step keeps ForgetInHand: what the reader has read it makes an op of.
LEMMA ForgetInHandStep ==
    ASSUME RInv, Next
    PROVE  ForgetInHand'
<1>a. IInv /\ ForgetInHand /\ KernelAgrees /\ ksta \in [Reqs -> KStates] /\ ReaderLocals
  BY Zenon DEF RInv, IInv, TypeOK, KTypeOK
<1> SUFFICES ASSUME NEW r \in Reqs, ksta'[r] = "over", pc'[r] = "none"
             PROVE  InHand(r)'
  BY Zenon DEF ForgetInHand
<1>1. CASE ksta[r] = "over"
  <2>1. CASE BeginOp
    <3>1. content[rIn].req \in Reqs /\ pc \in [Reqs -> OpStates]
      BY <2>1, <1>a, Zenon DEF BeginOp, IInv, MessageRead, TypeOK, CTypeOK
    <3>2. pc' = [pc EXCEPT ![content[rIn].req] = "read"]
      BY <2>1, Zenon DEF BeginOp
    <3>3. InHand(r)
      BY <1>1, <1>a, <3>1, <3>2, Zenon DEF ForgetInHand
    <3> QED BY <3>1, <3>2, <3>3 DEF InHand
  <2>2. CASE ~BeginOp
    <3>1. InHand(r)
      BY <1>1, <2>2, <1>a, OpMade, Zenon DEF ForgetInHand
    <3>2. kind[r] # "bad"
      BY <1>1, <1>a, ReuseAssumption, Zenon DEF KernelAgrees
    <3>3. ~ConvertFails /\ ~HandleInterrupt
      BY <3>1, <3>2 DEF InHand, ConvertFails, HandleInterrupt
    <3>4. rpc' \in {"converting", "converted"} /\ UNCHANGED <<rIn, content>>
      BY <2>2, <3>1, <3>3, HandKept, Zenon DEF InHand
    <3> QED BY <3>1, <3>4, Zenon DEF InHand
  <2> QED BY <2>1, <2>2, Zenon
<1>2. CASE ksta[r] # "over"
  <2>1. ReadRequest(r)
    BY <1>2, <1>a, DeliveredByRead, Zenon
  <2>2. rIn \in InMsgs /\ content \in [InMsgs -> [req : Reqs \cup {None}, intr : BOOLEAN]]
    BY <2>1, <1>a, Zenon DEF ReadRequest, ReadInto, ReaderLocals, IInv, TypeOK, CTypeOK
  <2> QED BY <2>1, <2>2, Zenon DEF ReadRequest, ReadInto, InHand
<1> QED BY <1>1, <1>2, Zenon

-----------------------------------------------------------------------------
(* The steps *)

Serving == {"read", "handling", "finishing", "responding"}
Destroyed == mount \in {"destroyed", "closed", "joined"}

\* What OpLifecycle makes of every request.
StatesSeen ==
    \A r \in Reqs :
      /\ ksta[r] = "unissued" => AbstractState(r) = "none"
      /\ ksta[r] # "unissued" /\ pc[r] = "none" =>
           /\ ksta[r] = "aborted" /\ ~InHand(r) => AbstractState(r) = "dropped"
           /\ ksta[r] # "aborted" \/ InHand(r) => AbstractState(r) = "queued"
      /\ pc[r] \in Serving => AbstractState(r) = "serving"
      /\ pc[r] \in Responded =>
           /\ ksta[r] = "answered" => AbstractState(r) = "answered"
           /\ ksta[r] # "answered" => AbstractState(r) = "unanswered"

\* The invariant rules out all other cases.
LEMMA SeenCorrectly == RInv => StatesSeen
<1> SUFFICES ASSUME RInv, NEW r \in Reqs
             PROVE  StatesSeen!(r)
  BY Zenon DEF StatesSeen
<1>1. pc[r] # "none" => ksta[r] # "unissued"
  BY Zenon DEF RInv, IInv, KernelAgrees
<1>2. CASE ksta[r] = "unissued"
  BY <1>1, <1>2, Zenon DEF AbstractState, Abstract, Serving, Responded
<1>3. CASE ksta[r] # "unissued" /\ pc[r] = "none"
  BY <1>3, ZenonT(60) DEF AbstractState, Abstract, Serving, Responded
<1>4. CASE ksta[r] # "unissued" /\ pc[r] \in Serving
  BY <1>4, Zenon DEF AbstractState, Abstract, Serving, Responded
<1>5. CASE ksta[r] # "unissued" /\ pc[r] \in Responded
  BY <1>5, Zenon DEF AbstractState, Abstract, Serving, Responded
<1> QED BY <1>1, <1>2, <1>3, <1>4, <1>5, Zenon

\* A step that OpLifecycle does not see.
LEMMA Stutters ==
    ASSUME \A r \in Reqs : AbstractState(r)' = AbstractState(r),
           UNCHANGED <<kind, interrupted>>,
           \A r \in Reqs : ctx'[r] = "cancelled" <=> ctx[r] = "cancelled",
           kconn' = "down" <=> kconn = "down",
           Destroyed' <=> Destroyed
    PROVE  UNCHANGED Lifecycle!avars
<1>1. [r \in Reqs |-> AbstractState(r)]' = [r \in Reqs |-> AbstractState(r)]
  BY Zenon
<1>2. {r \in Reqs : ctx[r] = "cancelled"}' = {r \in Reqs : ctx[r] = "cancelled"}
  BY Zenon
<1>3. [r \in Reqs |-> kind[r] \notin NoReply]' = [r \in Reqs |-> kind[r] \notin NoReply]
  BY Zenon
<1>4. (kconn # "down")' = (kconn # "down")
  BY Zenon
<1>5. (mount \in {"destroyed", "closed", "joined"})' = (mount \in {"destroyed", "closed", "joined"})
  BY DEF Destroyed
<1> QED BY <1>1, <1>2, <1>3, <1>4, <1>5, Zenon DEF Lifecycle!avars

\* A request that moves on only where OpLifecycle does not look, or not at all.
LEMMA SameState ==
    ASSUME RInv, RInv', NEW r \in Reqs,
           \/ ksta'[r] = ksta[r]
           \/ ksta[r] = "pending" /\ ksta'[r] \in {"sent", "over"},
           \/ pc'[r] = pc[r]
           \/ pc[r] \in Serving /\ pc'[r] \in Serving
           \/ pc[r] \in Responded /\ pc'[r] \in Responded,
           ksta[r] = "aborted" /\ pc[r] = "none" => (InHand(r)' <=> InHand(r))
    PROVE  AbstractState(r)' = AbstractState(r)
<1>1. StatesSeen
  BY SeenCorrectly, Zenon
<1>2. RInv' => StatesSeen'
  BY SeenCorrectly, PTL
<1>3. pc \in [Reqs -> OpStates] /\ ksta \in [Reqs -> KStates]
  BY Zenon DEF RInv, IInv, TypeOK, KTypeOK, CTypeOK
<1>4. pc[r] = "none" \/ pc[r] \in Serving \/ pc[r] \in Responded
  BY <1>3, Zenon DEF OpStates, Serving, Responded
<1>5. pc[r] # "none" => ksta[r] \notin {"unissued", "pending"}
  BY Zenon DEF RInv, IInv, KernelAgrees
<1>6. StatesSeen!(r) /\ StatesSeen!(r)'
  BY <1>1, <1>2, Zenon DEF StatesSeen
<1>7. CASE pc[r] = "none"
  <2>1. pc'[r] = "none"
    BY <1>7, Zenon DEF Serving, Responded
  <2> QED BY <2>1, <1>7, <1>6, ZenonT(60)
<1>8. CASE pc[r] \in Serving
  <2>1. pc'[r] \in Serving
    BY <1>8, Zenon DEF Serving, Responded
  <2> QED BY <2>1, <1>8, <1>6
<1>9. CASE pc[r] \in Responded
  <2>1. pc'[r] \in Responded /\ ksta'[r] = ksta[r]
    BY <1>9, <1>5, Zenon DEF Serving, Responded
  <2> QED BY <2>1, <1>9, <1>6
<1> QED BY <1>4, <1>7, <1>8, <1>9, Zenon

\* A step in which one request moves on for OpLifecycle.
LEMMA OneMoves ==
    ASSUME NEW r \in Reqs, NEW s, AbstractState(r)' = s,
           \A q \in Reqs : q # r => AbstractState(q)' = AbstractState(q)
    PROVE  [q \in Reqs |-> AbstractState(q)]' =
             [[q \in Reqs |-> AbstractState(q)] EXCEPT ![r] = s]
  BY Zenon

\* Steps of OpLifecycle, stuttering included.
AStep == [Lifecycle!ANext]_(Lifecycle!avars)

\* The kernel hangs up, or the reader drops a request after that.
LEMMA HangsUp ==
    ASSUME kconn' = "down", UNCHANGED <<kind, interrupted, ctx>>,
           Destroyed' <=> Destroyed,
           \A r \in Reqs :
             \/ AbstractState(r)' = AbstractState(r)
             \/ AbstractState(r) = "queued" /\ AbstractState(r)' = "dropped"
    PROVE  AStep
<1> DEFINE St == [r \in Reqs |-> AbstractState(r)]
           D == {r \in Reqs : AbstractState(r) # AbstractState(r)'}
<1>1. D \in SUBSET {r \in Reqs : St[r] = "queued"}
  BY Zenon
<1>2. St' = [r \in Reqs |-> IF r \in D THEN "dropped" ELSE St[r]]
  BY Zenon
<1>3. \E E \in SUBSET {r \in Reqs : St[r] = "queued"} :
        St' = [r \in Reqs |-> IF r \in E THEN "dropped" ELSE St[r]]
  BY <1>1, <1>2, Zenon
<1>4. {r \in Reqs : ctx[r] = "cancelled"}' = {r \in Reqs : ctx[r] = "cancelled"}
  BY Zenon
<1>5. [r \in Reqs |-> kind[r] \notin NoReply]' = [r \in Reqs |-> kind[r] \notin NoReply]
  BY Zenon
<1>6. (kconn # "down")' = FALSE
  BY Zenon
<1>7. (mount \in {"destroyed", "closed", "joined"})' = (mount \in {"destroyed", "closed", "joined"})
  BY DEF Destroyed
<1>8. Lifecycle!Hangup
  BY <1>3, <1>4, <1>5, <1>6, <1>7, Zenon DEF Lifecycle!Hangup
<1> QED BY <1>8, Zenon DEF AStep, Lifecycle!ANext

\* KHangup, whoever causes it: what was queued or is being read is dropped.
LEMMA HangupMaps ==
    ASSUME RInv, RInv', KHangup, UNCHANGED ctx, Destroyed' <=> Destroyed,
           \A r \in Reqs :
             /\ pc'[r] = pc[r] \/ (pc[r] \in Responded /\ pc'[r] \in Responded)
             /\ InHand(r)' <=> InHand(r)
    PROVE  AStep
<1>1. StatesSeen
  BY SeenCorrectly, Zenon
<1>2. RInv' => StatesSeen'
  BY SeenCorrectly, PTL
<1>3. pc \in [Reqs -> OpStates] /\ ksta \in [Reqs -> KStates]
  BY Zenon DEF RInv, IInv, TypeOK, KTypeOK, CTypeOK
<1>4. ASSUME NEW r \in Reqs
      PROVE  \/ AbstractState(r)' = AbstractState(r)
             \/ AbstractState(r) = "queued" /\ AbstractState(r)' = "dropped"
  <2>1. StatesSeen!(r) /\ StatesSeen!(r)'
    BY <1>1, <1>2, <1>4, Zenon DEF StatesSeen
  <2>2. ksta'[r] = IF ksta[r] \in {"pending", "sent"} THEN "aborted" ELSE ksta[r]
    BY <1>3, Zenon DEF KHangup
  <2>3. CASE pc[r] = "none"
    <3>1. pc'[r] = "none"
      BY <2>3, Zenon DEF Responded
    <3>2. CASE ksta[r] \in {"pending", "sent"}
      BY <2>1, <2>2, <2>3, <3>1, <3>2, ZenonT(60)
    <3>3. CASE ksta[r] \notin {"pending", "sent"}
      <4>1. ksta'[r] = ksta[r]
        BY <2>2, <3>3, Zenon
      <4> QED BY <2>3, <3>1, <4>1, SameState, Zenon
    <3> QED BY <3>2, <3>3, Zenon
  <2>4. CASE pc[r] \in Serving
    <3>1. pc'[r] \in Serving
      BY <2>4, Zenon DEF Serving, Responded
    <3> QED BY <2>1, <2>4, <3>1, Zenon
  <2>5. CASE pc[r] \in Responded
    <3>1. pc'[r] \in Responded /\ (ksta'[r] = "answered" <=> ksta[r] = "answered")
      BY <2>5, <2>2, Zenon
    <3> QED BY <2>1, <2>5, <3>1, Zenon
  <2> QED BY <1>3, <2>3, <2>4, <2>5, Zenon DEF OpStates, Serving, Responded
<1> QED BY <1>4, HangsUp, Zenon DEF KHangup

\* A step that leaves every request where OpLifecycle sees it.
LEMMA NothingSeen ==
    ASSUME RInv, RInv', UNCHANGED <<kind, interrupted>>,
           \A r \in Reqs :
             /\ ctx'[r] = "cancelled" <=> ctx[r] = "cancelled"
             /\ \/ ksta'[r] = ksta[r]
                \/ ksta[r] = "pending" /\ ksta'[r] \in {"sent", "over"}
             /\ \/ pc'[r] = pc[r]
                \/ pc[r] \in Serving /\ pc'[r] \in Serving
                \/ pc[r] \in Responded /\ pc'[r] \in Responded
             /\ ksta[r] = "aborted" /\ pc[r] = "none" => (InHand(r)' <=> InHand(r)),
           kconn' = "down" <=> kconn = "down",
           Destroyed' <=> Destroyed
    PROVE  AStep
<1>1. \A r \in Reqs : AbstractState(r)' = AbstractState(r)
  BY SameState, Zenon
<1> QED BY <1>1, Stutters, Zenon DEF AStep

\* The kernel issues a request.
LEMMA IssueMaps ==
    ASSUME RInv, RInv', NEW r \in Reqs, NEW k \in AllKinds, NEW u \in IDs,
           Issue(r, k, u), UNCHANGED <<cvars, svars>>
    PROVE  AStep
<1>a. /\ ksta \in [Reqs -> KStates] /\ kind \in [Reqs -> AllKinds]
      /\ pc \in [Reqs -> OpStates]
  BY Zenon DEF RInv, IInv, TypeOK, KTypeOK, CTypeOK
<1>b. UNCHANGED <<ctx, pc, rpc, rIn, content, mount>>
  BY Zenon DEF cvars, svars, bufvars, readervars, opvars
<1>1. StatesSeen /\ (RInv' => StatesSeen')
  BY SeenCorrectly, PTL
<1>2. ksta[r] = "unissued" /\ ksta'[r] = "pending" /\ pc[r] = "none" /\ kconn # "down"
  BY <1>a, Zenon DEF RInv, IInv, KernelAgrees, Issue, MayIssue
<1>3. AbstractState(r) = "none" /\ AbstractState(r)' = "queued"
  BY <1>1, <1>2, <1>b, Zenon DEF StatesSeen
<1>4. \A q \in Reqs : q # r => AbstractState(q)' = AbstractState(q)
  BY <1>a, <1>b, SameState, Zenon DEF Issue, InHand
<1>5. [q \in Reqs |-> AbstractState(q)]' =
        [[q \in Reqs |-> AbstractState(q)] EXCEPT ![r] = "queued"]
  BY <1>3, <1>4, OneMoves, Zenon
<1>6. [q \in Reqs |-> kind[q] \notin NoReply]' =
        [[q \in Reqs |-> kind[q] \notin NoReply] EXCEPT ![r] = k \notin NoReply]
  BY <1>a, Zenon DEF Issue
<1>7. [q \in Reqs |-> AbstractState(q)][r] = "none"
  BY <1>3, Zenon
<1>8. {q \in Reqs : ctx[q] = "cancelled"}' = {q \in Reqs : ctx[q] = "cancelled"}
  BY <1>b, Zenon
<1>9. UNCHANGED <<interrupted, kconn, mount>>
  BY <1>b, Zenon DEF Issue
<1>10. Lifecycle!Submit(r, k \notin NoReply)
  BY <1>2, <1>5, <1>6, <1>7, <1>8, <1>9, ZenonT(40) DEF Lifecycle!Submit
<1>11. (k \notin NoReply) \in BOOLEAN
  BY Zenon
<1> QED BY <1>10, <1>11, Zenon DEF AStep, Lifecycle!ANext

\* The kernel interrupts a request.
LEMMA InterruptMaps ==
    ASSUME RInv, RInv', NEW r \in Reqs, Interrupt(r), UNCHANGED <<cvars, svars>>
    PROVE  AStep
<1>a. pc \in [Reqs -> OpStates]
  BY Zenon DEF RInv, IInv, TypeOK, CTypeOK
<1>b. UNCHANGED <<ctx, pc, rpc, rIn, content, mount, ksta, kind, kconn>>
  BY Zenon DEF cvars, svars, bufvars, readervars, opvars, Interrupt
<1>1. ksta[r] = "sent" /\ kind[r] \notin NoReply /\ kconn = "up" /\ r \notin interrupted
  BY Zenon DEF Interrupt
<1>2. pc[r] \notin Responded
  BY <1>1, Zenon DEF RInv, IInv, ReplyAnswersItsRequest
<1>3. AbstractState(r) \in {"queued", "serving"}
  <2>1. StatesSeen!(r)
    BY SeenCorrectly, Zenon DEF StatesSeen
  <2>2. pc[r] = "none" \/ pc[r] \in Serving
    BY <1>a, <1>2, Zenon DEF OpStates, Serving, Responded
  <2> QED BY <1>1, <2>1, <2>2, Zenon
<1>4. \A q \in Reqs : AbstractState(q)' = AbstractState(q)
  BY <1>b, SameState, Zenon DEF InHand
<1>5. [q \in Reqs |-> AbstractState(q)]' = [q \in Reqs |-> AbstractState(q)]
  BY <1>4, Zenon
<1>6. [q \in Reqs |-> kind[q] \notin NoReply]' = [q \in Reqs |-> kind[q] \notin NoReply]
  BY <1>b, Zenon
<1>7. {q \in Reqs : ctx[q] = "cancelled"}' = {q \in Reqs : ctx[q] = "cancelled"}
  BY <1>b, Zenon
<1>8. /\ [q \in Reqs |-> AbstractState(q)][r] \in {"queued", "serving"}
      /\ [q \in Reqs |-> kind[q] \notin NoReply][r]
  BY <1>1, <1>3, Zenon
<1>9. interrupted' = interrupted \cup {r}
  BY Zenon DEF Interrupt
<1>10. Lifecycle!Ask(r)
  BY <1>1, <1>b, <1>5, <1>6, <1>7, <1>8, <1>9, Zenon DEF Lifecycle!Ask
<1> QED BY <1>10, Zenon DEF AStep, Lifecycle!ANext

\* readMessage and getOutMessage: the request in hand is still a queued one.
LEMMA ReadingMaps ==
    ASSUME RInv, RInv', UNCHANGED svars,
           \/ GetInMessage \/ ReadFails \/ GetOutMessage
           \/ \E r \in Reqs : ReadRequest(r) \/ ReadInterrupt(r)
    PROVE  AStep
<1>a. /\ ksta \in [Reqs -> KStates] /\ ReaderLocals /\ rIn \in InMsgs \cup {None}
      /\ content \in [InMsgs -> [req : Reqs \cup {None}, intr : BOOLEAN]]
  BY Zenon DEF RInv, IInv, TypeOK, KTypeOK, CTypeOK
<1>b. UNCHANGED mount
  BY Zenon DEF svars
<1>1. CASE GetInMessage \/ ReadFails
  <2>1. \A r \in Reqs : ~InHand(r) /\ ~InHand(r)'
    BY <1>1, Zenon DEF GetInMessage, ReadFails, InHand
  <2>2. UNCHANGED <<ctx, pc, kconn, kind, ksta, interrupted>>
    BY <1>1, Zenon DEF GetInMessage, ReadFails, kvars, opvars
  <2> QED BY <1>b, <2>1, <2>2, NothingSeen, Zenon DEF Destroyed
<1>2. CASE GetOutMessage
  <2>1. \A r \in Reqs : InHand(r)' <=> InHand(r)
    BY <1>2, Zenon DEF GetOutMessage, InHand
  <2>2. UNCHANGED <<ctx, pc, kconn, kind, ksta, interrupted>>
    BY <1>2, Zenon DEF GetOutMessage, kvars, opvars
  <2> QED BY <1>b, <2>1, <2>2, NothingSeen, Zenon DEF Destroyed
<1>3. ASSUME NEW r \in Reqs, ReadRequest(r)
      PROVE  AStep
  <2>1. \A q \in Reqs : ksta[q] # "aborted"
    BY <1>3, Zenon DEF ReadRequest, KDeliver, RInv, HangupAborts
  <2>2. UNCHANGED <<ctx, pc, kconn, kind, interrupted>>
    BY <1>3, Zenon DEF ReadRequest, ReadInto, KDeliver, opvars
  <2>3. \A q \in Reqs : \/ ksta'[q] = ksta[q]
                        \/ ksta[q] = "pending" /\ ksta'[q] \in {"sent", "over"}
    BY <1>3, <1>a, Zenon DEF ReadRequest, KDeliver
  <2> QED BY <1>b, <2>1, <2>2, <2>3, NothingSeen, Zenon DEF Destroyed
<1>4. ASSUME NEW r \in Reqs, ReadInterrupt(r)
      PROVE  AStep
  <2>1. rIn \in InMsgs /\ rpc = "reading"
    BY <1>4, <1>a, Zenon DEF ReadInterrupt, ReadInto, ReaderLocals
  <2>2. \A q \in Reqs : ~InHand(q) /\ ~InHand(q)'
    BY <1>4, <1>a, <2>1, Zenon DEF ReadInterrupt, ReadInto, InHand
  <2>3. UNCHANGED <<ctx, pc, kconn, kind, ksta, interrupted>>
    BY <1>4, Zenon DEF ReadInterrupt, ReadInto, KDeliverInterrupt, opvars
  <2> QED BY <1>b, <2>2, <2>3, NothingSeen, Zenon DEF Destroyed
<1> QED BY <1>1, <1>2, <1>3, <1>4, Zenon

\* ReadOp gives up on a message: a request the kernel has aborted is dropped.
LEMMA ConvertFailsMaps ==
    ASSUME RInv, RInv', ConvertFails, UNCHANGED svars
    PROVE  AStep
<1>0. PICK r \in Reqs : r = content[rIn].req
  BY Zenon DEF RInv, IInv, MessageRead, ConvertFails
<1>a. /\ pc[r] = "none" /\ ksta[r] \in {"sent", "over", "aborted"}
      /\ rIn \in InMsgs
      /\ content \in [InMsgs -> [req : Reqs \cup {None}, intr : BOOLEAN]]
  BY <1>0, Zenon DEF RInv, IInv, MessageRead, ReaderLocals, ConvertFails, TypeOK, CTypeOK
<1>b. UNCHANGED <<ctx, pc, kconn, kind, ksta, interrupted, mount>>
  BY Zenon DEF ConvertFails, kvars, opvars, svars
<1>1. \A q \in Reqs : (InHand(q) <=> q = r) /\ ~InHand(q)'
  BY <1>0, <1>a DEF InHand, ConvertFails
<1>2. CASE ksta[r] = "aborted"
  <2>1. StatesSeen /\ (RInv' => StatesSeen')
    BY SeenCorrectly, PTL
  <2>2. AbstractState(r) = "queued" /\ AbstractState(r)' = "dropped"
    BY <1>1, <1>2, <1>a, <1>b, <2>1, ZenonT(60) DEF StatesSeen
  <2>3. \A q \in Reqs : q # r => AbstractState(q)' = AbstractState(q)
    BY <1>1, <1>b, SameState, Zenon
  <2>4. kconn' = "down"
    BY <1>2, <1>a, <1>b, Zenon DEF RInv, HangupAborts
  <2> QED BY <1>b, <2>2, <2>3, <2>4, HangsUp, Zenon DEF Destroyed
<1>3. CASE ksta[r] # "aborted"
  BY <1>1, <1>3, <1>b, NothingSeen, Zenon DEF Destroyed
<1> QED BY <1>2, <1>3, Zenon

\* handleInterrupt cancels an op the kernel asked to interrupt, or does nothing.
LEMMA HandleInterruptMaps ==
    ASSUME RInv, RInv', HandleInterrupt, UNCHANGED svars
    PROVE  AStep
<1>a. /\ content[rIn].req \in Reqs /\ uniq \in [Reqs -> IDs] /\ ksta \in [Reqs -> KStates]
      /\ cancelFuncs \in [IDs -> Reqs \cup {None}] /\ pc \in [Reqs -> OpStates]
      /\ ctx \in [Reqs -> {"none", "parent", "live", "cancelled", "finished"}]
  BY Zenon DEF RInv, IInv, MessageRead, HandleInterrupt, TypeOK, KTypeOK, CTypeOK
<1>b. UNCHANGED <<pc, kconn, kind, ksta, interrupted, mount>>
  BY ZenonT(40) DEF HandleInterrupt, kvars, opvars, svars
<1>1. \A q \in Reqs : ~InHand(q) /\ ~InHand(q)'
  BY DEF InHand, HandleInterrupt
<1>2. PICK u \in IDs : u = uniq[content[rIn].req]
  BY <1>a, Zenon
<1>t. PICK t \in Reqs \cup {None} : t = cancelFuncs[u]
  BY <1>a, Zenon
<1>3. t # None => t \in Reqs /\ pc[t] \in Serving
  BY <1>t DEF RInv, IInv, CancelMap, Recorded, Serving
<1>4. ctx' = IF t = None THEN ctx ELSE [ctx EXCEPT ![t] = "cancelled"]
  BY <1>2, <1>t, Zenon DEF HandleInterrupt
<1>5. CASE t = None \/ (t \in Reqs /\ ctx[t] = "cancelled")
  <2>1. \A q \in Reqs : ctx'[q] = "cancelled" <=> ctx[q] = "cancelled"
    BY <1>a, <1>4, <1>5, Zenon
  <2> QED BY <1>1, <1>b, <2>1, NothingSeen, Zenon DEF Destroyed
<1>6. CASE t # None /\ ctx[t] # "cancelled"
  <2>1. \A q \in Reqs : AbstractState(q)' = AbstractState(q)
    BY <1>1, <1>b, SameState, Zenon
  <2>2. [q \in Reqs |-> AbstractState(q)]' = [q \in Reqs |-> AbstractState(q)]
    BY <2>1, Zenon
  <2>3. AbstractState(t) = "serving"
    BY <1>3, <1>6, SeenCorrectly, Zenon DEF StatesSeen
  <2>4. {q \in Reqs : ctx[q] = "cancelled"}' = {q \in Reqs : ctx[q] = "cancelled"} \cup {t}
    BY <1>3, <1>4, <1>6, <1>a, Zenon
  <2>5. t \in interrupted
    <3>1. ctx'[t] = "cancelled"
      BY <1>3, <1>4, <1>6, <1>a, Zenon
    <3> QED BY <3>1, <1>3, <1>6, <1>b, Zenon DEF RInv, IInv, CancelledOnlyIfInterrupted
  <2>6. t \in interrupted \ {q \in Reqs : ctx[q] = "cancelled"}
    BY <2>5, <1>6, Zenon
  <2>7. [q \in Reqs |-> AbstractState(q)][t] = "serving"
    BY <2>3, <1>3, <1>6, Zenon
  <2>8. [q \in Reqs |-> kind[q] \notin NoReply]' = [q \in Reqs |-> kind[q] \notin NoReply]
    BY <1>b, Zenon
  <2>9. Lifecycle!Cancel(t)
    BY <1>b, <2>2, <2>4, <2>6, <2>7, <2>8, Zenon DEF Lifecycle!Cancel
  <2> QED BY <1>3, <1>6, <2>9, Zenon DEF AStep, Lifecycle!ANext
<1> QED BY <1>3, <1>5, <1>6, Zenon

\* beginOp: the request in hand is served.
LEMMA BeginOpMaps ==
    ASSUME RInv, RInv', BeginOp, UNCHANGED svars
    PROVE  AStep
<1>0. PICK r \in Reqs : r = content[rIn].req
  BY Zenon DEF RInv, IInv, MessageRead, BeginOp
<1>a. /\ pc[r] = "none" /\ ksta[r] \in {"sent", "over", "aborted"} /\ ctx[r] # "cancelled"
      /\ rIn \in InMsgs /\ pc \in [Reqs -> OpStates]
      /\ content \in [InMsgs -> [req : Reqs \cup {None}, intr : BOOLEAN]]
      /\ ctx \in [Reqs -> {"none", "parent", "live", "cancelled", "finished"}]
  BY <1>0, ZenonT(40)
  DEF RInv, ContextOfOp, IInv, MessageRead, ReaderLocals, BeginOp, TypeOK, CTypeOK
<1>b. UNCHANGED <<kconn, kind, ksta, interrupted, mount>>
  BY ZenonT(40) DEF BeginOp, kvars, svars
<1>1. \A q \in Reqs : (InHand(q) <=> q = r) /\ ~InHand(q)'
  BY <1>0, <1>a DEF InHand, BeginOp
<1>2. pc' = [pc EXCEPT ![r] = "read"]
  BY <1>0, Zenon DEF BeginOp
<1>3. \A q \in Reqs : ctx'[q] = "cancelled" <=> ctx[q] = "cancelled"
  BY <1>0, <1>a, Zenon DEF BeginOp
<1>4. AbstractState(r) = "queued" /\ AbstractState(r)' = "serving"
  <2>1. StatesSeen /\ (RInv' => StatesSeen')
    BY SeenCorrectly, PTL
  <2>2. pc'[r] \in Serving
    BY <1>2, <1>a, Zenon DEF Serving
  <2>3. ksta[r] # "unissued" /\ InHand(r)
    BY <1>1, <1>a, Zenon
  <2> QED BY <1>a, <2>1, <2>2, <2>3, Zenon DEF StatesSeen
<1>5. \A q \in Reqs : q # r => AbstractState(q)' = AbstractState(q)
  BY <1>1, <1>2, <1>a, <1>b, SameState, Zenon
<1>6. [q \in Reqs |-> AbstractState(q)]' =
        [[q \in Reqs |-> AbstractState(q)] EXCEPT ![r] = "serving"]
  BY <1>4, <1>5, OneMoves, ZenonT(40)
<1>7. [q \in Reqs |-> AbstractState(q)][r] = "queued"
  BY <1>4, Zenon
<1>8. {q \in Reqs : ctx[q] = "cancelled"}' = {q \in Reqs : ctx[q] = "cancelled"}
  BY <1>3, Zenon
<1>9. [q \in Reqs |-> kind[q] \notin NoReply]' = [q \in Reqs |-> kind[q] \notin NoReply]
  BY <1>b, Zenon
<1>10. mount \notin {"destroyed", "closed", "joined"}
  BY Zenon DEF RInv, IInv, WaitGroupCounts, BeginOp
<1>11. Lifecycle!Serve(r)
  BY <1>b, <1>6, <1>7, <1>8, <1>9, <1>10, ZenonT(40) DEF Lifecycle!Serve
<1> QED BY <1>11, Zenon DEF AStep, Lifecycle!ANext

\* Reply writes the answer the kernel waits for, or ends the op without one.
LEMMA RespondMaps ==
    ASSUME RInv, RInv', NEW r \in Reqs, Respond(r), UNCHANGED svars
    PROVE  AStep
<1>a. IInv /\ pc \in [Reqs -> OpStates] /\ pc[r] = "responding"
  BY Zenon DEF RInv, IInv, TypeOK, CTypeOK, Respond
<1>b. UNCHANGED <<ctx, rpc, rIn, content, mount>>
  BY Zenon DEF Respond, bufvars, readervars, svars
<1>c. UNCHANGED <<kind, interrupted>>
  BY <1>a, RespondEffect, Zenon
<1>d. \A q \in Reqs : q # r => ksta'[q] = ksta[q] /\ pc'[q] = pc[q]
  BY <1>a, RespondEffect, Zenon DEF Respond
<1>e. kconn' = "down" <=> kconn = "down"
  BY RespondConn, Zenon
<1>1. StatesSeen /\ (RInv' => StatesSeen')
  BY SeenCorrectly, PTL
<1>2. pc[r] \in Serving /\ pc'[r] \in Responded
  BY <1>a, Zenon DEF Respond, Serving, Responded
<1>3. [q \in Reqs |-> AbstractState(q)][r] = "serving"
  BY <1>1, <1>2, Zenon DEF StatesSeen
<1>4. \A q \in Reqs : q # r => AbstractState(q)' = AbstractState(q)
  BY <1>b, <1>d, SameState, Zenon DEF InHand
<1>5. {q \in Reqs : ctx[q] = "cancelled"}' = {q \in Reqs : ctx[q] = "cancelled"}
  BY <1>b, Zenon
<1>6. [q \in Reqs |-> kind[q] \notin NoReply]' = [q \in Reqs |-> kind[q] \notin NoReply]
  BY <1>c, Zenon
<1>7. (kconn # "down")' = (kconn # "down")
  BY <1>e, Zenon
<1>8. CASE kind[r] \notin NoReply /\ ksta[r] = "sent" /\ ksta'[r] = "answered"
  <2>1. AbstractState(r)' = "answered"
    BY <1>1, <1>2, <1>8, Zenon DEF StatesSeen
  <2>2. [q \in Reqs |-> AbstractState(q)]' =
          [[q \in Reqs |-> AbstractState(q)] EXCEPT ![r] = "answered"]
    BY <1>4, <2>1, OneMoves, Zenon
  <2>3. kconn # "down" /\ [q \in Reqs |-> kind[q] \notin NoReply][r]
    BY <1>8, Zenon DEF RInv, HangupAborts
  <2>4. Lifecycle!Answer(r)
    BY <1>b, <1>c, <1>3, <1>5, <1>6, <1>7, <2>2, <2>3, ZenonT(40) DEF Lifecycle!Answer
  <2> QED BY <2>4, Zenon DEF AStep, Lifecycle!ANext
<1>9. CASE ksta'[r] = ksta[r] /\ (kind[r] \in NoReply \/ ksta[r] = "aborted")
  <2>1. ksta[r] # "answered"
    BY <1>9, <1>a, Zenon DEF IInv, ReplyAnswersItsRequest
  <2>2. AbstractState(r)' = "unanswered"
    BY <1>1, <1>2, <1>9, <2>1, Zenon DEF StatesSeen
  <2>3. [q \in Reqs |-> AbstractState(q)]' =
          [[q \in Reqs |-> AbstractState(q)] EXCEPT ![r] = "unanswered"]
    BY <1>4, <2>2, OneMoves, Zenon
  <2>4. ~(kconn # "down") \/ ~[q \in Reqs |-> kind[q] \notin NoReply][r]
    BY <1>9, Zenon DEF RInv, HangupAborts
  <2>5. Lifecycle!EndUnanswered(r)
    BY <1>b, <1>c, <1>3, <1>5, <1>6, <1>7, <2>3, <2>4, Zenon DEF Lifecycle!EndUnanswered
  <2> QED BY <2>5, Zenon DEF AStep, Lifecycle!ANext
<1> QED BY <1>8, <1>9, <1>a, RespondEffect, Zenon

\* opsInFlight.Wait returns only when every op has ended, after the hangup.
LEMMA DestroyMaps ==
    ASSUME RInv, RInv', Destroy, InFlightCounts
    PROVE  AStep
<1>a. /\ UNCHANGED <<kind, ksta, kconn, interrupted, ctx, pc, rpc, rIn, content>>
      /\ mount = "draining" /\ mount' = "destroyed" /\ opsInFlight = 0
  BY Zenon DEF Destroy, kvars, cvars, bufvars, readervars, opvars
<1>b. pc \in [Reqs -> OpStates] /\ ksta \in [Reqs -> KStates]
  BY Zenon DEF RInv, IInv, TypeOK, KTypeOK, CTypeOK
<1>1. kconn = "down" /\ rpc = "stopped"
  BY <1>a, Zenon DEF RInv, HangupSeen, IInv, WaitGroupCounts
<1>2. InFlight = {}
  BY <1>a, Zenon DEF RInv, IInv, WaitGroupCounts, InFlightCounts
<1>3. \A r \in Reqs : pc[r] \in {"none", "done"}
  BY <1>1, <1>2, <1>b, Zenon DEF InFlight, RInv, IInv, ReaderLocals, OpStates
<1>4. ASSUME NEW r \in Reqs
      PROVE  AbstractState(r) \notin {"queued", "serving"}
  <2>1. StatesSeen!(r)
    BY SeenCorrectly, Zenon DEF StatesSeen
  <2>2. ~InHand(r)
    BY <1>1, Zenon DEF InHand
  <2>3. CASE pc[r] = "none"
    <3>1. ksta[r] \in {"unissued", "aborted"}
      BY <1>1, <1>b, <2>2, <2>3, ZenonT(40)
      DEF RInv, HangupAborts, ForgetInHand, IInv, ReplyAnswersItsRequest, Responded,
          KStates
    <3> QED BY <2>1, <2>2, <2>3, <3>1, Zenon
  <2>4. CASE pc[r] = "done"
    <3>1. pc[r] \in Responded
      BY <2>4, Zenon DEF Responded
    <3> QED BY <2>1, <3>1, Zenon
  <2> QED BY <1>3, <2>3, <2>4, Zenon
<1>5. \A r \in Reqs : AbstractState(r)' = AbstractState(r)
  BY <1>a, SameState, Zenon DEF InHand
<1>6. [q \in Reqs |-> AbstractState(q)]' = [q \in Reqs |-> AbstractState(q)]
  BY <1>5, Zenon
<1>7. {q \in Reqs : ctx[q] = "cancelled"}' = {q \in Reqs : ctx[q] = "cancelled"}
  BY <1>a, Zenon
<1>8. [q \in Reqs |-> kind[q] \notin NoReply]' = [q \in Reqs |-> kind[q] \notin NoReply]
  BY <1>a, Zenon
<1>9. \A r \in Reqs : [q \in Reqs |-> AbstractState(q)][r] \notin {"queued", "serving"}
  BY <1>4, Zenon
<1>10. /\ ~(mount \in {"destroyed", "closed", "joined"})
       /\ (mount \in {"destroyed", "closed", "joined"})' = TRUE
  BY <1>a, Zenon
<1>11. Lifecycle!Destroy
  BY <1>a, <1>1, <1>6, <1>7, <1>8, <1>9, <1>10, Zenon DEF Lifecycle!Destroy
<1> QED BY <1>11, Zenon DEF AStep, Lifecycle!ANext

\* The other steps of an op: its method, finishOp, the callback, the freelists
\* and opsInFlight.Done.
LEMMA OpMaps ==
    ASSUME RInv, RInv', NEW r \in Reqs, Op(r)
    PROVE  AStep
<1>a. pc \in [Reqs -> OpStates]
  BY Zenon DEF RInv, IInv, TypeOK, CTypeOK
<1>1. CASE Respond(r)
  <2>1. UNCHANGED svars
    BY <1>1, Zenon DEF Op, Handle, Done, Respond
  <2> QED BY <1>1, <2>1, RespondMaps, Zenon
<1>2. CASE ~Respond(r)
  <2>1. UNCHANGED <<rpc, rIn, content, mount>>
    BY <1>2, ZenonT(60)
    DEF Op, Handle, Reply, FinishOp, Callback, PutInMessage, PutOutMessage, Done,
        bufvars, readervars, svars
  <2>2. UNCHANGED <<kind, ksta, kconn, interrupted>>
    BY <1>2, OpKernelUnchanged, Zenon DEF kvars
  <2>3. \A q \in Reqs : ctx'[q] = "cancelled" <=> ctx[q] = "cancelled"
    <3>1. UNCHANGED ctx \/ FinishOp(r)
      BY <1>2, ZenonT(60)
      DEF Op, Handle, Reply, Callback, PutInMessage, PutOutMessage, Done
    <3>2. ASSUME FinishOp(r), NEW q \in Reqs
          PROVE  ctx'[q] = "cancelled" <=> ctx[q] = "cancelled"
      BY <3>2, Zenon DEF FinishOp
    <3> QED BY <3>1, <3>2, Zenon
  <2>4. PICK s \in OpStates :
          /\ pc' = [pc EXCEPT ![r] = s]
          /\ \/ pc[r] \in Serving /\ s \in Serving
             \/ pc[r] \in Responded /\ s \in Responded
    BY <1>2, Zenon
    DEF Op, Handle, Reply, FinishOp, Callback, PutInMessage, PutOutMessage, Done,
        OpStates, Serving, Responded
  <2>5. \A q \in Reqs : \/ pc'[q] = pc[q]
                        \/ pc[q] \in Serving /\ pc'[q] \in Serving
                        \/ pc[q] \in Responded /\ pc'[q] \in Responded
    BY <2>4, <1>a, Zenon
  <2> QED BY <2>1, <2>2, <2>3, <2>5, NothingSeen, Zenon DEF InHand, Destroyed
<1> QED BY <1>1, <1>2, Zenon

\* The steps of newConnection, ServeOps and Mount.
LEMMA ReaderMaps ==
    ASSUME RInv, RInv', Reader, InFlightCounts
    PROVE  AStep
<1>a. /\ pc \in [Reqs -> OpStates] /\ rOp \in Reqs \cup {None} /\ ReaderLocals
  BY Zenon DEF RInv, IInv, TypeOK, CTypeOK
<1>1. CASE ReadOp /\ UNCHANGED svars
  BY <1>1, ReadingMaps, ConvertFailsMaps, HandleInterruptMaps, BeginOpMaps, Zenon DEF ReadOp
<1>2. CASE InitOpRead \/ Dispatch
  <2>1. rOp \in Reqs /\ pc[rOp] = "read" /\ pc' = [pc EXCEPT ![rOp] = "handling"]
    BY <1>2, <1>a, Zenon DEF InitOpRead, Dispatch, ReaderLocals
  <2>2. \A q \in Reqs : pc'[q] = pc[q] \/ (pc[q] \in Serving /\ pc'[q] \in Serving)
    BY <2>1, <1>a, Zenon DEF Serving
  <2>3. \A q \in Reqs : ~InHand(q) /\ ~InHand(q)'
    BY <1>2, Zenon DEF InitOpRead, Dispatch, InHand
  <2>4. UNCHANGED <<kind, ksta, kconn, interrupted, ctx, mount>>
    BY <1>2, Zenon DEF InitOpRead, Dispatch, kvars, svars
  <2> QED BY <2>2, <2>3, <2>4, NothingSeen, ZenonT(40) DEF Destroyed
<1>3. CASE InitReturns
  <2>1. rOp \in Reqs /\ pc[rOp] = "replied" /\ pc' = [pc EXCEPT ![rOp] = "done"]
    BY <1>3, <1>a, Zenon DEF InitReturns, ReaderLocals
  <2>2. \A q \in Reqs : pc'[q] = pc[q] \/ (pc[q] \in Responded /\ pc'[q] \in Responded)
    BY <2>1, <1>a, Zenon DEF Responded
  <2>3. \A q \in Reqs : ~InHand(q) /\ ~InHand(q)'
    BY <1>3, Zenon DEF InitReturns, InHand
  <2>4. UNCHANGED ctx /\ ~Destroyed /\ ~Destroyed'
    BY <1>3, Zenon DEF InitReturns, Destroyed
  <2>5. CASE KHangup
    BY <2>2, <2>3, <2>4, <2>5, HangupMaps, Zenon
  <2>6. CASE UNCHANGED kvars
    <3>1. UNCHANGED <<kind, ksta, kconn, interrupted>>
      BY <2>6, Zenon DEF kvars
    <3> QED BY <2>2, <2>3, <2>4, <3>1, NothingSeen, Zenon
  <2> QED BY <1>3, <2>5, <2>6, Zenon DEF InitReturns
<1>4. CASE InitReadFails
  <2>1. \A q \in Reqs : ~InHand(q) /\ ~InHand(q)'
    BY <1>4, Zenon DEF InitReadFails, InHand
  <2>2. UNCHANGED <<ctx, pc>> /\ KHangup /\ ~Destroyed /\ ~Destroyed'
    BY <1>4, Zenon DEF InitReadFails, Destroyed, opvars
  <2> QED BY <2>1, <2>2, HangupMaps, Zenon
<1>5. CASE SyncReturns \/ LoopEnds
  <2>1. \A q \in Reqs : ~InHand(q) /\ ~InHand(q)'
    BY <1>5, Zenon DEF SyncReturns, LoopEnds, InHand
  <2>2. UNCHANGED <<kind, ksta, kconn, interrupted, ctx, pc>> /\ ~Destroyed /\ ~Destroyed'
    BY <1>5, Zenon DEF SyncReturns, LoopEnds, Destroyed, kvars, opvars, svars
  <2> QED BY <2>1, <2>2, NothingSeen, Zenon
<1>6. CASE ServePanics \/ JoinAvailable
  <2>1. UNCHANGED <<kind, ksta, kconn, interrupted, ctx, pc, rpc, rIn, content>>
    BY <1>6, Zenon DEF ServePanics, JoinAvailable, kvars, cvars, bufvars, readervars, opvars
  <2>2. Destroyed' <=> Destroyed
    BY <1>6, Zenon DEF ServePanics, JoinAvailable, Destroyed, svars
  <2> QED BY <2>1, <2>2, NothingSeen, Zenon DEF InHand
<1>7. CASE Destroy
  BY <1>7, DestroyMaps, Zenon
<1>8. CASE Close
  <2>1. UNCHANGED <<ctx, pc, rpc, rIn, content>> /\ KHangup
    BY <1>8, Zenon DEF Close, cvars, bufvars, readervars, opvars
  <2>2. Destroyed /\ Destroyed'
    BY <1>8, Zenon DEF Close, Destroyed
  <2> QED BY <2>1, <2>2, HangupMaps, Zenon DEF InHand
<1> QED BY <1>1, <1>2, <1>3, <1>4, <1>5, <1>6, <1>7, <1>8, Zenon DEF Reader

\* Nothing happens.
LEMMA StutterMaps ==
    ASSUME RInv, RInv', UNCHANGED vars
    PROVE  AStep
<1>1. /\ UNCHANGED <<kind, ksta, kconn, interrupted, ctx, pc, rpc, rIn, content>>
      /\ UNCHANGED mount
  BY Zenon DEF vars, kvars, cvars, svars, bufvars, readervars, opvars
<1> QED BY <1>1, NothingSeen, Zenon DEF InHand, Destroyed

\* The initial state is one of OpLifecycle.
LEMMA InitMaps == Init => Lifecycle!AInit
<1> SUFFICES ASSUME Init PROVE Lifecycle!AInit
  BY Zenon
<1>1. \A r \in Reqs : AbstractState(r) = "none"
  BY Zenon DEF Init, KInit, CInit, AbstractState, Abstract, Responded
<1>2. [r \in Reqs |-> AbstractState(r)] = [r \in Reqs |-> "none"]
  BY <1>1, Zenon
<1>3. [r \in Reqs |-> kind[r] \notin NoReply] = [r \in Reqs |-> TRUE]
  BY Zenon DEF Init, KInit, NoReply
<1>4. {r \in Reqs : ctx[r] = "cancelled"} = {}
  BY Zenon DEF Init, CInit
<1>5. (kconn # "down") = TRUE /\ (mount \in {"destroyed", "closed", "joined"}) = FALSE
  BY DEF Init, KInit
<1>6. interrupted = {}
  BY Zenon DEF Init, KInit
<1> QED BY <1>2, <1>3, <1>4, <1>5, <1>6, Zenon DEF Lifecycle!AInit

\* Every step of the server is one of OpLifecycle, or changes nothing it sees.
LEMMA NextMaps ==
    RInv /\ RInv' /\ [Next]_vars /\ InFlightCounts => AStep
<1> SUFFICES ASSUME RInv, RInv', [Next]_vars, InFlightCounts PROVE AStep
  BY Zenon
<1>1. CASE Kernel
  <2>1. CASE Unmount
    <3>1. UNCHANGED <<ctx, pc, rpc, rIn, content, mount>> /\ KHangup
      BY <1>1, <2>1, Zenon
      DEF Kernel, Unmount, cvars, svars, bufvars, readervars, opvars
    <3> QED BY <3>1, HangupMaps, Zenon DEF InHand, Destroyed
  <2> QED BY <1>1, <2>1, IssueMaps, InterruptMaps, Zenon DEF Kernel
<1>2. CASE Reader
  BY <1>2, ReaderMaps, Zenon
<1>3. ASSUME NEW r \in Reqs, Op(r)
      PROVE  AStep
  BY <1>3, OpMaps, Zenon
<1>4. CASE UNCHANGED vars
  BY <1>4, StutterMaps, Zenon
<1> QED BY <1>1, <1>2, <1>3, <1>4, Zenon DEF Next, Stopped
=============================================================================
