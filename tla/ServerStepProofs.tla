-------------------------- MODULE ServerStepProofs --------------------------
(***************************************************************************)
(* What the steps of FileSystemServer keep: message buffers are never      *)
(* shared, the kernel's view of a request and the server's agree, and a    *)
(* reply settles the request its op was made from.                         *)
(***************************************************************************)
EXTENDS ServerInvariant, TLAPS

\* What is used of the number of ops in flight: that it is one, that it is zero when
\* there are none, and that it changes by one with each.  ServerProofs derives it from
\* the finiteness of Reqs.
InFlightCounts ==
    /\ Cardinality({}) = 0
    /\ Cardinality(InFlight) \in Nat
    /\ Cardinality(InFlight) = 0 => InFlight = {}
    /\ \A r \in Reqs \ InFlight : Cardinality(InFlight \cup {r}) = Cardinality(InFlight) + 1
    /\ \A r \in InFlight : Cardinality(InFlight \ {r}) = Cardinality(InFlight) - 1

-----------------------------------------------------------------------------
(* Freelists *)

\* What Get returns comes from the list or from the fresh addresses.
LEMMA GetsElement ==
    ASSUME NEW S, NEW fl \in Seq(S), NEW fresh \in SUBSET S, NEW p,
           Gets(fl, fresh, p)
    PROVE  p \in S /\ p \in OnList(fl) \cup fresh
<1>1. CASE fl = << >>
  BY <1>1, Zenon DEF Gets
<1>2. CASE fl # << >>
  BY <1>2 DEF Gets, OnList
<1> QED BY <1>1, <1>2, Zenon

\* Get takes one object off a list without duplicates, and only that one.
LEMMA AfterGetList ==
    ASSUME NEW S, NEW fl \in Seq(S), NEW fresh, NEW p, Gets(fl, fresh, p),
           NoDuplicates(fl)
    PROVE  /\ AfterGet(fl) \in Seq(S)
           /\ NoDuplicates(AfterGet(fl))
           /\ OnList(AfterGet(fl)) \subseteq OnList(fl)
           /\ p \notin OnList(AfterGet(fl))
<1>1. CASE fl = << >>
  BY <1>1 DEF Gets, AfterGet, NoDuplicates, OnList
<1>2. CASE fl # << >>
  <2> DEFINE n == Len(fl)
  <2>1. n \in Nat \ {0} /\ p = fl[n] /\ DOMAIN fl = 1 .. n
    BY <1>2 DEF Gets
  <2>2. /\ AfterGet(fl) \in Seq(S)
        /\ DOMAIN AfterGet(fl) = 1 .. n - 1
        /\ \A i \in 1 .. n - 1 : AfterGet(fl)[i] = fl[i]
    BY <1>2, <2>1 DEF AfterGet
  <2> HIDE DEF n
  <2> QED BY <2>1, <2>2 DEF NoDuplicates, OnList
<1> QED BY <1>1, <1>2, Zenon

\* Put adds one object; the list stays without duplicates if it was not on it.
LEMMA AfterPutList ==
    ASSUME NEW S, NEW fl \in Seq(S), NEW p \in S
    PROVE  /\ AfterPut(fl, p) \in Seq(S)
           /\ OnList(AfterPut(fl, p)) = OnList(fl) \cup {p}
           /\ NoDuplicates(fl) /\ p \notin OnList(fl) => NoDuplicates(AfterPut(fl, p))
<1> DEFINE n == Len(fl)
<1>1. /\ n \in Nat /\ DOMAIN fl = 1 .. n
      /\ AfterPut(fl, p) \in Seq(S)
      /\ DOMAIN AfterPut(fl, p) = 1 .. n + 1
      /\ \A i \in 1 .. n : AfterPut(fl, p)[i] = fl[i]
      /\ AfterPut(fl, p)[n + 1] = p
  BY DEF AfterPut
<1> HIDE DEF n
<1>2. 1 .. n + 1 = (1 .. n) \cup {n + 1}
  BY <1>1
<1>3. OnList(AfterPut(fl, p)) = OnList(fl) \cup {p}
  BY <1>1, <1>2 DEF OnList
<1>4. NoDuplicates(fl) /\ p \notin OnList(fl) => NoDuplicates(AfterPut(fl, p))
  BY <1>1, <1>2 DEF NoDuplicates, OnList
<1> QED BY <1>1, <1>3, <1>4, Zenon

-----------------------------------------------------------------------------
(* What steps do not touch *)

\* An op finds its own request in its InMessage for as long as it looks there.
LEMMA HeaderOwn ==
    ASSUME OpMessages, NEW r \in Reqs, pc[r] \in {"finishing", "responding"}
    PROVE  Header(r) = r
<1>1. opIn[r] # None
  BY ZenonT(60) DEF OpMessages
<1>2. content[opIn[r]] = [req |-> r, intr |-> FALSE]
  BY <1>1, Zenon DEF OpMessages
<1> QED BY <1>2 DEF Header

\* Steps that touch neither the reader nor the ops.
Aside == Kernel \/ ServePanics \/ Destroy \/ Close \/ JoinAvailable \/ Stopped

\* What Aside is about.
LEMMA AsideUnchanged ==
    ASSUME Aside
    PROVE  UNCHANGED <<bufvars, cancelFuncs, ctx, readervars, opvars>>
  BY Zenon DEF Aside, Kernel, ServePanics, Destroy, Close, JoinAvailable, Stopped, vars,
         cvars

\* The goroutine of an op moves its own program counter and nothing the reader
\* has; it starts where the op was dispatched.
LEMMA OpMoves ==
    ASSUME TypeOK, NEW r \in Reqs, Op(r)
    PROVE  /\ UNCHANGED <<readervars, content>>
           /\ pc \in [Reqs -> OpStates]
           /\ pc[r] \notin {"none", "read", "done"}
           /\ pc'[r] \notin {"none", "read"}
           /\ pc' = [pc EXCEPT ![r] = pc'[r]]
<1>1. pc \in [Reqs -> OpStates]
  BY Zenon DEF TypeOK, CTypeOK
<1>2. CASE Handle(r) \/ Done(r)
  BY <1>1, <1>2, Zenon DEF Handle, Done, bufvars
<1>3. CASE FinishOp(r) \/ Respond(r) \/ Callback(r)
  BY <1>1, <1>3, Zenon DEF FinishOp, Respond, Callback, bufvars
<1>4. CASE PutInMessage(r) \/ PutOutMessage(r)
  BY <1>1, <1>4, Zenon DEF PutInMessage, PutOutMessage, bufvars
<1> QED BY <1>1, <1>2, <1>3, <1>4, Zenon DEF Op, Reply

-----------------------------------------------------------------------------
(* The reader, the ops and their messages *)

\* Every step keeps the reader's local variables in step with where it is.
LEMMA ReaderLocalsStep ==
    ASSUME IInv, Next
    PROVE  ReaderLocals'
<1>a. TypeOK /\ ReaderLocals /\ MessageRead
  BY Zenon DEF IInv
<1>b. /\ pc \in [Reqs -> OpStates] /\ rOp \in Reqs \cup {None}
      /\ rIn \in InMsgs \cup {None} /\ rOut \in OutMsgs \cup {None}
  BY <1>a, Zenon DEF TypeOK, CTypeOK
<1>c. None \notin Reqs /\ None \notin InMsgs /\ None \notin OutMsgs
  BY ConnectionAssumption, Zenon
<1>1. CASE Aside
  BY <1>1, <1>a, AsideUnchanged, Zenon DEF ReaderLocals, readervars, opvars
<1>2. CASE GetInMessage
  BY <1>2, <1>a, <1>c, Zenon DEF GetInMessage, ReaderLocals, opvars
<1>3. ASSUME NEW r \in Reqs, ReadRequest(r) \/ ReadInterrupt(r)
      PROVE  ReaderLocals'
  BY <1>3, <1>a, Zenon DEF ReadRequest, ReadInterrupt, ReadInto, ReaderLocals, opvars
<1>4. CASE ReadFails
  BY <1>4, <1>a, Zenon DEF ReadFails, ReaderLocals, opvars
<1>5. CASE GetOutMessage
  BY <1>5, <1>a, <1>c, Zenon DEF GetOutMessage, ReaderLocals, opvars
<1>6. CASE ConvertFails \/ HandleInterrupt
  BY <1>6, <1>a, Zenon DEF ConvertFails, HandleInterrupt, ReaderLocals, opvars
<1>7. CASE BeginOp
  <2>1. content[rIn].req \in Reqs
    BY <1>7, <1>a, Zenon DEF BeginOp, MessageRead
  <2> QED BY <1>7, <1>a, <1>b, <1>c, <2>1, Zenon DEF BeginOp, ReaderLocals
<1>8. CASE InitOpRead \/ Dispatch
  BY <1>8, <1>a, <1>b, Zenon DEF InitOpRead, Dispatch, ReaderLocals
<1>9. CASE InitReturns \/ SyncReturns
  BY <1>9, <1>a, <1>b, Zenon DEF InitReturns, SyncReturns, ReaderLocals, opvars
<1>10. CASE InitReadFails \/ LoopEnds
  BY <1>10, <1>a, Zenon DEF InitReadFails, LoopEnds, ReaderLocals, opvars
<1>11. ASSUME NEW r \in Reqs, Op(r)
       PROVE  ReaderLocals'
  BY <1>11, <1>a, <1>b, OpMoves, ZenonT(40) DEF ReaderLocals, readervars
<1> QED
  BY <1>1, <1>2, <1>3, <1>4, <1>5, <1>6, <1>7, <1>8, <1>9, <1>10, <1>11, Zenon
  DEF Next, Reader, ReadOp, Aside

\* Every step leaves each op the messages it was given, with its request in them:
\* only the reader writes to an InMessage, and the one it writes to is its own.
LEMMA OpMessagesStep ==
    ASSUME IInv, Next
    PROVE  OpMessages'
<1>a. TypeOK /\ ReaderLocals /\ OpMessages /\ BuffersExclusive /\ MessageRead
  BY Zenon DEF IInv
<1>b. /\ pc \in [Reqs -> OpStates] /\ rOp \in Reqs \cup {None}
      /\ opIn \in [Reqs -> InMsgs \cup {None}]
      /\ opOut \in [Reqs -> OutMsgs \cup {None}]
      /\ content \in [InMsgs -> [req : Reqs \cup {None}, intr : BOOLEAN]]
      /\ rIn \in InMsgs \cup {None} /\ rOut \in OutMsgs \cup {None}
  BY <1>a, Zenon DEF TypeOK, CTypeOK
<1>1. CASE Aside
  BY <1>1, <1>a, AsideUnchanged, ZenonT(60) DEF OpMessages, bufvars, opvars
<1>2. CASE GetInMessage \/ ReadFails \/ GetOutMessage \/ ConvertFails \/ HandleInterrupt
  BY <1>2, <1>a, ZenonT(60)
  DEF GetInMessage, ReadFails, GetOutMessage, ConvertFails, HandleInterrupt,
      OpMessages, bufvars, opvars
<1>3. ASSUME NEW r \in Reqs, ReadRequest(r) \/ ReadInterrupt(r)
      PROVE  OpMessages'
  <2>1. \A q \in Reqs : opIn[q] # None => opIn[q] # rIn
    BY <1>a, Zenon DEF BuffersExclusive, HoldsIn
  <2>2. \A q \in Reqs : opIn[q] # None => content'[opIn[q]] = content[opIn[q]]
    BY <1>3, <1>b, <2>1, Zenon DEF ReadRequest, ReadInterrupt, ReadInto
  <2> QED BY <1>3, <1>a, <2>2, ZenonT(60)
          DEF ReadRequest, ReadInterrupt, ReadInto, OpMessages, opvars
<1>4. CASE BeginOp
  <2> DEFINE r == content[rIn].req
  <2>1. r \in Reqs /\ rIn \in InMsgs /\ rOut \in OutMsgs
    BY <1>4, <1>a, <1>b, Zenon DEF BeginOp, MessageRead, ReaderLocals
  <2>2. content[rIn] = [req |-> r, intr |-> FALSE]
    BY <1>4, <1>b, <2>1, Zenon DEF BeginOp
  <2>3. /\ pc' = [pc EXCEPT ![r] = "read"] /\ opIn' = [opIn EXCEPT ![r] = rIn]
        /\ opOut' = [opOut EXCEPT ![r] = rOut] /\ content' = content
    BY <1>4, Zenon DEF BeginOp, bufvars
  <2> HIDE DEF r
  <2> QED
    BY <2>1, <2>2, <2>3, <1>a, <1>b, ConnectionAssumption, ZenonT(60)
    DEF OpMessages
<1>5. CASE InitOpRead \/ Dispatch
  BY <1>5, <1>a, <1>b, ZenonT(60)
  DEF InitOpRead, Dispatch, ReaderLocals, OpMessages, bufvars
<1>6. CASE InitReturns \/ SyncReturns
  BY <1>6, <1>a, <1>b, ZenonT(60)
  DEF InitReturns, SyncReturns, ReaderLocals, OpMessages, bufvars, opvars
<1>7. CASE InitReadFails \/ LoopEnds
  BY <1>7, <1>a, ZenonT(60) DEF InitReadFails, LoopEnds, OpMessages, bufvars, opvars
<1>8. ASSUME NEW r \in Reqs, Handle(r) \/ Done(r) \/ FinishOp(r) \/ Respond(r) \/ Callback(r)
      PROVE  OpMessages'
  BY <1>8, <1>a, <1>b, ZenonT(60)
  DEF Handle, Done, FinishOp, Respond, Callback, OpMessages, bufvars, HasCallback
<1>9. ASSUME NEW r \in Reqs, PutInMessage(r) \/ PutOutMessage(r)
      PROVE  OpMessages'
  BY <1>9, <1>a, <1>b, ZenonT(60) DEF PutInMessage, PutOutMessage, OpMessages
<1> QED
  BY <1>1, <1>2, <1>3, <1>4, <1>5, <1>6, <1>7, <1>8, <1>9, Zenon
  DEF Next, Reader, ReadOp, Op, Reply, Aside

\* Half of BuffersExclusive, for one kind of message: fl is the freelist, b the
\* reader's message and f the messages of the ops.
Exclusive(fl, b, f) ==
    /\ NoDuplicates(fl)
    /\ b # None => b \notin OnList(fl)
    /\ \A r \in Reqs : f[r] # None => f[r] # b /\ f[r] \notin OnList(fl)
    /\ \A r, q \in Reqs : r # q /\ f[r] # None => f[r] # f[q]

\* BuffersExclusive says the same of InMessages and of OutMessages.
LEMMA ExclusiveHalves ==
    BuffersExclusive <=> Exclusive(inFree, rIn, opIn) /\ Exclusive(outFree, rOut, opOut)
  BY Zenon DEF BuffersExclusive, Exclusive, InHeld, OutHeld, HoldsIn, HoldsOut

\* The four ways a message moves: from the list to the reader, back, to an op,
\* and from an op back to the list.
LEMMA ExclusiveMoves ==
    ASSUME NEW S, None \notin S, NEW fl \in Seq(S), NEW b \in S \cup {None},
           NEW f \in [Reqs -> S \cup {None}], Exclusive(fl, b, f)
    PROVE  /\ \A p : Gets(fl, S \ (({b} \cup {f[r] : r \in Reqs}) \ {None}), p)
                       => Exclusive(AfterGet(fl), p, f)
           /\ b # None => Exclusive(AfterPut(fl, b), None, f)
           /\ Exclusive(fl, None, f)
           /\ \A r \in Reqs : b # None => Exclusive(fl, None, [f EXCEPT ![r] = b])
           /\ \A r \in Reqs : f[r] # None =>
                Exclusive(AfterPut(fl, f[r]), b, [f EXCEPT ![r] = None])
<1>1. ASSUME NEW p, Gets(fl, S \ (({b} \cup {f[r] : r \in Reqs}) \ {None}), p)
      PROVE  Exclusive(AfterGet(fl), p, f)
  <2>1. p \in S /\ p \in OnList(fl) \cup (S \ (({b} \cup {f[r] : r \in Reqs}) \ {None}))
    BY <1>1, GetsElement
  <2>2. /\ NoDuplicates(AfterGet(fl)) /\ OnList(AfterGet(fl)) \subseteq OnList(fl)
        /\ p \notin OnList(AfterGet(fl))
    BY <1>1, AfterGetList, Zenon DEF Exclusive
  <2>3. \A r \in Reqs : f[r] # None => f[r] # p
    BY <2>1, Zenon DEF Exclusive
  <2> QED BY <2>2, <2>3, Zenon DEF Exclusive
<1>2. ASSUME b # None
      PROVE  Exclusive(AfterPut(fl, b), None, f)
  BY <1>2, AfterPutList DEF Exclusive
<1>3. Exclusive(fl, None, f)
  BY Zenon DEF Exclusive
<1>4. ASSUME NEW r \in Reqs, b # None
      PROVE  Exclusive(fl, None, [f EXCEPT ![r] = b])
  BY <1>4, Zenon DEF Exclusive
<1>5. ASSUME NEW r \in Reqs, f[r] # None
      PROVE  Exclusive(AfterPut(fl, f[r]), b, [f EXCEPT ![r] = None])
  <2>1. f[r] \in S
    BY <1>5, Zenon
  <2> QED BY <1>5, <2>1, AfterPutList DEF Exclusive
<1> QED BY <1>1, <1>2, <1>3, <1>4, <1>5, Zenon

\* Every step of the reader and of Reply moves messages in one of those ways.
LEMMA BuffersExclusiveStep ==
    ASSUME IInv, Next
    PROVE  BuffersExclusive'
<1>a. TypeOK /\ ReaderLocals /\ OpMessages /\ BuffersExclusive /\ MessageRead
  BY Zenon DEF IInv
<1>b. /\ inFree \in Seq(InMsgs) /\ outFree \in Seq(OutMsgs)
      /\ rIn \in InMsgs \cup {None} /\ rOut \in OutMsgs \cup {None}
      /\ opIn \in [Reqs -> InMsgs \cup {None}]
      /\ opOut \in [Reqs -> OutMsgs \cup {None}]
      /\ None \notin InMsgs /\ None \notin OutMsgs
  BY <1>a, ConnectionAssumption, Zenon DEF TypeOK, CTypeOK
<1>c. Exclusive(inFree, rIn, opIn) /\ Exclusive(outFree, rOut, opOut)
  BY <1>a, ExclusiveHalves, Zenon
<1>d. SUFFICES Exclusive(inFree, rIn, opIn)' /\ Exclusive(outFree, rOut, opOut)'
  BY ExclusiveHalves, PTL
<1>e. ASSUME UNCHANGED <<inFree, rIn, opIn>>
      PROVE  Exclusive(inFree, rIn, opIn)'
  BY <1>c, <1>e, Zenon DEF Exclusive
<1>f. ASSUME UNCHANGED <<outFree, rOut, opOut>>
      PROVE  Exclusive(outFree, rOut, opOut)'
  BY <1>c, <1>f, Zenon DEF Exclusive
<1>1. CASE Aside
  BY <1>1, <1>e, <1>f, AsideUnchanged, Zenon DEF bufvars, readervars, opvars
<1>2. CASE GetInMessage
  <2>1. PICK p \in InMsgs : Gets(inFree, InMsgs \ InHeld, p) /\ rIn' = p
    BY <1>2, Zenon DEF GetInMessage
  <2>2. Exclusive(AfterGet(inFree), p, opIn)
    BY <1>b, <1>c, <2>1, ExclusiveMoves, Zenon DEF InHeld
  <2> QED BY <1>2, <1>f, <2>1, <2>2, Zenon DEF GetInMessage, opvars
<1>3. ASSUME NEW r \in Reqs, ReadRequest(r) \/ ReadInterrupt(r)
      PROVE  Exclusive(inFree, rIn, opIn)' /\ Exclusive(outFree, rOut, opOut)'
  BY <1>3, <1>e, <1>f, Zenon DEF ReadRequest, ReadInterrupt, ReadInto, opvars
<1>4. CASE ReadFails
  <2>1. Exclusive(AfterPut(inFree, rIn), None, opIn)
    BY <1>4, <1>a, <1>b, <1>c, ExclusiveMoves, Zenon DEF ReadFails, ReaderLocals
  <2> QED BY <1>4, <1>f, <2>1, Zenon DEF ReadFails, opvars
<1>5. CASE GetOutMessage
  <2>1. PICK p \in OutMsgs : Gets(outFree, OutMsgs \ OutHeld, p) /\ rOut' = p
    BY <1>5, Zenon DEF GetOutMessage
  <2>2. Exclusive(AfterGet(outFree), p, opOut)
    BY <1>b, <1>c, <2>1, ExclusiveMoves, Zenon DEF OutHeld
  <2> QED BY <1>5, <1>e, <2>1, <2>2, Zenon DEF GetOutMessage, opvars
<1>6. CASE ConvertFails
  <2>1. Exclusive(AfterPut(outFree, rOut), None, opOut)
    BY <1>6, <1>a, <1>b, <1>c, ExclusiveMoves, Zenon DEF ConvertFails, ReaderLocals
  <2>2. Exclusive(inFree, None, opIn)
    BY <1>b, <1>c, ExclusiveMoves, Zenon
  <2> QED BY <1>6, <2>1, <2>2, Zenon DEF ConvertFails, opvars
<1>7. CASE HandleInterrupt
  <2>1. Exclusive(inFree, None, opIn) /\ Exclusive(outFree, None, opOut)
    BY <1>b, <1>c, ExclusiveMoves, Zenon
  <2> QED BY <1>7, <2>1, Zenon DEF HandleInterrupt, opvars, bufvars
<1>8. CASE BeginOp
  <2> DEFINE r == content[rIn].req
  <2>1. r \in Reqs /\ rIn # None /\ rOut # None
    BY <1>8, <1>a, Zenon DEF BeginOp, MessageRead, ReaderLocals
  <2>2. Exclusive(inFree, None, [opIn EXCEPT ![r] = rIn])
    BY <1>b, <1>c, <2>1, ExclusiveMoves, ZenonT(60)
  <2>3. Exclusive(outFree, None, [opOut EXCEPT ![r] = rOut])
    BY <1>b, <1>c, <2>1, ExclusiveMoves, ZenonT(60)
  <2> QED BY <1>8, <2>2, <2>3, Zenon DEF BeginOp, bufvars
<1>9. CASE InitOpRead \/ InitReturns \/ InitReadFails \/ Dispatch \/ SyncReturns \/ LoopEnds
  BY <1>9, <1>e, <1>f, Zenon
  DEF InitOpRead, InitReturns, InitReadFails, Dispatch, SyncReturns, LoopEnds,
      bufvars, opvars
<1>10. ASSUME NEW r \in Reqs, Handle(r) \/ Done(r) \/ FinishOp(r) \/ Respond(r) \/ Callback(r)
       PROVE  Exclusive(inFree, rIn, opIn)' /\ Exclusive(outFree, rOut, opOut)'
  BY <1>10, <1>e, <1>f, Zenon
  DEF Handle, Done, FinishOp, Respond, Callback, bufvars, readervars
<1>11. ASSUME NEW r \in Reqs, PutInMessage(r)
       PROVE  Exclusive(inFree, rIn, opIn)' /\ Exclusive(outFree, rOut, opOut)'
  <2>1. opIn[r] # None
    BY <1>11, <1>a, ZenonT(60) DEF PutInMessage, OpMessages
  <2>2. Exclusive(AfterPut(inFree, opIn[r]), rIn, [opIn EXCEPT ![r] = None])
    BY <1>b, <1>c, <2>1, ExclusiveMoves, ZenonT(60)
  <2> QED BY <1>11, <1>f, <2>2, Zenon DEF PutInMessage, readervars
<1>12. ASSUME NEW r \in Reqs, PutOutMessage(r)
       PROVE  Exclusive(inFree, rIn, opIn)' /\ Exclusive(outFree, rOut, opOut)'
  <2>1. opOut[r] # None
    BY <1>12, <1>a, ZenonT(60) DEF PutOutMessage, OpMessages
  <2>2. Exclusive(AfterPut(outFree, opOut[r]), rOut, [opOut EXCEPT ![r] = None])
    BY <1>b, <1>c, <2>1, ExclusiveMoves, ZenonT(60)
  <2> QED BY <1>12, <1>e, <2>2, Zenon DEF PutOutMessage, readervars
<1> QED
  BY <1>1, <1>2, <1>3, <1>4, <1>5, <1>6, <1>7, <1>8, <1>9, <1>10, <1>11, <1>12, ZenonT(40)
  DEF Next, Reader, ReadOp, Op, Reply, Aside

-----------------------------------------------------------------------------
(* Replies *)

\* The write in Reply settles the op's own request and no other: here the
\* distinctness of live IDs and the op's hold on its InMessage come together.
LEMMA RespondEffect ==
    ASSUME IInv, NEW r \in Reqs, Respond(r)
    PROVE  /\ UNCHANGED <<kind, uniq, interrupted>>
           /\ intr' \subseteq intr
           /\ \A q \in Reqs : q # r => ksta'[q] = ksta[q]
           /\ kind[r] \in NoReply => UNCHANGED ksta
           /\ kind[r] \notin NoReply =>
                \/ ksta[r] = "sent" /\ ksta'[r] = "answered" /\ r \notin intr'
                \/ ksta[r] = "aborted" /\ UNCHANGED ksta
<1>a. TypeOK /\ OpMessages /\ KernelAgrees /\ ReplyAnswersItsRequest
  BY Zenon DEF IInv
<1>b. ksta \in [Reqs -> KStates]
  BY <1>a, Zenon DEF TypeOK, KTypeOK
<1>1. CASE kind[r] \in NoReply
  BY <1>1, Zenon DEF Respond, kvars
<1>2. CASE kind[r] \notin NoReply
  <2>1. Header(r) = r
    BY <1>a, HeaderOwn, Zenon DEF Respond
  <2>2. ksta[r] \in {"sent", "aborted"}
    BY <1>2, <1>a, KernelAssumption, Zenon
    DEF Respond, KernelAgrees, ReplyAnswersItsRequest, Responded
  <2>3. KWrite(uniq[r], kind[r] = "init")
    BY <1>2, <2>1, Zenon DEF Respond
  <2>4. \A q \in Reqs : Matches(q, uniq[r]) => q = r /\ ksta[r] = "sent"
    BY <2>2, <1>a, Zenon DEF Matches, KernelAgrees
  <2>5. CASE ksta[r] = "sent"
    <3>1. Matches(r, uniq[r])
      BY <1>2, <2>5, Zenon DEF Matches, Outstanding
    <3> QED BY <1>2, <1>b, <2>3, <2>4, <2>5, <3>1, Zenon DEF KWrite
  <2>6. CASE ksta[r] = "aborted"
    <3>1. \A q \in Reqs : ~Matches(q, uniq[r])
      BY <2>4, <2>6, Zenon
    <3> QED BY <1>2, <2>3, <2>6, <3>1, Zenon DEF KWrite, kvars
  <2> QED BY <2>2, <2>5, <2>6, Zenon
<1> QED BY <1>1, <1>2, Zenon

\* No other step of an op concerns the kernel.
LEMMA OpKernelUnchanged ==
    ASSUME NEW r \in Reqs, Op(r), ~Respond(r)
    PROVE  UNCHANGED kvars
  BY Zenon DEF Op, Handle, Reply, FinishOp, Callback, PutInMessage, PutOutMessage, Done

-----------------------------------------------------------------------------
(* Requests and ops *)

\* What the reader has read stays a request without op, or an interrupt of a
\* request that was interrupted.
LEMMA MessageReadStep ==
    ASSUME IInv, Next
    PROVE  MessageRead'
<1>a. TypeOK /\ ReaderLocals /\ MessageRead /\ KernelAgrees
  BY Zenon DEF IInv
<1>b. /\ pc \in [Reqs -> OpStates] /\ rOp \in Reqs \cup {None}
      /\ content \in [InMsgs -> [req : Reqs \cup {None}, intr : BOOLEAN]]
      /\ rIn \in InMsgs \cup {None} /\ ksta \in [Reqs -> KStates]
  BY <1>a, Zenon DEF TypeOK, KTypeOK, CTypeOK
<1>1. ASSUME rpc' \notin {"converting", "converted"}
      PROVE  MessageRead'
  BY <1>1, Zenon DEF MessageRead
<1>2. CASE Kernel
  <2>1. UNCHANGED <<rpc, rIn, content, pc>>
    BY <1>2, Zenon DEF Kernel, cvars, bufvars, readervars, opvars
  <2>2. interrupted \subseteq interrupted'
    BY <1>2, Zenon DEF Kernel, Issue, Interrupt, Unmount, KHangup
  <2>3. \A q \in Reqs : ksta[q] \in {"sent", "over", "aborted"}
                          => ksta'[q] \in {"sent", "over", "aborted"}
    BY <1>2, <1>b, Zenon DEF Kernel, Issue, Interrupt, Unmount, KHangup
  <2> QED BY <1>a, <2>1, <2>2, <2>3, Zenon DEF MessageRead
<1>3. ASSUME NEW r \in Reqs, ReadRequest(r)
      PROVE  MessageRead'
  <2>1. rIn' \in InMsgs /\ content'[rIn'] = [req |-> r, intr |-> FALSE]
    BY <1>3, <1>a, <1>b, Zenon DEF ReadRequest, ReadInto, ReaderLocals
  <2>2. pc'[r] = "none"
    BY <1>3, <1>a, Zenon DEF ReadRequest, KDeliver, KernelAgrees, ReadInto, opvars
  <2>3. ksta'[r] \in {"sent", "over"}
    BY <1>3, <1>b, Zenon DEF ReadRequest, KDeliver
  <2> QED BY <2>1, <2>2, <2>3 DEF MessageRead
<1>4. ASSUME NEW r \in Reqs, ReadInterrupt(r)
      PROVE  MessageRead'
  <2>1. rIn' \in InMsgs /\ content'[rIn'] = [req |-> r, intr |-> TRUE]
    BY <1>4, <1>a, <1>b, Zenon DEF ReadInterrupt, ReadInto, ReaderLocals
  <2>2. r \in interrupted'
    BY <1>4, <1>a, Zenon DEF ReadInterrupt, KDeliverInterrupt, KernelAgrees
  <2> QED BY <2>1, <2>2 DEF MessageRead
<1>5. CASE GetOutMessage
  BY <1>5, <1>a, Zenon DEF GetOutMessage, MessageRead, kvars, opvars
<1>6. CASE GetInMessage \/ ReadFails \/ ConvertFails \/ HandleInterrupt \/ BeginOp
  BY <1>6, <1>1, Zenon DEF GetInMessage, ReadFails, ConvertFails, HandleInterrupt, BeginOp
<1>7. CASE \/ InitOpRead \/ InitReturns \/ InitReadFails \/ Dispatch \/ SyncReturns
           \/ LoopEnds
  BY <1>7, <1>1, ZenonT(40)
  DEF InitOpRead, InitReturns, InitReadFails, Dispatch, SyncReturns, LoopEnds
<1>8. CASE ServePanics \/ Destroy \/ JoinAvailable \/ Stopped
  BY <1>8, <1>a
  DEF ServePanics, Destroy, JoinAvailable, Stopped, MessageRead, vars, kvars, cvars,
      bufvars, readervars, opvars
<1>9. CASE Close
  BY <1>9, <1>a, <1>b, Zenon
  DEF Close, KHangup, MessageRead, cvars, bufvars, readervars, opvars
<1>10. ASSUME NEW r \in Reqs, Op(r)
       PROVE  MessageRead'
  <2>1. \A q \in Reqs : pc[q] = "none" => pc'[q] = "none"
    BY <1>10, <1>a, <1>b, OpMoves, Zenon
  <2>2. UNCHANGED <<rpc, rIn, content, interrupted>>
    BY <1>10, <1>a, OpMoves, RespondEffect, OpKernelUnchanged, Zenon DEF readervars, kvars
  <2>3. \A q \in Reqs : pc[q] = "none" => ksta'[q] = ksta[q]
    BY <1>10, RespondEffect, OpKernelUnchanged, Zenon DEF kvars, Respond
  <2> QED BY <1>a, <2>1, <2>2, <2>3, Zenon DEF MessageRead
<1> QED
  BY <1>2, <1>3, <1>4, <1>5, <1>6, <1>7, <1>8, <1>9, <1>10, Zenon
  DEF Next, Reader, ReadOp

\* Kernel and ops stay in agreement, and live IDs distinct.
LEMMA KernelAgreesStep ==
    ASSUME IInv, Next
    PROVE  KernelAgrees'
<1>a. TypeOK /\ ReaderLocals /\ MessageRead /\ KernelAgrees
  BY Zenon DEF IInv
<1>b. /\ pc \in [Reqs -> OpStates] /\ rOp \in Reqs \cup {None}
      /\ ksta \in [Reqs -> KStates] /\ kind \in [Reqs -> AllKinds]
      /\ uniq \in [Reqs -> IDs] /\ intr \subseteq Reqs /\ interrupted \subseteq Reqs
  BY <1>a, Zenon DEF TypeOK, KTypeOK, CTypeOK
<1> DEFINE NoneBegins == \A q \in Reqs : pc'[q] # "none" => pc[q] # "none"
<1>1. ASSUME UNCHANGED kvars, NoneBegins
      PROVE  KernelAgrees'
  BY <1>1, <1>a, Zenon DEF KernelAgrees, kvars
<1>2. ASSUME KHangup, NoneBegins
      PROVE  KernelAgrees'
  BY <1>2, <1>a, <1>b DEF KernelAgrees, KHangup
<1>3. CASE Kernel
  <2>1. NoneBegins
    BY <1>3, Zenon DEF Kernel, cvars, opvars
  <2>2. ASSUME NEW r \in Reqs, NEW k \in AllKinds, NEW u \in IDs, Issue(r, k, u)
        PROVE  KernelAgrees'
    <3>1. \A q \in Reqs : ksta[q] \in {"pending", "sent", "aborted"} => uniq[q] # u
      BY <2>2, Zenon DEF Issue, IDInUse
    <3>2. pc[r] = "none" /\ r \notin intr /\ r \notin interrupted
      BY <2>2, <1>a, Zenon DEF Issue, KernelAgrees
    <3>3. /\ kind' = [kind EXCEPT ![r] = k] /\ uniq' = [uniq EXCEPT ![r] = u]
          /\ ksta' = [ksta EXCEPT ![r] = "pending"] /\ intr' = intr
          /\ interrupted' = interrupted
      BY <2>2, Zenon DEF Issue
    <3> QED BY <1>a, <1>b, <2>1, <3>1, <3>2, <3>3 DEF KernelAgrees
  <2>3. ASSUME NEW r \in Reqs, Interrupt(r)
        PROVE  KernelAgrees'
    BY <2>1, <2>3, <1>a, Zenon DEF Interrupt, KernelAgrees
  <2> QED BY <1>2, <1>3, <2>1, <2>2, <2>3, Zenon DEF Kernel, Unmount
<1>4. ASSUME NEW r \in Reqs, ReadRequest(r)
      PROVE  KernelAgrees'
  <2>1. UNCHANGED <<pc, kind, uniq, intr, interrupted>>
    BY <1>4, Zenon DEF ReadRequest, KDeliver, ReadInto, opvars
  <2>2. /\ ksta[r] = "pending"
        /\ ksta' = [ksta EXCEPT ![r] =
                      IF kind[r] \in ReusedAtOnce THEN "over" ELSE "sent"]
    BY <1>4, Zenon DEF ReadRequest, KDeliver
  <2> QED BY <1>a, <1>b, <2>1, <2>2 DEF KernelAgrees
<1>5. ASSUME NEW r \in Reqs, ReadInterrupt(r)
      PROVE  KernelAgrees'
  BY <1>5, <1>a, Zenon
  DEF ReadInterrupt, KDeliverInterrupt, ReadInto, KernelAgrees, opvars
<1>6. CASE GetInMessage \/ ReadFails \/ GetOutMessage \/ ConvertFails \/ HandleInterrupt
  BY <1>6, <1>1, Zenon
  DEF GetInMessage, ReadFails, GetOutMessage, ConvertFails, HandleInterrupt, opvars
<1>7. CASE BeginOp
  <2> DEFINE r == content[rIn].req
  <2>1. r \in Reqs /\ ksta[r] \in {"sent", "over", "aborted"}
    BY <1>7, <1>a, Zenon DEF BeginOp, MessageRead
  <2>2. UNCHANGED kvars /\ pc' = [pc EXCEPT ![r] = "read"]
    BY <1>7, Zenon DEF BeginOp
  <2> HIDE DEF r
  <2> QED BY <1>a, <1>b, <2>1, <2>2, Zenon DEF KernelAgrees, kvars
<1>8. CASE InitOpRead \/ Dispatch \/ InitReturns
  <2>1. NoneBegins
    BY <1>8, <1>a, <1>b, Zenon DEF InitOpRead, Dispatch, InitReturns, ReaderLocals
  <2> QED BY <1>8, <1>1, <1>2, <2>1, Zenon DEF InitOpRead, Dispatch, InitReturns
<1>9. CASE \/ InitReadFails \/ SyncReturns \/ LoopEnds \/ ServePanics \/ Destroy
           \/ Close \/ JoinAvailable \/ Stopped
  <2>1. NoneBegins
    BY <1>9, Zenon
    DEF InitReadFails, SyncReturns, LoopEnds, ServePanics, Destroy, Close,
        JoinAvailable, Stopped, vars, cvars, opvars
  <2> QED
    BY <1>9, <1>1, <1>2, <2>1, Zenon
    DEF InitReadFails, SyncReturns, LoopEnds, ServePanics, Destroy, Close,
        JoinAvailable, Stopped, vars
<1>10. ASSUME NEW r \in Reqs, Respond(r)
       PROVE  KernelAgrees'
  <2>1. NoneBegins
    BY <1>10, <1>b, Zenon DEF Respond
  <2> QED BY <1>10, <1>a, <1>b, <2>1, RespondEffect DEF KernelAgrees
<1>11. ASSUME NEW r \in Reqs, Op(r), ~Respond(r)
       PROVE  KernelAgrees'
  <2>1. NoneBegins
    BY <1>11, <1>b, Zenon
    DEF Op, Handle, Reply, FinishOp, Callback, PutInMessage, PutOutMessage, Done
  <2> QED BY <1>1, <1>11, <2>1, OpKernelUnchanged, Zenon
<1> QED
  BY <1>3, <1>4, <1>5, <1>6, <1>7, <1>8, <1>9, <1>10, <1>11, ZenonT(40) DEF Next, Reader, ReadOp

\* Respond sends only ops with a Callback there.
LEMMA CallbackOpsStep ==
    ASSUME IInv, Next
    PROVE  CallbackOps'
<1>a. TypeOK /\ ReaderLocals /\ MessageRead /\ KernelAgrees /\ CallbackOps
  BY Zenon DEF IInv
<1>b. /\ pc \in [Reqs -> OpStates] /\ rOp \in Reqs \cup {None}
      /\ kind \in [Reqs -> AllKinds]
  BY <1>a, SMTT(60) DEF TypeOK, KTypeOK, CTypeOK
<1>1. ASSUME UNCHANGED kind,
             \A q \in Reqs : pc'[q] = "callback" => pc[q] = "callback"
      PROVE  CallbackOps'
  BY <1>1, <1>a, Zenon DEF CallbackOps, HasCallback
<1>2. CASE Kernel
  <2>1. UNCHANGED pc
    BY <1>2, Zenon DEF Kernel, cvars, opvars
  <2>2. ASSUME NEW r \in Reqs, NEW k \in AllKinds, NEW u \in IDs, Issue(r, k, u)
        PROVE  CallbackOps'
    <3>1. pc[r] = "none" /\ kind' = [kind EXCEPT ![r] = k]
      BY <2>2, <1>a, Zenon DEF Issue, KernelAgrees
    <3> QED BY <1>a, <1>b, <2>1, <3>1, Zenon DEF CallbackOps, HasCallback
  <2>3. CASE Unmount \/ \E r \in Reqs : Interrupt(r)
    BY <1>1, <2>1, <2>3, Zenon DEF Unmount, KHangup, Interrupt
  <2> QED BY <1>2, <2>2, <2>3, Zenon DEF Kernel
<1>3. CASE ReadOp
  <2>1. UNCHANGED kind
    BY <1>3, ZenonT(60)
    DEF ReadOp, GetInMessage, ReadRequest, ReadInterrupt, KDeliver, KDeliverInterrupt,
        ReadFails, GetOutMessage, ConvertFails, HandleInterrupt, BeginOp, kvars
  <2>2. CASE BeginOp
    <3>1. PICK q0 : pc' = [pc EXCEPT ![q0] = "read"]
      BY <2>2, Zenon DEF BeginOp
    <3>2. \A q \in Reqs : pc'[q] = "callback" => pc[q] = "callback"
      BY <1>b, <3>1, Zenon
    <3> QED BY <1>1, <2>1, <3>2, Zenon
  <2>3. CASE ~BeginOp
    BY <1>1, <1>3, <2>1, <2>3, Zenon
    DEF ReadOp, GetInMessage, ReadRequest, ReadInterrupt, ReadInto, ReadFails,
        GetOutMessage, ConvertFails, HandleInterrupt, opvars
  <2> QED BY <2>2, <2>3, Zenon
<1>4. CASE InitOpRead \/ Dispatch \/ InitReturns
  BY <1>1, <1>4, <1>b, Zenon DEF InitOpRead, Dispatch, InitReturns, KHangup, kvars
<1>5. CASE \/ InitReadFails \/ SyncReturns \/ LoopEnds \/ ServePanics \/ Destroy
           \/ Close \/ JoinAvailable \/ Stopped
  BY <1>1, <1>5, ZenonT(60)
  DEF InitReadFails, SyncReturns, LoopEnds, ServePanics, Destroy, Close,
      JoinAvailable, Stopped, vars, cvars, kvars, opvars, KHangup
<1>6. ASSUME NEW r \in Reqs, Respond(r)
      PROVE  CallbackOps'
  <2>1. \A q \in Reqs : pc'[q] = "callback" => pc[q] = "callback" \/ HasCallback(q)
    BY <1>6, <1>b, Zenon DEF Respond
  <2> QED BY <1>6, <1>a, <2>1, RespondEffect, Zenon DEF CallbackOps, HasCallback
<1>7. ASSUME NEW r \in Reqs, Op(r), ~Respond(r)
      PROVE  CallbackOps'
  <2>1. \A q \in Reqs : pc'[q] = "callback" => pc[q] = "callback"
    BY <1>7, <1>b, ZenonT(40)
    DEF Op, Handle, Reply, FinishOp, Callback, PutInMessage, PutOutMessage, Done
  <2> QED BY <1>1, <1>7, <2>1, OpKernelUnchanged, Zenon DEF kvars
<1> QED
  BY <1>2, <1>3, <1>4, <1>5, <1>6, <1>7, Zenon DEF Next, Reader

\* Only Respond answers a request, and it answers its own.
LEMMA ReplyAnswersItsRequestStep ==
    ASSUME IInv, Next
    PROVE  ReplyAnswersItsRequest'
<1>a. /\ TypeOK /\ ReaderLocals /\ MessageRead /\ KernelAgrees
      /\ ReplyAnswersItsRequest
  BY Zenon DEF IInv
<1>b. /\ pc \in [Reqs -> OpStates] /\ rOp \in Reqs \cup {None}
      /\ ksta \in [Reqs -> KStates] /\ kind \in [Reqs -> AllKinds]
  BY <1>a, SMTT(60) DEF TypeOK, KTypeOK, CTypeOK
<1> DEFINE SameProgress == \A q \in Reqs : pc'[q] \in Responded <=> pc[q] \in Responded
<1>1. ASSUME UNCHANGED kvars, SameProgress
      PROVE  ReplyAnswersItsRequest'
  BY <1>1, <1>a, Zenon DEF ReplyAnswersItsRequest, kvars
<1>2. ASSUME KHangup, SameProgress
      PROVE  ReplyAnswersItsRequest'
  BY <1>2, <1>a, <1>b, Zenon DEF ReplyAnswersItsRequest, KHangup
<1>3. CASE Kernel
  <2>1. UNCHANGED pc
    BY <1>3, Zenon DEF Kernel, cvars, opvars
  <2>2. ASSUME NEW r \in Reqs, NEW k \in AllKinds, NEW u \in IDs, Issue(r, k, u)
        PROVE  ReplyAnswersItsRequest'
    <3>1. pc[r] = "none"
      BY <2>2, <1>a, Zenon DEF Issue, KernelAgrees
    <3>2. /\ kind' = [kind EXCEPT ![r] = k]
          /\ ksta' = [ksta EXCEPT ![r] = "pending"]
      BY <2>2, Zenon DEF Issue
    <3> QED BY <1>a, <1>b, <2>1, <3>1, <3>2, Zenon DEF ReplyAnswersItsRequest, Responded
  <2>3. ASSUME NEW r \in Reqs, Interrupt(r)
        PROVE  ReplyAnswersItsRequest'
    BY <2>1, <2>3, <1>a, Zenon DEF Interrupt, ReplyAnswersItsRequest
  <2> QED BY <1>2, <1>3, <2>1, <2>2, <2>3, Zenon DEF Kernel, Unmount
<1>4. ASSUME NEW r \in Reqs, ReadRequest(r)
      PROVE  ReplyAnswersItsRequest'
  <2>1. UNCHANGED <<pc, kind>>
    BY <1>4, Zenon DEF ReadRequest, KDeliver, ReadInto, opvars
  <2>2. /\ ksta[r] = "pending"
        /\ ksta' = [ksta EXCEPT ![r] =
                      IF kind[r] \in ReusedAtOnce THEN "over" ELSE "sent"]
    BY <1>4, Zenon DEF ReadRequest, KDeliver
  <2>3. pc[r] = "none"
    BY <1>a, <2>2, ZenonT(40) DEF KernelAgrees
  <2> QED BY <1>a, <1>b, <2>1, <2>2, <2>3, Zenon DEF ReplyAnswersItsRequest, Responded
<1>5. ASSUME NEW r \in Reqs, ReadInterrupt(r)
      PROVE  ReplyAnswersItsRequest'
  BY <1>5, <1>a, SMTT(60)
  DEF ReadInterrupt, KDeliverInterrupt, ReadInto, ReplyAnswersItsRequest, opvars
<1>6. CASE GetInMessage \/ ReadFails \/ GetOutMessage \/ ConvertFails \/ HandleInterrupt
  BY <1>6, <1>1, ZenonT(60)
  DEF GetInMessage, ReadFails, GetOutMessage, ConvertFails, HandleInterrupt, opvars
<1>7. CASE BeginOp
  <2>1. SameProgress
    BY <1>7, <1>a, <1>b, Zenon DEF BeginOp, MessageRead, Responded
  <2> QED BY <1>7, <1>1, <2>1, Zenon DEF BeginOp
<1>8. CASE InitOpRead \/ Dispatch \/ InitReturns
  <2>1. SameProgress
    BY <1>8, <1>a, <1>b, Zenon DEF InitOpRead, Dispatch, InitReturns, ReaderLocals, Responded
  <2> QED BY <1>8, <1>1, <1>2, <2>1, Zenon DEF InitOpRead, Dispatch, InitReturns
<1>9. CASE \/ InitReadFails \/ SyncReturns \/ LoopEnds \/ ServePanics \/ Destroy
           \/ Close \/ JoinAvailable \/ Stopped
  <2>1. SameProgress
    BY <1>9, Zenon
    DEF InitReadFails, SyncReturns, LoopEnds, ServePanics, Destroy, Close,
        JoinAvailable, Stopped, vars, cvars, opvars
  <2> QED
    BY <1>9, <1>1, <1>2, <2>1, Zenon
    DEF InitReadFails, SyncReturns, LoopEnds, ServePanics, Destroy, Close,
        JoinAvailable, Stopped, vars
<1>10. ASSUME NEW r \in Reqs, Respond(r)
       PROVE  ReplyAnswersItsRequest'
  <2>1. /\ pc[r] \notin Responded /\ pc'[r] \in Responded
        /\ \A q \in Reqs : q # r => pc'[q] = pc[q]
    BY <1>10, <1>b, Zenon DEF Respond, Responded
  <2> QED BY <1>10, <1>a, <2>1, RespondEffect, Zenon DEF ReplyAnswersItsRequest
<1>11. ASSUME NEW r \in Reqs, Op(r), ~Respond(r)
       PROVE  ReplyAnswersItsRequest'
  <2>1. SameProgress
    BY <1>11, <1>b, Zenon
    DEF Op, Handle, Reply, FinishOp, Callback, PutInMessage, PutOutMessage, Done,
        Responded
  <2> QED BY <1>1, <1>11, <2>1, OpKernelUnchanged, Zenon
<1> QED
  BY <1>3, <1>4, <1>5, <1>6, <1>7, <1>8, <1>9, <1>10, <1>11, Zenon DEF Next, Reader, ReadOp
=============================================================================
