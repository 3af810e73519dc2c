------------------------- MODULE SampleHandleProofs ------------------------
(***************************************************************************)
(* The sample file systems that answer from state which changes behind the *)
(* kernel's back, each with an inductive invariant: the handles of         *)
(* dynamicfs, the ops that interruptfs holds up, and the IDs and times     *)
(* that cachingfs lets the kernel cache.                                   *)
(***************************************************************************)
EXTENDS DynamicFS, InterruptFS, CachingFS, FiniteSetTheorems, WellFoundedInduction, TLAPS

-----------------------------------------------------------------------------
(* dynamicfs *)

\* A nonempty set of natural numbers has a least element.
LEMMA LeastNatural ==
    ASSUME NEW S \in SUBSET Nat, S # {}
    PROVE  \E n \in S : \A m \in S : n <= m
<1>1. PICK n \in S : \A m \in S : ~ (<<m, n>> \in OpToRel(<, Nat))
  BY NatLessThanWellFounded, WFMin, Zenon
<1>2. ASSUME NEW m \in S, m < n PROVE FALSE
  <2>1. <<m, n>> \in Nat \X Nat /\ <<m, n>>[1] < <<m, n>>[2]
    BY <1>2, Zenon
  <2>2. <<m, n>> \in {ss \in Nat \X Nat : ss[1] < ss[2]}
    BY <2>1, Zenon
  <2> QED
    BY <1>1, <2>2, Zenon DEF OpToRel
<1> QED
  BY <1>2

\* Counting from a, one comes to every number modulo H within H steps.
LEMMA Rotation ==
    ASSUME NEW H \in Nat \ {0}, NEW a \in 0 .. H - 1, NEW b \in 0 .. H - 1
    PROVE  \E i \in 0 .. H - 1 : (a + i) % H = b
<1>1. CASE a <= b
  <2>1. b % H = b
    OBVIOUS
  <2>2. b - a \in 0 .. H - 1 /\ a + (b - a) = b
    BY <1>1
  <2> QED
    BY <2>1, <2>2, Zenon
<1>2. CASE b < a
  <2>1. (H + b) % H = b
    OBVIOUS
  <2>2. b - a + H \in 0 .. H - 1 /\ a + (b - a + H) = H + b
    BY <1>2
  <2> QED
    BY <2>1, <2>2, Zenon
<1> QED
  BY <1>1, <1>2

\* While fewer handles are in use than there are, findUnusedHandle returns one
\* that is not in use, wherever the search begins.
LEMMA UnusedHandle ==
    ASSUME NEW handle \in 0 .. HandleRange - 1,
           DOMAIN fileHandles \subseteq 0 .. HandleRange - 1,
           Cardinality(DOMAIN fileHandles) < HandleRange
    PROVE  FindUnusedHandle(handle) \in (0 .. HandleRange - 1) \ DOMAIN fileHandles
<1> DEFINE handles == 0 .. HandleRange - 1
           at(i) == (handle + i) % HandleRange
           free == {i \in handles : at(i) \notin DOMAIN fileHandles}
           first(i) == at(i) \notin DOMAIN fileHandles /\ \A j \in 0 .. i - 1 : at(j) \in DOMAIN fileHandles
<1>1. PICK k \in handles : k \notin DOMAIN fileHandles
  <2>1. CASE DOMAIN fileHandles = handles
    <3>1. Cardinality(handles) = HandleRange
      BY DynamicFSAssumption, FS_Interval
    <3> QED
      BY <2>1, <3>1, DynamicFSAssumption
  <2> QED
    BY <2>1, Zenon
<1>2. \A i \in handles : at(i) \in handles
  BY DynamicFSAssumption
<1>3. \E i \in handles : at(i) = k
  BY Rotation, DynamicFSAssumption, Zenon
<1>4. FindUnusedHandle(handle) = at(CHOOSE i \in handles : first(i))
  BY Zenon DEF FindUnusedHandle
<1> HIDE DEF at
<1>5. free # {} /\ free \in SUBSET Nat
  BY <1>1, <1>3
<1>6. PICK n \in free : \A m \in free : n <= m
  BY <1>5, LeastNatural, Zenon
<1>7. \A j \in 0 .. n - 1 : j \in handles /\ j \notin free
  BY <1>6, DynamicFSAssumption
<1>8. n \in handles /\ first(n)
  BY <1>6, <1>7, Zenon
<1> HIDE DEF first
<1>9. first(CHOOSE i \in handles : first(i)) /\ (CHOOSE i \in handles : first(i)) \in handles
  BY <1>8, Zenon
<1> QED
  BY <1>2, <1>4, <1>9, Zenon DEF first

\* The files of dynamicfs, and what a reader may be doing.
DynNames == {"none", "age", "weekday"}
ReaderRecords == [handle : Int, file : DynNames, opened : Nat, read : DynNames \X Nat]

\* What makes DynSnapshot inductive: an open reader's handle is in use, holds its
\* snapshot, and is nobody else's, nor one that is about to be released.
DynInv ==
    /\ clock \in Nat /\ nextHandle \in 0 .. HandleRange - 1
    /\ DOMAIN fileHandles \subseteq 0 .. HandleRange - 1
    /\ releasing \subseteq DOMAIN fileHandles
    /\ reader \in [Readers -> ReaderRecords]
    /\ \A r \in Readers : reader[r] # NoHandle =>
         /\ reader[r].handle \in DOMAIN fileHandles \ releasing
         /\ fileHandles[reader[r].handle] = Contents(reader[r].file, reader[r].opened)
         /\ \A q \in Readers : reader[q].handle = reader[r].handle => q = r
    /\ DynSnapshot

\* The initial state satisfies the invariant of DynamicFS.
LEMMA DynStart == DynInit => DynInv
<1> SUFFICES ASSUME DynInit PROVE DynInv
  BY Zenon
<1>1. NoHandle \in ReaderRecords
  BY DEF NoHandle, ReaderRecords, DynNames, Contents
<1>2. DOMAIN fileHandles = {} /\ \A r \in Readers : reader[r] = NoHandle
  BY Zenon DEF DynInit
<1>3. DynSnapshot
  BY <1>2, Zenon DEF DynInit, DynSnapshot
<1>4. reader \in [Readers -> ReaderRecords]
  BY <1>1, Zenon DEF DynInit
<1>5. clock \in Nat /\ nextHandle \in 0 .. HandleRange - 1 /\ releasing = {}
  BY DynamicFSAssumption DEF DynInit
<1> QED
  BY <1>2, <1>3, <1>4, <1>5, Zenon DEF DynInv

\* Every step of the readers and of the clock keeps its invariant.
LEMMA DynStep == DynInv /\ [DynNext]_dynVars => DynInv'
<1> SUFFICES ASSUME DynInv, [DynNext]_dynVars PROVE DynInv'
  BY Zenon
<1>1. CASE Tick
  BY <1>1 DEF Tick, DynInv, DynSnapshot
<1>2. ASSUME NEW r \in Readers, Cardinality(DOMAIN fileHandles) < HandleRange,
             NEW name \in {"age", "weekday"}, DynOpenFile(r, name)
      PROVE  DynInv'
  <2> DEFINE h == FindUnusedHandle(nextHandle)
             new == [handle |-> h, file |-> name, opened |-> clock, read |-> Contents(name, clock)]
  <2>1. h \in (0 .. HandleRange - 1) \ DOMAIN fileHandles
    BY <1>2, UnusedHandle, Zenon DEF DynInv
  <2>2. /\ reader[r] = NoHandle
        /\ nextHandle' = (h + 1) % HandleRange
        /\ fileHandles' = [k \in DOMAIN fileHandles \cup {h} |->
                             IF k = h THEN Contents(name, clock) ELSE fileHandles[k]]
        /\ reader' = [reader EXCEPT ![r] = new]
        /\ UNCHANGED <<clock, releasing, badRelease>>
    BY <1>2, Zenon DEF DynOpenFile
  <2> HIDE DEF h
  <2>3. /\ new \in ReaderRecords /\ new # NoHandle /\ new.handle = h /\ new.file = name
        /\ new.opened = clock /\ new.read = Contents(name, clock)
    BY <2>1, DynamicFSAssumption DEF DynInv, ReaderRecords, DynNames, Contents, NoHandle
  <2> HIDE DEF new
  <2>4. /\ reader' \in [Readers -> ReaderRecords]
        /\ \A q \in Readers : reader'[q] = IF q = r THEN new ELSE reader[q]
    BY <2>2, <2>3, Zenon DEF DynInv
  <2>5. nextHandle' \in 0 .. HandleRange - 1
    <3>1. h + 1 \in Int /\ HandleRange \in Nat /\ HandleRange > 0
      BY <2>1, DynamicFSAssumption
    <3>2. \A x \in Int : x % HandleRange \in 0 .. HandleRange - 1
      BY <3>1
    <3> QED
      BY <2>2, <3>1, <3>2, Zenon
  <2>6. /\ DOMAIN fileHandles' = DOMAIN fileHandles \cup {h}
        /\ fileHandles'[h] = Contents(name, clock)
        /\ \A k \in DOMAIN fileHandles : fileHandles'[k] = fileHandles[k]
    BY <2>1, <2>2, Zenon
  <2>7. \A q \in Readers \ {r} : reader[q].handle # h
    <3> SUFFICES ASSUME NEW q \in Readers \ {r} PROVE reader[q].handle # h
      BY Zenon
    <3>1. CASE reader[q] = NoHandle
      BY <2>1, <3>1, DynamicFSAssumption DEF NoHandle
    <3>2. CASE reader[q] # NoHandle
      BY <2>1, <3>2, ZenonT(40) DEF DynInv
    <3> QED
      BY <3>1, <3>2, Zenon
  <2>8. \A q \in Readers : reader'[q] # NoHandle =>
          /\ reader'[q].handle \in DOMAIN fileHandles' \ releasing'
          /\ fileHandles'[reader'[q].handle] = Contents(reader'[q].file, reader'[q].opened)
          /\ \A p \in Readers : reader'[p].handle = reader'[q].handle => p = q
    BY <2>1, <2>2, <2>3, <2>4, <2>6, <2>7 DEF DynInv
  <2>9. DynSnapshot'
    BY <2>2, <2>3, <2>4, ZenonT(40) DEF DynInv, DynSnapshot
  <2> QED
    BY <2>1, <2>2, <2>4, <2>5, <2>6, <2>8, <2>9, Zenon DEF DynInv
<1>3. ASSUME NEW r \in Readers, DynReadFile(r) PROVE DynInv'
  <2> DEFINE new == [reader[r] EXCEPT !.read = fileHandles[reader[r].handle]]
  <2>1. /\ reader[r] # NoHandle /\ reader' = [reader EXCEPT ![r] = new]
        /\ UNCHANGED <<clock, nextHandle, fileHandles, releasing, badRelease>>
    BY <1>3, Zenon DEF DynReadFile, DynInv
  <2>2. /\ new \in ReaderRecords /\ new.handle = reader[r].handle /\ new.file = reader[r].file
        /\ new.opened = reader[r].opened /\ new.read = Contents(reader[r].file, reader[r].opened)
    BY <2>1 DEF DynInv, ReaderRecords, Contents
  <2> HIDE DEF new
  <2>3. /\ reader' \in [Readers -> ReaderRecords]
        /\ \A q \in Readers : reader'[q] = IF q = r THEN new ELSE reader[q]
    BY <2>1, <2>2, Zenon DEF DynInv
  <2>4. DynSnapshot'
    BY <2>1, <2>2, <2>3, Zenon DEF DynInv, DynSnapshot
  <2> QED
    BY <2>1, <2>2, <2>3, <2>4 DEF DynInv
<1>4. ASSUME NEW r \in Readers, DynClose(r) PROVE DynInv'
  <2>1. NoHandle \in ReaderRecords /\ NoHandle.handle = -1
    BY DEF NoHandle, ReaderRecords, DynNames, Contents
  <2>2. /\ reader[r] # NoHandle /\ reader' = [reader EXCEPT ![r] = NoHandle]
        /\ releasing' = releasing \cup {reader[r].handle}
        /\ UNCHANGED <<clock, nextHandle, fileHandles, badRelease>>
    BY <1>4, Zenon DEF DynClose
  <2>3. /\ reader' \in [Readers -> ReaderRecords]
        /\ \A q \in Readers : reader'[q] = IF q = r THEN NoHandle ELSE reader[q]
    BY <2>1, <2>2, Zenon DEF DynInv
  <2>4. DynSnapshot'
    BY <2>2, <2>3, Zenon DEF DynInv, DynSnapshot
  <2>5. releasing' \subseteq DOMAIN fileHandles'
    BY <2>2, ZenonT(40) DEF DynInv
  <2>6. \A q \in Readers : reader'[q] # NoHandle =>
          /\ reader'[q].handle \in DOMAIN fileHandles' \ releasing'
          /\ fileHandles'[reader'[q].handle] = Contents(reader'[q].file, reader'[q].opened)
          /\ \A p \in Readers : reader'[p].handle = reader'[q].handle => p = q
    BY <2>1, <2>2, <2>3, DynamicFSAssumption DEF DynInv
  <2> QED
    BY <2>2, <2>3, <2>4, <2>5, <2>6, ZenonT(40) DEF DynInv
<1>5. ASSUME NEW h \in releasing, DynRelease(h) PROVE DynInv'
  <2>1. /\ releasing' = releasing \ {h} /\ badRelease' = FALSE
        /\ fileHandles' = [k \in DOMAIN fileHandles \ {h} |-> fileHandles[k]]
        /\ UNCHANGED <<clock, nextHandle, reader>>
    BY <1>5, Zenon DEF DynRelease, DynInv
  <2>2. DynSnapshot'
    BY <2>1, Zenon DEF DynInv, DynSnapshot
  <2> QED
    BY <2>1, <2>2, Zenon DEF DynInv
<1>6. CASE UNCHANGED dynVars
  BY <1>6, Zenon DEF dynVars, DynInv, DynSnapshot
<1> QED
  BY <1>1, <1>2, <1>3, <1>4, <1>5, <1>6, Zenon DEF DynNext

-----------------------------------------------------------------------------
(* interruptfs *)

\* What makes HangsUntilInterrupted and WaitsForArrival inductive: blocking stays
\* enabled, so that an op called under it meets it, one call at a time is under the
\* lock, and there a call that is about to close a channel finds it open.
CallRecords ==
    [kind : HeldKinds \cup {"none"}, at : Places, shouldBlock : BOOLEAN,
     cancelled : BOOLEAN, must : BOOLEAN, result : {"none", "OK", "ctx.Err"}]

CallsKeepOrder ==
    \A c \in Callers :
      /\ caller[c].at = "user" <=> caller[c].kind = "none"
      /\ caller[c].at = "sent" /\ caller[c].must => blockFor[caller[c].kind]
      /\ caller[c].at \in UnderLock /\ caller[c].must => caller[c].shouldBlock

OneUnderLock ==
    /\ \A c \in Callers, d \in Callers : c \in mu /\ d \in mu => c = d
    /\ \A c \in Callers : caller[c].at \in UnderLock => c \in mu

Arrived == {"signalled", "blocked", "done"}

SignalsTell ==
    /\ \A c \in Callers : /\ caller[c].at = "closing" => ~received[caller[c].kind]
                          /\ caller[c].at \in Arrived => received[caller[c].kind]
    /\ \A k \in HeldKinds :
         /\ waiter[k] = "returned" => received[k]
         /\ received[k] => \E c \in Callers : caller[c].kind = k /\ caller[c].at \in Arrived

IntrInv ==
    /\ IntrTypeOK /\ caller \in [Callers -> CallRecords] /\ ~closedAgain
    /\ CallsKeepOrder /\ OneUnderLock /\ SignalsTell /\ HangsUntilInterrupted

\* The invariant tells what the test waits for.
LEMMA SignalsAreArrivals == IntrInv => WaitsForArrival
BY Zenon DEF IntrInv, SignalsTell, WaitsForArrival, Arrived

\* The initial state satisfies the invariant of InterruptFS.
LEMMA IntrStart == IntrInit => IntrInv
<1> SUFFICES ASSUME IntrInit PROVE IntrInv
  BY Zenon
<1>1. Unborn \in CallRecords /\ Unborn.at = "user" /\ Unborn.kind = "none"
  BY Zenon DEF Unborn, CallRecords, Places
<1>2. /\ caller \in [Callers -> CallRecords]
      /\ \A c \in Callers : caller[c].at = "user" /\ caller[c].kind = "none"
  BY <1>1, Zenon DEF IntrInit
<1>3. IntrTypeOK /\ ~closedAgain
  BY <1>2, Zenon DEF IntrInit, IntrTypeOK, Places
<1>4. CallsKeepOrder /\ OneUnderLock /\ HangsUntilInterrupted
  BY <1>2, ZenonT(40) DEF IntrInit, CallsKeepOrder, OneUnderLock, HangsUntilInterrupted, UnderLock
<1>5. SignalsTell
  BY <1>2 DEF IntrInit, SignalsTell, Arrived
<1> QED
  BY <1>2, <1>3, <1>4, <1>5, Zenon DEF IntrInv

\* Every step of the ops, of the tests and of the interrupts keeps its invariant.
LEMMA IntrStep == IntrInv /\ [IntrNext]_intrVars => IntrInv'
<1> SUFFICES ASSUME IntrInv, [IntrNext]_intrVars PROVE IntrInv'
  BY Zenon
<1>1. ASSUME NEW k \in HeldKinds, EnableBlocking(k) PROVE IntrInv'
  BY <1>1 DEF EnableBlocking, IntrInv, CallsKeepOrder, OneUnderLock, SignalsTell, IntrTypeOK, HangsUntilInterrupted
<1>2. ASSUME NEW k \in HeldKinds, WaitForFirst(k) PROVE IntrInv'
  BY <1>2 DEF WaitForFirst, IntrInv, CallsKeepOrder, OneUnderLock, SignalsTell, IntrTypeOK, HangsUntilInterrupted
<1>3. ASSUME NEW c \in Callers, NEW k \in HeldKinds, IntrCall(c, k) PROVE IntrInv'
  <2> DEFINE new == [Unborn EXCEPT !.kind = k, !.at = "sent", !.must = blockFor[k]]
  <2>0. new \in CallRecords /\ new.kind = k /\ new.at = "sent" /\ new.must = blockFor[k]
    BY Zenon DEF IntrInv, IntrTypeOK, CallRecords, Unborn, HeldKinds, Places
  <2>1. /\ caller[c].at = "user" /\ caller' = [caller EXCEPT ![c] = new]
        /\ UNCHANGED <<blockFor, received, mu, waiter, closedAgain>>
    BY <1>3 DEF IntrCall, Unborn
  <2> HIDE DEF new
  <2>2. /\ caller' \in [Callers -> CallRecords]
        /\ \A d \in Callers : caller'[d] = IF d = c THEN new ELSE caller[d]
    BY <2>0, <2>1 DEF IntrInv
  <2>3. IntrTypeOK'
    BY <2>1, <2>2 DEF IntrInv, IntrTypeOK, CallRecords
  <2>4. HangsUntilInterrupted'
    BY <2>0, <2>2, ZenonT(40) DEF IntrInv, HangsUntilInterrupted
  <2>5. OneUnderLock'
    BY <2>0, <2>1, <2>2, ZenonT(40) DEF IntrInv, OneUnderLock, UnderLock
  <2>6. SignalsTell'
    BY <2>0, <2>1, <2>2 DEF IntrInv, SignalsTell, Arrived
  <2>7. CallsKeepOrder'
    BY <2>0, <2>1, <2>2, ZenonT(40) DEF IntrInv, CallsKeepOrder, HeldKinds, UnderLock
  <2> QED
    BY <2>1, <2>2, <2>3, <2>4, <2>5, <2>6, <2>7, Zenon DEF IntrInv
<1>4. ASSUME NEW c \in Callers, IntrCancel(c) PROVE IntrInv'
  <2>0. PICK r \in CallRecords : r = caller[c]
    BY Zenon DEF IntrInv
  <2> DEFINE new == [r EXCEPT !.cancelled = TRUE]
  <2>a. /\ new \in CallRecords /\ new.kind = r.kind /\ new.at = r.at /\ new.must = r.must
        /\ new.shouldBlock = r.shouldBlock
    BY Zenon DEF CallRecords
  <2>b. caller' = [caller EXCEPT ![c] = new] /\ caller \in [Callers -> CallRecords]
    BY <1>4, <2>0, Zenon DEF IntrCancel, IntrInv
  <2> HIDE DEF new
  <2>1. /\ caller' \in [Callers -> CallRecords]
        /\ \A d \in Callers \ {c} : caller'[d] = caller[d]
    BY <2>a, <2>b, Zenon
  <2>2. /\ caller'[c].kind = caller[c].kind /\ caller'[c].at = caller[c].at
        /\ caller'[c].must = caller[c].must /\ caller'[c].shouldBlock = caller[c].shouldBlock
        /\ caller[c].at # "done"
    BY <1>4, <2>0, <2>a, <2>b, Zenon DEF IntrCancel
  <2>3. UNCHANGED <<blockFor, received, mu, waiter, closedAgain>>
    BY <1>4, Zenon DEF IntrCancel
  <2>4. IntrTypeOK' /\ HangsUntilInterrupted'
    BY <2>1, <2>2, <2>3 DEF IntrInv, IntrTypeOK, HangsUntilInterrupted, CallRecords
  <2>5. SignalsTell'
    BY <2>1, <2>2, <2>3 DEF IntrInv, SignalsTell
  <2>6. OneUnderLock' /\ CallsKeepOrder'
    BY <2>1, <2>2, <2>3 DEF IntrInv, CallsKeepOrder, OneUnderLock
  <2> QED
    BY <2>1, <2>3, <2>4, <2>5, <2>6, Zenon DEF IntrInv
<1>5. ASSUME NEW c \in Callers, IntrLock(c) PROVE IntrInv'
  <2> DEFINE k == caller[c].kind
  <2>0. k \in HeldKinds /\ caller[c].at = "sent" /\ caller[c] \in CallRecords
    BY <1>5, Zenon DEF IntrLock, IntrInv, CallsKeepOrder, CallRecords
  <2> DEFINE new == [caller[c] EXCEPT !.at = "locked", !.shouldBlock = blockFor[k]]
  <2>a. new \in CallRecords
    BY <2>0, Zenon DEF CallRecords, Places, UnderLock, IntrInv, IntrTypeOK
  <2>b. caller' = [caller EXCEPT ![c] = new]
    BY <1>5, Zenon DEF IntrLock, ShouldBlock
  <2> HIDE DEF new
  <2>1. /\ caller' \in [Callers -> CallRecords]
        /\ \A d \in Callers \ {c} : caller'[d] = caller[d]
    BY <2>a, <2>b, Zenon DEF IntrInv
  <2>2. /\ caller'[c].kind = k /\ caller'[c].must = caller[c].must
        /\ caller'[c].at = "locked" /\ caller'[c].shouldBlock = blockFor[k]
    BY <1>5, ZenonT(40) DEF IntrLock, ShouldBlock, IntrInv, CallRecords
  <2>3. UNCHANGED <<blockFor, received, waiter, closedAgain>> /\ mu = {} /\ mu' = {c}
    BY <1>5, Zenon DEF IntrLock
  <2>4. IntrTypeOK'
    BY <2>1, <2>3, Zenon DEF IntrInv, IntrTypeOK, CallRecords
  <2>5. HangsUntilInterrupted'
    BY <2>1, <2>2 DEF IntrInv, HangsUntilInterrupted
  <2>6. SignalsTell'
    BY <2>0, <2>1, <2>2, <2>3 DEF IntrInv, SignalsTell, Arrived
  <2>7. CallsKeepOrder'
    BY <2>0, <2>1, <2>2, <2>3 DEF IntrInv, CallsKeepOrder, HeldKinds
  <2>8. OneUnderLock'
    BY <2>1, <2>2, <2>3 DEF IntrInv, OneUnderLock
  <2> QED
    BY <2>1, <2>3, <2>4, <2>5, <2>6, <2>7, <2>8, Zenon DEF IntrInv
<1>6. ASSUME NEW c \in Callers, IntrSelect(c) PROVE IntrInv'
  <2> DEFINE k == caller[c].kind
             at2 == IF received[k] THEN "signalled" ELSE "closing"
  <2>0. k \in HeldKinds /\ caller[c].at = "locked" /\ caller[c] \in CallRecords
    BY <1>6, Zenon DEF IntrSelect, IntrInv, CallsKeepOrder, CallRecords
  <2> DEFINE new == [caller[c] EXCEPT !.at = at2]
  <2>a. new \in CallRecords
    BY <2>0, Zenon DEF CallRecords, Places, UnderLock
  <2>b. caller' = [caller EXCEPT ![c] = new]
    BY <1>6, Zenon DEF IntrSelect
  <2> HIDE DEF new
  <2>1. /\ caller' \in [Callers -> CallRecords]
        /\ \A d \in Callers \ {c} : caller'[d] = caller[d]
    BY <2>a, <2>b, Zenon DEF IntrInv
  <2>2. /\ caller'[c].kind = k /\ caller'[c].must = caller[c].must
        /\ caller'[c].at = at2 /\ caller'[c].shouldBlock = caller[c].shouldBlock
    BY <1>6, ZenonT(40) DEF IntrSelect, IntrInv, CallRecords
  <2>3. UNCHANGED <<blockFor, received, mu, waiter, closedAgain>>
    BY <1>6, Zenon DEF IntrSelect
  <2>4. IntrTypeOK'
    BY <2>1, <2>3, Zenon DEF IntrInv, IntrTypeOK, CallRecords
  <2>5. HangsUntilInterrupted'
    BY <2>1, <2>2 DEF IntrInv, HangsUntilInterrupted
  <2>6. SignalsTell'
    BY <2>0, <2>1, <2>2, <2>3 DEF IntrInv, SignalsTell, Arrived
  <2>7. CallsKeepOrder'
    BY <2>0, <2>1, <2>2, <2>3 DEF IntrInv, CallsKeepOrder, HeldKinds, UnderLock
  <2>8. OneUnderLock'
    BY <2>0, <2>1, <2>2, <2>3 DEF IntrInv, OneUnderLock, UnderLock
  <2> QED
    BY <2>1, <2>3, <2>4, <2>5, <2>6, <2>7, <2>8, Zenon DEF IntrInv
<1>7. ASSUME NEW c \in Callers, IntrClose(c) PROVE IntrInv'
  <2> DEFINE k == caller[c].kind
  <2>0. k \in HeldKinds /\ caller[c].at = "closing" /\ caller[c] \in CallRecords
    BY <1>7, Zenon DEF IntrClose, IntrInv, CallsKeepOrder, CallRecords
  <2> DEFINE new == [caller[c] EXCEPT !.at = "signalled"]
  <2>a. new \in CallRecords
    BY <2>0, Zenon DEF CallRecords, Places, UnderLock
  <2>b. caller' = [caller EXCEPT ![c] = new]
    BY <1>7, Zenon DEF IntrClose
  <2> HIDE DEF new
  <2>1. /\ caller' \in [Callers -> CallRecords]
        /\ \A d \in Callers \ {c} : caller'[d] = caller[d]
    BY <2>a, <2>b, Zenon DEF IntrInv
  <2>2. /\ caller'[c].kind = k /\ caller'[c].must = caller[c].must
        /\ caller'[c].at = "signalled" /\ caller'[c].shouldBlock = caller[c].shouldBlock
    BY <1>7, ZenonT(40) DEF IntrClose, IntrInv, CallRecords
  <2>3. /\ UNCHANGED <<blockFor, mu, waiter>> /\ received' = [received EXCEPT ![k] = TRUE]
        /\ closedAgain' = received[k]
    BY <1>7, Zenon DEF IntrClose
  <2>4. closedAgain' = FALSE
    BY <2>0, <2>3 DEF IntrInv, IntrTypeOK, SignalsTell
  <2>5. IntrTypeOK'
    BY <2>1, <2>3, <2>4, Zenon DEF IntrInv, IntrTypeOK, CallRecords
  <2>6. HangsUntilInterrupted'
    BY <2>1, <2>2 DEF IntrInv, HangsUntilInterrupted
  <2>7. \A d \in Callers \ {c} : caller[d].at # "closing"
    BY <2>0, Zenon DEF IntrInv, OneUnderLock, UnderLock
  <2>8. SignalsTell'
    <3>1. \A d \in Callers : caller'[d].at # "closing"
      BY <2>1, <2>2, <2>7, Zenon
    <3>2. \A j \in HeldKinds : received'[j] = IF j = k THEN TRUE ELSE received[j]
      BY <2>3, Zenon DEF IntrInv, IntrTypeOK
    <3>3. \A d \in Callers : caller'[d].at \in Arrived => received'[caller'[d].kind]
      <4>1. received'[k]
        BY <2>0, <3>2, Zenon
      <4>2. ASSUME NEW d \in Callers \ {c}, caller[d].at \in Arrived PROVE received'[caller[d].kind]
        <5>1. caller[d].kind \in HeldKinds /\ received[caller[d].kind]
          BY <4>2, Zenon DEF IntrInv, SignalsTell, CallsKeepOrder, CallRecords, Arrived
        <5> QED
          BY <3>2, <5>1, Zenon
      <4> QED
        BY <2>1, <2>2, <4>1, <4>2, ZenonT(40)
    <3>4. ASSUME NEW j \in HeldKinds
          PROVE  /\ waiter'[j] = "returned" => received'[j]
                 /\ received'[j] => \E d \in Callers : caller'[d].kind = j /\ caller'[d].at \in Arrived
      BY <2>0, <2>1, <2>2, <2>3, <3>2 DEF IntrInv, SignalsTell, Arrived
    <3> QED
      BY <3>1, <3>3, <3>4, Zenon DEF SignalsTell
  <2>9. CallsKeepOrder'
    BY <2>0, <2>1, <2>2, <2>3 DEF IntrInv, CallsKeepOrder, HeldKinds, UnderLock
  <2>10. OneUnderLock'
    BY <2>0, <2>1, <2>2, <2>3 DEF IntrInv, OneUnderLock, UnderLock
  <2> QED
    BY <2>1, <2>4, <2>5, <2>6, <2>8, <2>9, <2>10, Zenon DEF IntrInv
<1>8. ASSUME NEW c \in Callers, IntrUnlock(c) PROVE IntrInv'
  <2> DEFINE k == caller[c].kind
             blocks == caller[c].shouldBlock
  <2>0. k \in HeldKinds /\ caller[c].at = "signalled" /\ caller[c] \in CallRecords
    BY <1>8, Zenon DEF IntrUnlock, IntrInv, CallsKeepOrder, CallRecords
  <2> DEFINE new == [caller[c] EXCEPT !.at = IF blocks THEN "blocked" ELSE "done",
                                     !.result = IF blocks THEN "none" ELSE "OK"]
  <2>a. new \in CallRecords
    BY <2>0, Zenon DEF CallRecords, Places
  <2>b. caller' = [caller EXCEPT ![c] = new]
    BY <1>8, Zenon DEF IntrUnlock
  <2> HIDE DEF new
  <2>1. /\ caller' \in [Callers -> CallRecords]
        /\ \A d \in Callers \ {c} : caller'[d] = caller[d]
    BY <2>a, <2>b, Zenon DEF IntrInv
  <2>2. /\ caller'[c].kind = k /\ caller'[c].must = caller[c].must
        /\ caller'[c].cancelled = caller[c].cancelled
        /\ caller'[c].at = IF blocks THEN "blocked" ELSE "done"
        /\ caller'[c].result = IF blocks THEN "none" ELSE "OK"
    BY <1>8, ZenonT(40) DEF IntrUnlock, IntrInv, CallRecords
  <2>3. UNCHANGED <<blockFor, received, waiter, closedAgain>> /\ mu' = mu \ {c}
    BY <1>8, Zenon DEF IntrUnlock
  <2>4. IntrTypeOK'
    BY <2>1, <2>3, Zenon DEF IntrInv, IntrTypeOK, CallRecords
  <2>5. HangsUntilInterrupted'
    BY <2>0, <2>1, <2>2 DEF IntrInv, CallsKeepOrder, UnderLock, HangsUntilInterrupted
  <2>6. SignalsTell'
    BY <2>0, <2>1, <2>2, <2>3 DEF IntrInv, SignalsTell, Arrived
  <2>7. CallsKeepOrder'
    BY <2>0, <2>1, <2>2, <2>3 DEF IntrInv, CallsKeepOrder, HeldKinds, UnderLock
  <2>8. OneUnderLock'
    BY <2>1, <2>2, <2>3 DEF IntrInv, OneUnderLock, UnderLock
  <2> QED
    BY <2>1, <2>3, <2>4, <2>5, <2>6, <2>7, <2>8, Zenon DEF IntrInv
<1>9. ASSUME NEW c \in Callers, IntrReturn(c) PROVE IntrInv'
  <2> DEFINE new == [caller[c] EXCEPT !.at = "done", !.result = "ctx.Err"]
  <2>a. new \in CallRecords
    BY Zenon DEF IntrInv, CallRecords, Places
  <2>b. caller' = [caller EXCEPT ![c] = new]
    BY <1>9, Zenon DEF IntrReturn
  <2> HIDE DEF new
  <2>1. /\ caller' \in [Callers -> CallRecords]
        /\ \A d \in Callers \ {c} : caller'[d] = caller[d]
    BY <2>a, <2>b, Zenon DEF IntrInv
  <2>2. /\ caller'[c].kind = caller[c].kind /\ caller[c].at = "blocked" /\ caller'[c].at = "done"
        /\ caller'[c].cancelled /\ caller'[c].result = "ctx.Err"
    BY <1>9, ZenonT(40) DEF IntrReturn, IntrInv, CallRecords
  <2>3. UNCHANGED <<blockFor, received, mu, waiter, closedAgain>>
    BY <1>9, Zenon DEF IntrReturn
  <2>4. IntrTypeOK' /\ HangsUntilInterrupted'
    BY <2>1, <2>2, <2>3 DEF IntrInv, IntrTypeOK, HangsUntilInterrupted, CallRecords
  <2>5. SignalsTell'
    BY <2>1, <2>2, <2>3 DEF IntrInv, SignalsTell, Arrived
  <2>6. OneUnderLock' /\ CallsKeepOrder'
    BY <2>1, <2>2, <2>3 DEF IntrInv, CallsKeepOrder, OneUnderLock, UnderLock
  <2> QED
    BY <2>1, <2>3, <2>4, <2>5, <2>6, Zenon DEF IntrInv
<1>10. CASE UNCHANGED intrVars
  BY <1>10 DEF intrVars, IntrInv, CallsKeepOrder, OneUnderLock, SignalsTell, IntrTypeOK, HangsUntilInterrupted
<1> QED
  BY <1>1, <1>2, <1>3, <1>4, <1>5, <1>6, <1>7, <1>8, <1>9, <1>10, ZenonT(40) DEF IntrNext

-----------------------------------------------------------------------------
(* cachingfs *)

\* A reply and a request on its way.
ReplyRecords ==
    [id : AllIDs, kind : Names \cup {"none"}, mtime : Nat, entryExp : Int, attrExp : Int,
     err : {"none", "ENOENT"}]
PendingRecords ==
    [op : {"lookup", "getattr"}, at : {"sent", "handled"}, name : Names \cup {"none"}, inode : AllIDs,
     reply : ReplyRecords]

\* An ID given out for a name, with an expiration time: of the renumbering that
\* was the last one when it was given out, or of one since.
EntryOK(name, id, exp) ==
    /\ exp - LookupEntryTimeout \in 0 .. moment
    /\ \E g \in 0 .. Renumberings :
         /\ id = FirstBase + numInodes * g + Offset(name)
         /\ g < Renumberings => renumberedAt[g + 1] >= exp - LookupEntryTimeout

\* The same for an mtime.
AttributesOK(m, exp) ==
    /\ exp - GetattrTimeout \in 0 .. moment /\ m \in 0 .. mtime
    /\ m < mtime => touchedAt[m + 1] >= exp - GetattrTimeout

\* i is one of the IDs of name.
IssuedFor(name, i) == i \in AllIDs /\ i # Root_ /\ i % numInodes = Offset(name)

\* A request names what it may name, and its reply was right when it was made.
PendingOK(r) ==
    /\ r.op = "lookup" => r.name \in Names /\ (IF r.name = "bar" THEN IssuedFor("dir", r.inode) ELSE r.inode = Root_)
    /\ r.op = "getattr" => issued[r.inode] \in Names
    /\ r.at = "handled" =>
         /\ r.reply.err = "none"
         /\ r.op = "lookup" => EntryOK(r.name, r.reply.id, r.reply.entryExp) /\ r.reply.attrExp = Past
         /\ r.op = "getattr" => AttributesOK(r.reply.mtime, r.reply.attrExp) /\ r.reply.kind = issued[r.inode]

\* What makes CachesExpire and OldIDsStillWork inductive: what the kernel has
\* cached, and what is on its way to it, was right when the file system answered.
CachingInv ==
    /\ moment \in Nat /\ mtime \in 0 .. MaxMtimes
    /\ baseID \in Nat /\ baseID % numInodes = 0 /\ Renumberings \in 0 .. MaxRenumbers
    /\ renumberedAt \in [1 .. MaxRenumbers -> Nat] /\ touchedAt \in [1 .. MaxMtimes -> Nat]
    /\ pending \subseteq PendingRecords /\ \A r \in pending : PendingOK(r)
    /\ dentry \in [Names -> [id : AllIDs, until : Int]]
    /\ \A name \in Names : dentry[name].until # Past => EntryOK(name, dentry[name].id, dentry[name].until)
    /\ attrCache \in [AllIDs -> [mtime : Nat, until : Int]]
    /\ \A i \in AllIDs : attrCache[i].until # Past => AttributesOK(attrCache[i].mtime, attrCache[i].until)
    /\ issued \in [AllIDs -> Names \cup {"none"}]
    /\ \A i \in AllIDs : issued[i] # "none" => IssuedFor(issued[i], i)

\* The first base ID is 3, the first multiple of 3 above the root.
LEMMA FirstBaseIs == FirstBase = 3 /\ AllIDs = 0 .. 6 + 3 * MaxRenumbers
<1>1. FirstBase = 3
  BY DEF FirstBase, RoundUp, numInodes, Root_
<1> QED
  BY <1>1, CachingFSAssumption DEF AllIDs, numInodes

\* The offsets of the three inodes.
LEMMA OffsetIs == Offset("foo") = 0 /\ Offset("dir") = 1 /\ Offset("bar") = 2
BY Zenon DEF Offset

\* They are less than numInodes, and no two of them are the same.
LEMMA OffsetsDiffer ==
    /\ \A name \in Names : Offset(name) \in 0 .. 2
    /\ \A n, o \in Names : Offset(n) = Offset(o) => n = o
BY OffsetIs DEF Names

\* The ID of an entry is one of those of its name.
LEMMA EntryIsIssued ==
    ASSUME CachingInv, NEW name \in Names, NEW id, NEW exp, EntryOK(name, id, exp)
    PROVE  IssuedFor(name, id)
<1>1. PICK g \in 0 .. Renumberings : id = FirstBase + numInodes * g + Offset(name)
  BY Zenon DEF EntryOK
<1>2. Renumberings \in Nat /\ Renumberings <= MaxRenumbers /\ MaxRenumbers \in Nat
  BY CachingFSAssumption DEF CachingInv
<1>3. g \in Nat /\ g <= MaxRenumbers
  BY <1>2
<1>4. id = 3 + 3 * g + Offset(name)
  BY <1>1, FirstBaseIs, Zenon DEF numInodes
<1>5. PICK k \in 0 .. 2 : k = Offset(name)
  BY OffsetsDiffer, Zenon
<1>6. (3 + 3 * g + k) % 3 = k
  BY <1>3
<1> QED
  BY <1>2, <1>3, <1>4, <1>5, <1>6, FirstBaseIs DEF IssuedFor, numInodes, Root_

\* The invariant of CachingFS says what its properties say.
LEMMA CachingGivesProperties == CachingInv => CachesExpire /\ OldIDsStillWork
<1> SUFFICES ASSUME CachingInv PROVE CachesExpire /\ OldIDsStillWork
  BY Zenon
<1>1. OldIDsStillWork
  BY Zenon DEF OldIDsStillWork, CachingInv, PendingOK, PendingRecords
<1>2. ASSUME NEW name \in Names, Fresh(dentry[name].until),
             (dentry[name].id - Offset(name) - FirstBase) \div numInodes < Renumberings
      PROVE  moment - renumberedAt[(dentry[name].id - Offset(name) - FirstBase) \div numInodes + 1] <= LookupEntryTimeout
  <2>1. dentry[name].until \in Int /\ dentry[name].until >= moment /\ dentry[name].until # Past
    BY <1>2 DEF Fresh, CachingInv, Past
  <2>2. EntryOK(name, dentry[name].id, dentry[name].until)
    BY <2>1, Zenon DEF CachingInv
  <2>3. PICK g \in 0 .. Renumberings :
          /\ dentry[name].id = FirstBase + numInodes * g + Offset(name)
          /\ g < Renumberings => renumberedAt[g + 1] >= dentry[name].until - LookupEntryTimeout
    BY <2>2, Zenon DEF EntryOK
  <2>4. (dentry[name].id - Offset(name) - FirstBase) \div numInodes = g
    <3>1. g \in Nat
      BY DEF CachingInv
    <3>2. PICK k \in 0 .. 2 : k = Offset(name)
      BY OffsetsDiffer, Zenon
    <3>3. dentry[name].id - Offset(name) - FirstBase = 3 * g
      BY <2>3, <3>1, <3>2, FirstBaseIs DEF numInodes
    <3> QED
      BY <3>1, <3>3 DEF numInodes
  <2>5. g < Renumberings
    BY <1>2, <2>4, Zenon
  <2>6. g + 1 \in 1 .. MaxRenumbers
    <3>1. Renumberings \in Nat /\ Renumberings <= MaxRenumbers /\ MaxRenumbers \in Nat
      BY CachingFSAssumption DEF CachingInv
    <3> QED
      BY <2>5, <3>1
  <2>7. renumberedAt[g + 1] \in Nat
    BY <2>6, Zenon DEF CachingInv
  <2>8. moment \in Nat /\ LookupEntryTimeout \in Nat
    BY CachingFSAssumption, Zenon DEF CachingInv
  <2>9. moment - renumberedAt[g + 1] <= LookupEntryTimeout
    BY <2>1, <2>3, <2>5, <2>7, <2>8
  <2> QED
    BY <2>4, <2>9, Zenon
<1>3. ASSUME NEW i \in AllIDs, Fresh(attrCache[i].until), attrCache[i].mtime < mtime
      PROVE  moment - touchedAt[attrCache[i].mtime + 1] <= GetattrTimeout
  <2>1. attrCache[i].until \in Int /\ attrCache[i].until >= moment /\ attrCache[i].until # Past
    BY <1>3 DEF Fresh, CachingInv, Past
  <2>2. AttributesOK(attrCache[i].mtime, attrCache[i].until)
    BY <2>1, Zenon DEF CachingInv
  <2>3. touchedAt[attrCache[i].mtime + 1] \in Nat
    <3>0. mtime \in 0 .. MaxMtimes /\ attrCache[i].mtime \in Nat
      BY Zenon DEF CachingInv
    <3>1. attrCache[i].mtime + 1 \in 1 .. MaxMtimes
      BY <1>3, <3>0, CachingFSAssumption
    <3> QED
      BY <3>1, ZenonT(40) DEF CachingInv
  <2>4. moment \in Nat /\ GetattrTimeout \in Nat
    BY CachingFSAssumption, Zenon DEF CachingInv
  <2>5. touchedAt[attrCache[i].mtime + 1] >= attrCache[i].until - GetattrTimeout
    BY <1>3, <2>2, Zenon DEF AttributesOK
  <2> QED
    BY <2>1, <2>3, <2>4, <2>5
<1> QED
  BY <1>1, <1>2, <1>3, Zenon DEF CachesExpire

\* The initial state satisfies the invariant of CachingFS.
LEMMA CachingStart == CachingInit => CachingInv
<1> SUFFICES ASSUME CachingInit PROVE CachingInv
  BY Zenon
<1>1. baseID = 3 /\ baseID % numInodes = 0 /\ Renumberings = 0
  BY FirstBaseIs DEF CachingInit, numInodes, Renumberings
<1>2. 0 \in AllIDs /\ MaxRenumbers \in Nat /\ MaxMtimes \in Nat
  BY FirstBaseIs, CachingFSAssumption
<1>3. /\ dentry \in [Names -> [id : AllIDs, until : Int]] /\ \A name \in Names : dentry[name].until = Past
      /\ attrCache \in [AllIDs -> [mtime : Nat, until : Int]] /\ \A i \in AllIDs : attrCache[i].until = Past
      /\ issued \in [AllIDs -> Names \cup {"none"}] /\ \A i \in AllIDs : issued[i] = "none"
  BY <1>2 DEF CachingInit, NoEntry, NoAttributes, Past
<1>4. renumberedAt \in [1 .. MaxRenumbers -> Nat] /\ touchedAt \in [1 .. MaxMtimes -> Nat]
  BY Zenon DEF CachingInit
<1> QED
  BY <1>1, <1>2, <1>3, <1>4 DEF CachingInit, CachingInv

\* What was right when the file system answered stays so, whatever happens since.
LEMMA EntryKept ==
    ASSUME CachingInv, moment' \in Nat, moment <= moment',
           RenumberInodes \/ UNCHANGED <<baseID, renumberedAt>>,
           NEW name \in Names, NEW id, NEW exp, EntryOK(name, id, exp)
    PROVE  EntryOK(name, id, exp)'
<1>1. PICK g \in 0 .. Renumberings :
        /\ id = FirstBase + numInodes * g + Offset(name)
        /\ g < Renumberings => renumberedAt[g + 1] >= exp - LookupEntryTimeout
  BY Zenon DEF EntryOK
<1>2. exp - LookupEntryTimeout \in 0 .. moment /\ moment \in Nat /\ MaxRenumbers \in Nat
  BY CachingFSAssumption, Zenon DEF EntryOK, CachingInv
<1>3. exp - LookupEntryTimeout \in 0 .. moment'
  BY <1>2
<1>4. Renumberings \in Nat /\ g \in Nat
  BY DEF CachingInv
<1>5. CASE UNCHANGED <<baseID, renumberedAt>>
  <2>1. Renumberings' = Renumberings
    BY <1>5, Zenon DEF Renumberings
  <2> QED
    BY <1>1, <1>3, <1>5, <2>1, Zenon DEF EntryOK
<1>6. CASE RenumberInodes
  <2>1. Renumberings' = Renumberings + 1
    BY <1>6, FirstBaseIs DEF RenumberInodes, Renumbered, Renumberings, numInodes, CachingInv
  <2>2. Renumberings + 1 \in 1 .. MaxRenumbers /\ renumberedAt' = [renumberedAt EXCEPT ![Renumberings + 1] = moment]
    BY <1>2, <1>4, <1>6 DEF RenumberInodes
  <2>3. g < Renumberings => g + 1 \in 1 .. MaxRenumbers /\ g + 1 # Renumberings + 1
    BY <1>2, <1>4, <2>2
  <2>4. renumberedAt'[g + 1] >= exp - LookupEntryTimeout
    <3>1. CASE g < Renumberings
      BY <1>1, <2>2, <2>3, <3>1, ZenonT(40) DEF CachingInv
    <3>2. CASE g = Renumberings
      BY <1>2, <2>2, <3>2 DEF CachingInv
    <3> QED
      BY <1>4, <3>1, <3>2
  <2>5. g \in 0 .. Renumberings'
    BY <1>4, <2>1
  <2> QED
    BY <1>1, <1>3, <2>4, <2>5, ZenonT(40) DEF EntryOK
<1> QED
  BY <1>5, <1>6, Zenon

\* The same for attributes.
LEMMA AttributesKept ==
    ASSUME CachingInv, moment' \in Nat, moment <= moment',
           SetMtime \/ UNCHANGED <<mtime, touchedAt>>,
           NEW m, NEW exp, AttributesOK(m, exp)
    PROVE  AttributesOK(m, exp)'
<1>1. /\ exp - GetattrTimeout \in 0 .. moment /\ moment \in Nat /\ MaxMtimes \in Nat
      /\ m \in Nat /\ mtime \in Nat /\ m <= mtime /\ (m < mtime => touchedAt[m + 1] >= exp - GetattrTimeout)
  BY CachingFSAssumption DEF AttributesOK, CachingInv
<1>2. exp - GetattrTimeout \in 0 .. moment'
  BY <1>1
<1>3. CASE UNCHANGED <<mtime, touchedAt>>
  BY <1>1, <1>2, <1>3, Zenon DEF AttributesOK
<1>4. CASE SetMtime
  <2>1. /\ mtime' = mtime + 1 /\ mtime + 1 \in 1 .. MaxMtimes
        /\ touchedAt' = [touchedAt EXCEPT ![mtime + 1] = moment]
    BY <1>1, <1>4 DEF SetMtime
  <2>2. m < mtime => m + 1 \in 1 .. MaxMtimes /\ m + 1 # mtime + 1
    BY <1>1, <2>1
  <2>3. touchedAt'[m + 1] >= exp - GetattrTimeout
    <3>1. CASE m < mtime
      BY <1>1, <2>1, <2>2, <3>1, ZenonT(40) DEF CachingInv
    <3>2. CASE m = mtime
      BY <1>1, <2>1, <3>2 DEF CachingInv
    <3> QED
      BY <1>1, <3>1, <3>2
  <2> QED
    BY <1>1, <1>2, <2>1, <2>3 DEF AttributesOK
<1> QED
  BY <1>3, <1>4, ZenonT(40)

\* The reply of a request that has not been handled.
LEMMA NoReplyIsReply ==
    /\ NoReply \in ReplyRecords /\ NoReply.attrExp = Past /\ NoReply.err = "none" /\ Past \in Int
    /\ NoReply.entryExp = Past
<1>1. 0 \in AllIDs
  BY FirstBaseIs, CachingFSAssumption
<1> QED
  BY <1>1 DEF NoReply, ReplyRecords, Past

\* The base ID counts the renumberings.
LEMMA CurrentBase == CachingInv => baseID = FirstBase + numInodes * Renumberings
<1> SUFFICES ASSUME CachingInv PROVE baseID = FirstBase + numInodes * Renumberings
  BY Zenon
<1>1. PICK b \in Nat : b = baseID
  BY Zenon DEF CachingInv
<1>2. b % 3 = 0 /\ (b - 3) \div 3 >= 0 /\ Renumberings = (b - 3) \div 3
  BY <1>1, FirstBaseIs DEF CachingInv, Renumberings, numInodes
<1>3. b = 3 + 3 * ((b - 3) \div 3)
  BY <1>2
<1> QED
  BY <1>1, <1>2, <1>3, FirstBaseIs, Zenon DEF numInodes

\* Every step of the kernel, of the file system and of the clock keeps its invariant.
LEMMA CachingStep == CachingInv /\ [CachingNext]_cachingVars => CachingInv'
<1> SUFFICES ASSUME CachingInv, [CachingNext]_cachingVars PROVE CachingInv'
  BY Zenon
\* The clock, the renumberings and the mtimes leave the replies and caches right.
<1>1. ASSUME moment' \in Nat, moment <= moment', UNCHANGED issued,
             RenumberInodes \/ UNCHANGED <<baseID, renumberedAt>>,
             SetMtime \/ UNCHANGED <<mtime, touchedAt>>,
             NEW r \in pending
      PROVE  PendingOK(r)'
  <2>1. r \in PendingRecords /\ PendingOK(r)
    BY Zenon DEF CachingInv
  <2>2. r.at = "handled" /\ r.op = "lookup" => EntryOK(r.name, r.reply.id, r.reply.entryExp)'
    BY <1>1, <2>1, EntryKept, Zenon DEF PendingOK
  <2>3. r.at = "handled" /\ r.op = "getattr" => AttributesOK(r.reply.mtime, r.reply.attrExp)'
    BY <1>1, <2>1, AttributesKept, Zenon DEF PendingOK
  <2> QED
    BY <1>1, <2>1, <2>2, <2>3, Zenon DEF PendingOK
<1>2. CASE CachingTick
  <2>1. moment' \in Nat /\ moment <= moment' /\ UNCHANGED <<baseID, mtime, renumberedAt, touchedAt, pending, issued>>
    BY <1>2 DEF CachingTick, CachingInv
  <2>2. \A r \in pending' : PendingOK(r)'
    BY <1>1, <2>1, Zenon
  <2>3. ASSUME NEW name \in Names
        PROVE  /\ dentry'[name] \in [id : AllIDs, until : Int]
               /\ (dentry[name].until # Past => EntryOK(name, dentry[name].id, dentry[name].until))'
    <3>1. dentry'[name] \in {dentry[name], NoEntry}
      BY <1>2, Zenon DEF CachingTick
    <3>2. NoEntry \in [id : AllIDs, until : Int] /\ NoEntry.until = Past
      BY FirstBaseIs, CachingFSAssumption DEF NoEntry, Past
    <3>3. PICK e \in [id : AllIDs, until : Int] : e = dentry[name]
      BY Zenon DEF CachingInv
    <3>4. e.until # Past => EntryOK(name, e.id, e.until)'
      BY <2>1, <3>3, EntryKept, Zenon DEF CachingInv
    <3> QED
      BY <3>1, <3>2, <3>3, <3>4, Zenon DEF EntryOK
  <2>4. ASSUME NEW i \in AllIDs
        PROVE  /\ attrCache'[i] \in [mtime : Nat, until : Int]
               /\ (attrCache[i].until # Past => AttributesOK(attrCache[i].mtime, attrCache[i].until))'
    <3>1. attrCache'[i] \in {attrCache[i], NoAttributes}
      BY <1>2, Zenon DEF CachingTick
    <3>2. NoAttributes \in [mtime : Nat, until : Int] /\ NoAttributes.until = Past
      BY DEF NoAttributes, Past
    <3>3. PICK e \in [mtime : Nat, until : Int] : e = attrCache[i]
      BY Zenon DEF CachingInv
    <3>4. e.until # Past => AttributesOK(e.mtime, e.until)'
      BY <2>1, <3>3, AttributesKept, Zenon DEF CachingInv
    <3> QED
      BY <3>1, <3>2, <3>3, <3>4, Zenon DEF AttributesOK
  <2>5. Renumberings' = Renumberings
    BY <2>1, Zenon DEF Renumberings
  <2>6. dentry' \in [Names -> [id : AllIDs, until : Int]] /\ attrCache' \in [AllIDs -> [mtime : Nat, until : Int]]
    BY <1>2, <2>3, <2>4, Zenon DEF CachingTick
  <2> QED
    BY <2>1, <2>2, <2>3, <2>4, <2>5, <2>6, ZenonT(40) DEF CachingInv, IssuedFor
\* Nothing else changes the caches but a reply.
<1>3. ASSUME moment' \in Nat, moment <= moment', UNCHANGED <<dentry, attrCache>>,
             RenumberInodes \/ UNCHANGED <<baseID, renumberedAt>>,
             SetMtime \/ UNCHANGED <<mtime, touchedAt>>
      PROVE  /\ (\A name \in Names : dentry[name].until # Past =>
                   EntryOK(name, dentry[name].id, dentry[name].until))'
             /\ (\A i \in AllIDs : attrCache[i].until # Past =>
                   AttributesOK(attrCache[i].mtime, attrCache[i].until))'
  <2>1. ASSUME NEW name \in Names
        PROVE  (dentry[name].until # Past => EntryOK(name, dentry[name].id, dentry[name].until))'
    <3>1. PICK e : e = dentry[name]
      BY Zenon
    <3>2. e.until # Past => EntryOK(name, e.id, e.until)'
      BY <1>3, <3>1, EntryKept, Zenon DEF CachingInv
    <3> QED
      BY <1>3, <3>1, <3>2, Zenon DEF EntryOK
  <2>2. ASSUME NEW i \in AllIDs
        PROVE  (attrCache[i].until # Past => AttributesOK(attrCache[i].mtime, attrCache[i].until))'
    <3>1. PICK e : e = attrCache[i]
      BY Zenon
    <3>2. e.until # Past => AttributesOK(e.mtime, e.until)'
      BY <1>3, <3>1, AttributesKept, Zenon DEF CachingInv
    <3> QED
      BY <1>3, <3>1, <3>2, Zenon DEF AttributesOK
  <2> QED
    BY <2>1, <2>2, Zenon
<1>4. CASE RenumberInodes
  <2>1. moment' \in Nat /\ moment <= moment' /\ UNCHANGED <<moment, mtime, touchedAt, pending, dentry, attrCache, issued>>
    BY <1>4 DEF RenumberInodes, CachingInv
  <2>2. \A r \in pending' : PendingOK(r)'
    BY <1>1, <1>4, <2>1, Zenon
  <2>3. /\ baseID' \in Nat /\ baseID' % numInodes = 0 /\ Renumberings' = Renumberings + 1
        /\ Renumberings' \in 0 .. MaxRenumbers
    <3>1. PICK b \in Nat : b = baseID
      BY ZenonT(40) DEF CachingInv
    <3>2. /\ baseID' = b + 3 /\ b % 3 = 0 /\ Renumberings = (b - 3) \div 3 /\ Renumberings' = (b + 3 - 3) \div 3
          /\ Renumberings < MaxRenumbers /\ Renumberings \in Nat /\ MaxRenumbers \in Nat
      BY <1>4, <3>1, FirstBaseIs, CachingFSAssumption
         DEF RenumberInodes, Renumbered, Renumberings, numInodes, CachingInv
    <3>3. (b + 3) % 3 = 0 /\ (b + 3 - 3) \div 3 = (b - 3) \div 3 + 1
      BY <3>2
    <3> QED
      BY <3>2, <3>3 DEF numInodes
  <2>4. renumberedAt' \in [1 .. MaxRenumbers -> Nat]
    BY <1>4, Zenon DEF RenumberInodes, CachingInv
  <2> QED
    BY <1>3, <1>4, <2>1, <2>2, <2>3, <2>4, ZenonT(40) DEF CachingInv, IssuedFor
<1>5. CASE SetMtime
  <2>1. moment' \in Nat /\ moment <= moment' /\ UNCHANGED <<moment, baseID, renumberedAt, pending, dentry, attrCache, issued>>
    BY <1>5 DEF SetMtime, CachingInv
  <2>2. \A r \in pending' : PendingOK(r)'
    BY <1>1, <1>5, <2>1, ZenonT(40)
  <2>3. mtime' \in 0 .. MaxMtimes /\ touchedAt' \in [1 .. MaxMtimes -> Nat]
    BY <1>5, CachingFSAssumption DEF SetMtime, CachingInv
  <2>4. Renumberings' = Renumberings
    BY <2>1, Zenon DEF Renumberings
  <2> QED
    BY <1>3, <1>5, <2>1, <2>2, <2>3, <2>4, ZenonT(40) DEF CachingInv, IssuedFor
\* A request is sent or handled, and nothing else changes.
<1>6. ASSUME NEW r \in PendingRecords, PendingOK(r), pending' \subseteq pending \cup {r},
             UNCHANGED <<moment, baseID, mtime, renumberedAt, touchedAt, dentry, attrCache, issued>>
      PROVE  CachingInv'
  <2>1. moment' \in Nat /\ moment <= moment'
    BY <1>6 DEF CachingInv
  <2>2. \A o \in pending : PendingOK(o)'
    BY <1>1, <1>6, <2>1, Zenon
  <2>3. PendingOK(r)'
    BY <1>6, Zenon DEF PendingOK, EntryOK, AttributesOK, Renumberings, IssuedFor
  <2>4. Renumberings' = Renumberings
    BY <1>6, Zenon DEF Renumberings
  <2>5. pending' \subseteq PendingRecords
    BY <1>6, Zenon DEF CachingInv
  <2>6. \A o \in pending' : PendingOK(o)'
    BY <1>6, <2>2, <2>3, Zenon
  <2> QED
    BY <1>3, <1>6, <2>1, <2>4, <2>5, <2>6, ZenonT(40) DEF CachingInv, IssuedFor
<1>7. ASSUME NEW name \in Visited, UserLooksUp(name) PROVE CachingInv'
  <2> DEFINE i == IF name = "bar" THEN dentry["dir"].id ELSE Root_
             new == Sent("lookup", name, i)
  <2>1. /\ name = "bar" => Fresh(dentry["dir"].until)
        /\ pending' = pending \cup {new}
        /\ UNCHANGED <<moment, baseID, mtime, renumberedAt, touchedAt, dentry, attrCache, issued>>
    BY <1>7, Zenon DEF UserLooksUp
  <2>2. name \in Names /\ "dir" \in Names
    BY CachingFSAssumption, Zenon DEF Names
  <2>3. IF name = "bar" THEN IssuedFor("dir", i) ELSE i = Root_
    <3>1. CASE name = "bar"
      <4>1. dentry["dir"].until # Past
        BY <2>1, <2>2, <3>1 DEF Fresh, Past, CachingInv
      <4> QED
        BY <2>2, <3>1, <4>1, EntryIsIssued, ZenonT(40) DEF CachingInv
    <3> QED
      BY <3>1, Zenon
  <2>4. i \in AllIDs
    BY <2>3, FirstBaseIs, CachingFSAssumption DEF IssuedFor, Root_
  <2> HIDE DEF i
  <2>5. new \in PendingRecords /\ new.op = "lookup" /\ new.at = "sent" /\ new.name = name /\ new.inode = i
    BY <2>2, <2>4, NoReplyIsReply, Zenon DEF Sent, PendingRecords
  <2> HIDE DEF new
  <2>6. PendingOK(new)
    BY <2>2, <2>3, <2>5, Zenon DEF PendingOK
  <2> QED
    BY <1>6, <2>1, <2>5, <2>6, Zenon
<1>8. ASSUME NEW i \in AllIDs, UserStats(i) PROVE CachingInv'
  <2> DEFINE new == Sent("getattr", "none", i)
  <2>1. /\ issued[i] \in Names /\ pending' = pending \cup {new}
        /\ UNCHANGED <<moment, baseID, mtime, renumberedAt, touchedAt, dentry, attrCache, issued>>
    BY <1>8, CachingFSAssumption, Zenon DEF UserStats
  <2>2. new \in PendingRecords /\ new.op = "getattr" /\ new.at = "sent" /\ new.inode = i
    BY NoReplyIsReply, Zenon DEF Sent, PendingRecords
  <2> HIDE DEF new
  <2>3. PendingOK(new)
    BY <2>1, <2>2, Zenon DEF PendingOK
  <2> QED
    BY <1>6, <2>1, <2>2, <2>3, Zenon
<1>9. ASSUME NEW r \in pending, CachingHandle(r) PROVE CachingInv'
  <2> DEFINE reply == IF r.op = "lookup" THEN CachingLookUp(r.name, r.inode) ELSE CachingGetattr(r.inode)
             new == [r EXCEPT !.at = "handled", !.reply = reply]
  <2>1. /\ r.at = "sent" /\ pending' = (pending \ {r}) \cup {new}
        /\ UNCHANGED <<moment, baseID, mtime, renumberedAt, touchedAt, dentry, attrCache, issued>>
    BY <1>9, Zenon DEF CachingHandle
  <2>2. r \in PendingRecords /\ PendingOK(r)
    BY Zenon DEF CachingInv
  <2>3. CASE r.op = "lookup"
    <3> DEFINE id == baseID + Offset(r.name)
               exp == moment + LookupEntryTimeout
    <3>1. r.name \in Names /\ (IF r.name = "bar" THEN IssuedFor("dir", r.inode) ELSE r.inode = Root_)
      BY <2>2, <2>3, Zenon DEF PendingOK
    <3>2. reply = [NoReply EXCEPT !.id = id, !.kind = r.name, !.mtime = mtime, !.entryExp = exp]
      BY <2>3, <3>1, OffsetIs, Zenon DEF CachingLookUp, IssuedFor
    <3>3. exp \in Int /\ exp - LookupEntryTimeout = moment /\ mtime \in Nat /\ moment \in Nat
      BY CachingFSAssumption DEF CachingInv
    <3>4. EntryOK(r.name, id, exp)
      BY <3>3, CurrentBase DEF EntryOK, CachingInv
    <3>5. id \in AllIDs
      BY <3>1, <3>4, EntryIsIssued, Zenon DEF IssuedFor
    <3> HIDE DEF id, exp
    <3>6. /\ reply \in ReplyRecords /\ reply.id = id /\ reply.entryExp = exp /\ reply.attrExp = Past
          /\ reply.err = "none"
      BY <3>1, <3>2, <3>3, <3>5, NoReplyIsReply, ZenonT(40) DEF ReplyRecords
    <3> HIDE DEF reply
    <3>7. /\ new \in PendingRecords /\ new.op = "lookup" /\ new.at = "handled" /\ new.name = r.name
          /\ new.inode = r.inode /\ new.reply = reply
      BY <2>2, <2>3, <3>6, Zenon DEF PendingRecords
    <3> HIDE DEF new
    <3>8. PendingOK(new)
      BY <3>1, <3>4, <3>6, <3>7, Zenon DEF PendingOK
    <3> QED
      BY <1>6, <2>1, <3>7, <3>8, Zenon
  <2>4. CASE r.op = "getattr"
    <3> DEFINE kind == CHOOSE name \in Names : Offset(name) = r.inode % numInodes
               exp == moment + GetattrTimeout
    <3>1. issued[r.inode] \in Names /\ r.inode \in AllIDs
      BY <2>2, <2>4, Zenon DEF PendingOK, PendingRecords
    <3>2. reply = [NoReply EXCEPT !.id = r.inode, !.mtime = mtime, !.attrExp = exp, !.kind = kind]
      BY <2>4, ZenonT(40) DEF CachingGetattr
    <3>3. exp \in Int /\ exp - GetattrTimeout = moment /\ mtime \in Nat /\ moment \in Nat
      BY CachingFSAssumption DEF CachingInv
    <3>4. AttributesOK(mtime, exp)
      BY <3>3 DEF AttributesOK
    <3>5. kind = issued[r.inode]
      <4>1. IssuedFor(issued[r.inode], r.inode)
        BY <3>1, Zenon DEF CachingInv, Names
      <4> QED
        BY <3>1, <4>1, OffsetsDiffer, Zenon DEF IssuedFor
    <3> HIDE DEF exp, kind
    <3>6. /\ reply \in ReplyRecords /\ reply.mtime = mtime /\ reply.attrExp = exp /\ reply.kind = kind
          /\ reply.err = "none"
      BY <3>1, <3>2, <3>3, <3>5, NoReplyIsReply, ZenonT(40) DEF ReplyRecords
    <3> HIDE DEF reply
    <3>7. /\ new \in PendingRecords /\ new.op = "getattr" /\ new.at = "handled"
          /\ new.inode = r.inode /\ new.reply = reply
      BY <2>2, <2>4, <3>6, Zenon DEF PendingRecords
    <3> HIDE DEF new
    <3>8. PendingOK(new)
      BY <3>1, <3>4, <3>5, <3>6, <3>7, Zenon DEF PendingOK
    <3> QED
      BY <1>6, <2>1, <3>7, <3>8, Zenon
  <2> QED
    BY <2>2, <2>3, <2>4, Zenon DEF PendingRecords
<1>10. ASSUME NEW r \in pending, CachingReply(r) PROVE CachingInv'
  <2> DEFINE a == r.reply
             entry == Kept(NoEntry, [NoEntry EXCEPT !.id = a.id], a.entryExp)
             attr == Kept(NoAttributes, [NoAttributes EXCEPT !.mtime = a.mtime], a.attrExp)
  <2>1. /\ r \in PendingRecords /\ PendingOK(r) /\ r.at = "handled" /\ a.err = "none" /\ a \in ReplyRecords
        /\ moment \in Nat /\ a.id \in AllIDs /\ a.mtime \in Nat /\ a.entryExp \in Int /\ a.attrExp \in Int
    BY <1>10, Zenon DEF CachingReply, CachingInv, PendingOK, PendingRecords, ReplyRecords
  <2>2. /\ pending' = pending \ {r}
        /\ dentry' = IF r.op = "lookup" THEN [dentry EXCEPT ![r.name] = entry] ELSE dentry
        /\ issued' = IF r.op = "lookup" THEN [issued EXCEPT ![a.id] = r.name] ELSE issued
        /\ attrCache' = [attrCache EXCEPT ![a.id] = attr]
        /\ UNCHANGED <<moment, baseID, mtime, renumberedAt, touchedAt>>
    BY <1>10, <2>1, Zenon DEF CachingReply
  <2>3. /\ entry \in [id : AllIDs, until : Int]
        /\ entry.until # Past => entry.id = a.id /\ entry.until = a.entryExp
    <3>1. NoEntry \in [id : AllIDs, until : Int] /\ NoEntry.until = Past
      BY FirstBaseIs, CachingFSAssumption DEF NoEntry, Past
    <3>2. PICK exp \in Int, now \in Nat, k \in AllIDs : exp = a.entryExp /\ now = moment /\ k = a.id
      BY <2>1, Zenon
    <3>3. CASE exp > now
      <4>1. ValidFor(exp) = exp - now /\ exp - now > 0 /\ now + (exp - now) = exp
        BY <3>2, <3>3 DEF ValidFor, convertExpirationTime
      <4>2. entry = [[NoEntry EXCEPT !.id = k] EXCEPT !.until = exp]
        BY <3>2, <4>1, Zenon DEF Kept
      <4> QED
        BY <3>2, <4>2, Zenon DEF NoEntry
    <3>4. CASE ~(exp > now)
      <4>1. entry = NoEntry
        BY <3>2, <3>4 DEF Kept, ValidFor, convertExpirationTime
      <4> QED
        BY <3>1, <4>1, Zenon
    <3> QED
      BY <3>3, <3>4, Zenon
  <2>4. /\ attr \in [mtime : Nat, until : Int]
        /\ attr.until # Past => attr.mtime = a.mtime /\ attr.until = a.attrExp
    <3>1. NoAttributes \in [mtime : Nat, until : Int] /\ NoAttributes.until = Past
      BY DEF NoAttributes, Past
    <3>2. PICK exp \in Int, now \in Nat, k \in Nat : exp = a.attrExp /\ now = moment /\ k = a.mtime
      BY <2>1, Zenon
    <3>3. CASE exp > now
      <4>1. ValidFor(exp) = exp - now /\ exp - now > 0 /\ now + (exp - now) = exp
        BY <3>2, <3>3 DEF ValidFor, convertExpirationTime
      <4>2. attr = [[NoAttributes EXCEPT !.mtime = k] EXCEPT !.until = exp]
        BY <3>2, <4>1, Zenon DEF Kept
      <4> QED
        BY <3>2, <4>2, Zenon DEF NoAttributes
    <3>4. CASE ~(exp > now)
      <4>1. attr = NoAttributes
        BY <3>2, <3>4 DEF Kept, ValidFor, convertExpirationTime
      <4> QED
        BY <3>1, <4>1, Zenon
    <3> QED
      BY <3>3, <3>4, Zenon
  <2>5. attr.until # Past => AttributesOK(a.mtime, a.attrExp)
    BY <2>1, <2>4, Zenon DEF PendingOK, PendingRecords
  <2>6. r.op = "lookup" => r.name \in Names /\ EntryOK(r.name, a.id, a.entryExp) /\ IssuedFor(r.name, a.id)
    BY <2>1, EntryIsIssued, Zenon DEF PendingOK
  <2> HIDE DEF entry, attr
  <2>7. /\ issued' \in [AllIDs -> Names \cup {"none"}]
        /\ \A i \in AllIDs : issued[i] # "none" => issued'[i] = issued[i]
        /\ \A i \in AllIDs : issued'[i] # "none" => IssuedFor(issued'[i], i)
    <3>1. CASE r.op = "lookup"
      <4>1. issued' = [issued EXCEPT ![a.id] = r.name]
        BY <2>2, <3>1, Zenon
      <4>2. issued[a.id] # "none" => issued[a.id] = r.name
        BY <2>1, <2>6, <3>1, OffsetsDiffer, Zenon DEF CachingInv, IssuedFor
      <4> QED
        BY <2>1, <2>6, <3>1, <4>1, <4>2, Zenon DEF CachingInv
    <3>2. CASE r.op # "lookup"
      BY <2>2, <3>2, Zenon DEF CachingInv
    <3> QED
      BY <3>1, <3>2, Zenon
  <2>8. ASSUME NEW o \in pending' PROVE o \in PendingRecords /\ PendingOK(o)'
    <3>1. o \in PendingRecords /\ PendingOK(o)
      BY <2>2, Zenon DEF CachingInv
    <3>2. o.op = "getattr" => issued'[o.inode] = issued[o.inode] /\ issued[o.inode] \in Names
      BY <2>7, <3>1, Zenon DEF PendingOK, PendingRecords, Names
    <3> QED
      BY <2>2, <3>1, <3>2, Zenon DEF PendingOK, EntryOK, AttributesOK, Renumberings, IssuedFor
  <2>9. /\ dentry' \in [Names -> [id : AllIDs, until : Int]]
        /\ (\A name \in Names : dentry[name].until # Past => EntryOK(name, dentry[name].id, dentry[name].until))'
    <3>1. CASE r.op = "lookup"
      <4>1. dentry' = [dentry EXCEPT ![r.name] = entry]
        BY <2>2, <3>1, Zenon
      <4>2. dentry' \in [Names -> [id : AllIDs, until : Int]]
        BY <2>3, <2>6, <3>1, <4>1, Zenon DEF CachingInv
      <4>3. ASSUME NEW name \in Names, dentry'[name].until # Past
            PROVE  EntryOK(name, dentry'[name].id, dentry'[name].until)
        <5>1. CASE name = r.name
          BY <2>3, <2>6, <3>1, <4>1, <4>3, <5>1, Zenon DEF CachingInv
        <5>2. CASE name # r.name
          BY <4>1, <4>3, <5>2, Zenon DEF CachingInv
        <5> QED
          BY <5>1, <5>2, Zenon
      <4> QED
        BY <2>2, <4>2, <4>3, Zenon DEF EntryOK, Renumberings
    <3>2. CASE r.op # "lookup"
      BY <2>2, <3>2, Zenon DEF CachingInv, EntryOK, Renumberings
    <3> QED
      BY <3>1, <3>2, Zenon
  <2>10. /\ attrCache' \in [AllIDs -> [mtime : Nat, until : Int]]
         /\ (\A i \in AllIDs : attrCache[i].until # Past => AttributesOK(attrCache[i].mtime, attrCache[i].until))'
    <3>1. attrCache' \in [AllIDs -> [mtime : Nat, until : Int]]
      BY <2>2, <2>4, Zenon DEF CachingInv
    <3>2. ASSUME NEW i \in AllIDs, attrCache'[i].until # Past
          PROVE  AttributesOK(attrCache'[i].mtime, attrCache'[i].until)
      <4>1. CASE i = a.id
        BY <2>2, <2>4, <2>5, <3>2, <4>1, Zenon DEF CachingInv
      <4>2. CASE i # a.id
        BY <2>2, <3>2, <4>2, Zenon DEF CachingInv
      <4> QED
        BY <4>1, <4>2, Zenon
    <3> QED
      BY <2>2, <3>1, <3>2, Zenon DEF AttributesOK
  <2>11. Renumberings' = Renumberings
    BY <2>2, Zenon DEF Renumberings
  <2>12. (\A i \in AllIDs : issued[i] # "none" => IssuedFor(issued[i], i))'
    BY <2>7, Zenon DEF IssuedFor
  <2> QED
    BY <2>2, <2>7, <2>8, <2>9, <2>10, <2>11, <2>12, Zenon DEF CachingInv
<1>11. CASE UNCHANGED cachingVars
  <2>1. UNCHANGED <<moment, baseID, mtime, renumberedAt, touchedAt, pending, dentry, attrCache, issued>>
    BY <1>11, Zenon DEF cachingVars
  <2> QED
    BY <2>1, ZenonT(40) DEF CachingInv, PendingOK, EntryOK, AttributesOK, Renumberings, IssuedFor
<1> QED
  BY <1>2, <1>4, <1>5, <1>7, <1>8, <1>9, <1>10, <1>11, ZenonT(40) DEF CachingNext

-----------------------------------------------------------------------------
(* What they promise *)

\* A reader of dynamicfs sees one moment, however many readers share the handles.
THEOREM ReadersSeeOneMoment == DynSpec => []DynSnapshot
<1>1. DynInv => DynSnapshot
  BY Zenon DEF DynInv
<1> QED
  BY <1>1, DynStart, DynStep, PTL DEF DynSpec

\* An op that interruptfs is to hold up returns only when it is interrupted, and fails
\* only then.
THEOREM HeldUntilInterrupted == IntrSpec => []HangsUntilInterrupted
<1>1. IntrInv => HangsUntilInterrupted
  BY Zenon DEF IntrInv
<1> QED
  BY <1>1, IntrStart, IntrStep, PTL DEF IntrSpec

\* The tests' WaitForFirstRead and WaitForFirstFlush return only once such an op has
\* arrived, can return from then on, and no number of ops that arrive at a time closes
\* a channel twice.
THEOREM ReleasedByArrival == IntrSpec => []WaitsForArrival
BY SignalsAreArrivals, IntrStart, IntrStep, PTL DEF IntrSpec

\* The kernel uses an old ID or an old mtime of cachingfs no longer than the timeout it
\* was given.
THEOREM CachedNoLonger == CachingSpec => []CachesExpire
<1>1. CachingInv => CachesExpire
  BY CachingGivesProperties, Zenon
<1> QED
  BY <1>1, CachingStart, CachingStep, PTL DEF CachingSpec

\* Every ID that cachingfs has issued is answered with the attributes of the file it was
\* issued for, however often the inodes have been renumbered since.
THEOREM IDsNameTheirFiles == CachingSpec => []OldIDsStillWork
<1>1. CachingInv => OldIDsStillWork
  BY CachingGivesProperties, Zenon
<1> QED
  BY <1>1, CachingStart, CachingStep, PTL DEF CachingSpec
=============================================================================
