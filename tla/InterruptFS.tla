---------------------------- MODULE InterruptFS ----------------------------
(***************************************************************************)
(* samples/interruptfs: reads and flushes that block until they are        *)
(* interrupted, and a test that waits for the first of them to arrive.     *)
(***************************************************************************)
EXTENDS Integers

CONSTANT Callers   \* processes in a read or close of the file

HeldKinds == {"read", "flush"}

VARIABLES
    blockFor,   \* fs.blockForReads, fs.blockForFlushes
    received,   \* is fs.readReceived, fs.flushReceived closed?
    mu,         \* the calls that hold fs.mu
    caller,     \* the calls: [kind, at, shouldBlock, cancelled, must, result]
    waiter,     \* the test's WaitForFirstRead, WaitForFirstFlush: "idle", "waiting", "returned"
    closedAgain  \* a closed channel was closed again

intrVars == <<blockFor, received, mu, caller, waiter, closedAgain>>

Unborn == [kind |-> "none", at |-> "user", shouldBlock |-> FALSE, cancelled |-> FALSE,
           must |-> FALSE, result |-> "none"]

\* Where a call is: outside, on its way, in one of the three places under fs.mu, in
\* the wait for its context, or back.
UnderLock == {"locked", "closing", "signalled"}
Places == {"user", "sent", "blocked", "done"} \cup UnderLock

IntrInit ==
    /\ blockFor = [k \in HeldKinds |-> FALSE]
    /\ received = [k \in HeldKinds |-> FALSE]
    /\ mu = {}
    /\ caller = [c \in Callers |-> Unborn]
    /\ waiter = [k \in HeldKinds |-> "idle"]
    /\ closedAgain = FALSE

\* EnableReadBlocking, EnableFlushBlocking.
EnableBlocking(k) ==
    /\ mu = {}
    /\ blockFor' = [blockFor EXCEPT ![k] = TRUE]
    /\ UNCHANGED <<received, mu, caller, waiter, closedAgain>>

\* WaitForFirstRead, WaitForFirstFlush.
WaitForFirst(k) ==
    /\ \/ waiter[k] = "idle" /\ waiter' = [waiter EXCEPT ![k] = "waiting"]
       \/ waiter[k] = "waiting" /\ received[k] /\ waiter' = [waiter EXCEPT ![k] = "returned"]
    /\ UNCHANGED <<blockFor, received, mu, caller, closedAgain>>

\* A process calls read or close (external); "must" remembers whether blocking
\* was enabled by then.
IntrCall(c, k) ==
    /\ caller[c] = Unborn
    /\ caller' = [caller EXCEPT ![c] = [Unborn EXCEPT !.kind = k, !.at = "sent", !.must = blockFor[k]]]
    /\ UNCHANGED <<blockFor, received, mu, waiter, closedAgain>>

\* The process is interrupted, and the context of its op cancelled: at any
\* moment before the op is answered (external).
IntrCancel(c) ==
    /\ caller[c].at \notin {"user", "done"} /\ ~caller[c].cancelled
    /\ caller' = [caller EXCEPT ![c].cancelled = TRUE]
    /\ UNCHANGED <<blockFor, received, mu, waiter, closedAgain>>

\* Seeded bug: FlushFile asks for the flag of the reads.
ShouldBlockRead(k) == blockFor["read"]
ShouldBlock(k) == blockFor[k]

\* Seeded bug: the lock is not taken.
IntrLockMissing(c) ==
    /\ caller[c].at = "sent"
    /\ caller' = [caller EXCEPT ![c].at = "locked", ![c].shouldBlock = ShouldBlock(caller[c].kind)]
    /\ UNCHANGED <<blockFor, received, mu, waiter, closedAgain>>

\* ReadFile, FlushFile: lock fs.mu and read the flag.
IntrLock(c) ==
    /\ caller[c].at = "sent" /\ mu = {}
    /\ mu' = {c}
    /\ caller' = [caller EXCEPT ![c].at = "locked", ![c].shouldBlock = ShouldBlock(caller[c].kind)]
    /\ UNCHANGED <<blockFor, received, waiter, closedAgain>>

\* The select: has this been signalled?
IntrSelect(c) ==
    /\ caller[c].at = "locked"
    /\ caller' = [caller EXCEPT ![c].at = IF received[caller[c].kind] THEN "signalled" ELSE "closing"]
    /\ UNCHANGED <<blockFor, received, mu, waiter, closedAgain>>

\* close, its default case; of a closed channel it panics.
IntrClose(c) ==
    /\ caller[c].at = "closing"
    /\ caller' = [caller EXCEPT ![c].at = "signalled"]
    /\ received' = [received EXCEPT ![caller[c].kind] = TRUE]
    /\ closedAgain' = received[caller[c].kind]
    /\ UNCHANGED <<blockFor, mu, waiter>>

\* Unlock; an op that is not to block returns.
IntrUnlock(c) ==
    /\ caller[c].at = "signalled"
    /\ mu' = mu \ {c}
    /\ caller' = [caller EXCEPT ![c].at = IF caller[c].shouldBlock THEN "blocked" ELSE "done",
                                ![c].result = IF caller[c].shouldBlock THEN "none" ELSE "OK"]
    /\ UNCHANGED <<blockFor, received, waiter, closedAgain>>

\* The rest of ReadFile, FlushFile: wait for the end of the context and return
\* ctx.Err(), no errno, which the kernel is told as EIO.
IntrReturn(c) ==
    /\ caller[c].at = "blocked" /\ caller[c].cancelled
    /\ caller' = [caller EXCEPT ![c].at = "done", ![c].result = "ctx.Err"]
    /\ UNCHANGED <<blockFor, received, mu, waiter, closedAgain>>

\* A panic ends the process.
IntrNext ==
    /\ ~closedAgain
    /\ \/ \E k \in HeldKinds : EnableBlocking(k) \/ WaitForFirst(k)
       \/ \E c \in Callers : \/ \E k \in HeldKinds : IntrCall(c, k)
                             \/ IntrCancel(c) \/ IntrLock(c) \/ IntrSelect(c) \/ IntrClose(c)
                             \/ IntrUnlock(c) \/ IntrReturn(c)

IntrSpec == IntrInit /\ [][IntrNext]_intrVars

IntrTypeOK ==
    /\ blockFor \in [HeldKinds -> BOOLEAN] /\ received \in [HeldKinds -> BOOLEAN]
    /\ mu \in SUBSET Callers /\ closedAgain \in BOOLEAN
    /\ \A c \in Callers : caller[c].at \in Places
    /\ waiter \in [HeldKinds -> {"idle", "waiting", "returned"}]

\* "ReadFile and FlushFile ops can be made to hang until interrupted": an op
\* called after blocking was enabled for its kind comes to its end only by an
\* interrupt, and an op fails only if it was interrupted.
HangsUntilInterrupted ==
    \A c \in Callers : caller[c].at = "done" =>
      /\ caller[c].must => caller[c].cancelled /\ caller[c].result = "ctx.Err"
      /\ caller[c].result = "ctx.Err" => caller[c].cancelled

\* "Exposes a method for synchronizing with the arrival of a read or a flush": however
\* many ops arrive at a time, the channel is closed once only (a second close would
\* panic); a test comes back from WaitForFirstRead only when a read is in the file
\* system, blocked or back, so that the process it then interrupts is in its read;
\* and once a read blocks or is back, the test is free to go.
WaitsForArrival ==
    /\ ~closedAgain
    /\ \A k \in HeldKinds : waiter[k] = "returned" =>
         \E c \in Callers : caller[c].kind = k /\ caller[c].at \in {"signalled", "blocked", "done"}
    /\ \A c \in Callers : caller[c].at \in {"blocked", "done"} => received[caller[c].kind]
=============================================================================
