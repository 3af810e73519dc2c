----------------------------- MODULE FuseKernel -----------------------------
(***************************************************************************)
(* The kernel end of /dev/fuse.  The kernel is not part of the repository: *)
(* this module says what the code relies on, as far as src/ shows it       *)
(* (connection.go reads, writes and comments; fuseops/ops.go; mount.go).   *)
(*                                                                         *)
(* The r-th request the kernel issues carries a kind (what kind of op it   *)
(* converts to) and a "unique" ID.  IDs may be reused, as osxfuse does, as *)
(* soon as the kernel is done with the request that had them.              *)
(***************************************************************************)
EXTENDS Naturals, FiniteSets

CONSTANTS
    MaxReqs,         \* how many requests the kernel issues (a bound)
    MaxInterrupts,   \* and how many of them it interrupts (a bound)
    IDs,             \* values of the "unique" header field
    Kinds,           \* kinds of request the kernel sends once the mount is up
    FirstKinds,      \* kinds it may send as the very first request
    ReusedAtOnce,    \* no-reply kinds whose ID is reusable once delivered
    AbortedKinds     \* kinds that may be outstanding when the connection goes away

\* "init"/"initOld": FUSE_INIT with a supported / a too old version;
\* "op": any op with a reply; "wait": one whose handler returns only when its
\* context is cancelled; "rw": ReadFile or WriteFile with a Callback;
\* "forget", "batch": ForgetInode and BatchForget;
\* "bad": a message convertInMessage refuses.
AllKinds == {"init", "initOld", "op", "wait", "rw", "forget", "batch", "bad"}
NoReply == {"forget", "batch"}

Reqs == 1 .. MaxReqs

ASSUME KernelAssumption ==
    /\ MaxReqs \in Nat /\ MaxInterrupts \in Nat
    /\ IDs # {}
    /\ Kinds \subseteq AllKinds \ {"init", "initOld"}
    /\ FirstKinds \subseteq AllKinds
    /\ ReusedAtOnce \subseteq NoReply
    /\ AbortedKinds \subseteq AllKinds

VARIABLES
    kconn,        \* "new" until FUSE_INIT is answered, then "up", at last "down"
    kind,         \* kind[r], meaningful once r is issued
    uniq,         \* uniq[r], likewise
    ksta,         \* what the kernel thinks of r
    intr,         \* requests with an interrupt waiting to be read
    interrupted   \* requests ever interrupted (history)

kvars == <<kconn, kind, uniq, ksta, intr, interrupted>>

KStates == {"unissued", "pending", "sent", "over", "answered", "aborted"}

KTypeOK ==
    /\ kconn \in {"new", "up", "down"}
    /\ kind \in [Reqs -> AllKinds]
    /\ uniq \in [Reqs -> IDs]
    /\ ksta \in [Reqs -> KStates]
    /\ intr \subseteq Reqs
    /\ interrupted \subseteq Reqs

KInit ==
    /\ kconn = "new"
    /\ kind = [r \in Reqs |-> "op"]
    /\ uniq = [r \in Reqs |-> CHOOSE u \in IDs : TRUE]
    /\ ksta = [r \in Reqs |-> "unissued"]
    /\ intr = {}
    /\ interrupted = {}

\* The kernel still associates u with some request.
IDInUse(u) ==
    \E r \in Reqs : ksta[r] \in {"pending", "sent", "aborted"} /\ uniq[r] = u

\* Nothing but one first request is sent before FUSE_INIT has been answered.
MayIssue(k) ==
    \/ kconn = "new" /\ k \in FirstKinds /\ \A r \in Reqs : ksta[r] = "unissued"
    \/ kconn = "up" /\ k \in Kinds

Issue(r, k, u) ==
    /\ ksta[r] = "unissued" /\ \A q \in 1 .. r - 1 : ksta[q] # "unissued"
    /\ MayIssue(k)
    /\ ~IDInUse(u)
    /\ kind' = [kind EXCEPT ![r] = k]
    /\ uniq' = [uniq EXCEPT ![r] = u]
    /\ ksta' = [ksta EXCEPT ![r] = "pending"]
    /\ UNCHANGED <<kconn, intr, interrupted>>

\* An interrupt is sent only for a request that was delivered and not answered
\* (the reading of the protocol in handleInterrupt's comment).
Interrupt(r) ==
    /\ kconn = "up"
    /\ ksta[r] = "sent"
    /\ kind[r] \notin NoReply
    /\ r \notin interrupted /\ Cardinality(interrupted) < MaxInterrupts
    /\ intr' = intr \cup {r}
    /\ interrupted' = interrupted \cup {r}
    /\ UNCHANGED <<kconn, kind, uniq, ksta>>

\* Effect of the end of the connection: what was outstanding is aborted.
KHangup ==
    /\ kconn' = "down"
    /\ ksta' = [r \in Reqs |->
                  IF ksta[r] \in {"pending", "sent"} THEN "aborted" ELSE ksta[r]]
    /\ intr' = {}
    /\ UNCHANGED <<kind, uniq, interrupted>>

\* A request whose answer the kernel waits for.
Outstanding(r) == ksta[r] \in {"pending", "sent"} /\ kind[r] \notin NoReply

\* umount(2), a forced or lazy one, or a fusectl abort.
Unmount ==
    /\ kconn # "down"
    /\ \A r \in Reqs : Outstanding(r) => kind[r] \in AbortedKinds
    /\ KHangup

\* read(2) delivers r.  The kernel chooses the order among pending requests.
KDeliver(r) ==
    /\ kconn # "down"
    /\ ksta[r] = "pending"
    /\ ksta' = [ksta EXCEPT ![r] =
                  IF kind[r] \in ReusedAtOnce THEN "over" ELSE "sent"]
    /\ UNCHANGED <<kconn, kind, uniq, intr, interrupted>>

\* read(2) delivers the interrupt for r.
KDeliverInterrupt(r) ==
    /\ r \in intr
    /\ intr' = intr \ {r}
    /\ UNCHANGED <<kconn, kind, uniq, ksta, interrupted>>

\* The request a reply with header unique = u is taken for.
Matches(r, u) == Outstanding(r) /\ ksta[r] = "sent" /\ uniq[r] = u

\* write(2) of a reply to u: it fails if no request waits for it, as after the
\* connection has gone.  ok: the reply to FUSE_INIT accepts the mount.
KWrite(u, ok) ==
    IF \E r \in Reqs : Matches(r, u)
    THEN \E r \in Reqs :
           /\ Matches(r, u)
           /\ ksta' = [ksta EXCEPT ![r] = "answered"]
           /\ intr' = intr \ {r}
           /\ kconn' = IF kconn = "new" /\ ok THEN "up" ELSE kconn
           /\ UNCHANGED <<kind, uniq, interrupted>>
    ELSE UNCHANGED kvars
=============================================================================
