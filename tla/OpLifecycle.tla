---------------------------- MODULE OpLifecycle ----------------------------
(***************************************************************************)
(* What a mounted file system promises the kernel and the FileSystem it    *)
(* serves, without buffers, IDs, maps or goroutines: every request is      *)
(* served at most once and answered at most once, by the op that served    *)
(* it; it goes unanswered only if it wants no answer or the kernel hung    *)
(* up; an op's context is cancelled only on request of the kernel and only *)
(* before the op ends; and the file system is destroyed last, after every  *)
(* op has ended.                                                           *)
(***************************************************************************)
EXTENDS Naturals

CONSTANT Requests

VARIABLES
    st,         \* the state of each request
    wants,      \* does the kernel want an answer to it?
    asked,      \* requests the kernel has asked to interrupt
    cancelled,  \* requests whose op's context was cancelled for that
    open,       \* is the kernel still there?
    destroyed   \* has the file system been destroyed?

avars == <<st, wants, asked, cancelled, open, destroyed>>

AInit ==
    /\ st = [r \in Requests |-> "none"]
    /\ wants = [r \in Requests |-> TRUE]
    /\ asked = {}
    /\ cancelled = {}
    /\ open = TRUE
    /\ destroyed = FALSE

\* The kernel submits r.
Submit(r, w) ==
    /\ open /\ st[r] = "none"
    /\ st' = [st EXCEPT ![r] = "queued"]
    /\ wants' = [wants EXCEPT ![r] = w]
    /\ UNCHANGED <<asked, cancelled, open, destroyed>>

\* An op for r begins.
Serve(r) ==
    /\ ~destroyed /\ st[r] = "queued"
    /\ st' = [st EXCEPT ![r] = "serving"]
    /\ UNCHANGED <<wants, asked, cancelled, open, destroyed>>

\* The kernel asks to interrupt r.
Ask(r) ==
    /\ open /\ wants[r] /\ st[r] \in {"queued", "serving"} /\ r \notin asked
    /\ asked' = asked \cup {r}
    /\ UNCHANGED <<st, wants, cancelled, open, destroyed>>

\* The op for r learns about it.
Cancel(r) ==
    /\ r \in asked \ cancelled /\ st[r] = "serving"
    /\ cancelled' = cancelled \cup {r}
    /\ UNCHANGED <<st, wants, asked, open, destroyed>>

\* The op ends, with the answer the kernel waits for ...
Answer(r) ==
    /\ open /\ wants[r] /\ st[r] = "serving"
    /\ st' = [st EXCEPT ![r] = "answered"]
    /\ UNCHANGED <<wants, asked, cancelled, open, destroyed>>

\* ... or with none.
EndUnanswered(r) ==
    /\ ~open \/ ~wants[r]
    /\ st[r] = "serving"
    /\ st' = [st EXCEPT ![r] = "unanswered"]
    /\ UNCHANGED <<wants, asked, cancelled, open, destroyed>>

\* The kernel hangs up, and takes some of the queued requests with it.
Hangup ==
    /\ open' = FALSE
    /\ \E D \in SUBSET {r \in Requests : st[r] = "queued"} :
         st' = [r \in Requests |-> IF r \in D THEN "dropped" ELSE st[r]]
    /\ UNCHANGED <<wants, asked, cancelled, destroyed>>

Destroy ==
    /\ ~open /\ ~destroyed
    /\ \A r \in Requests : st[r] \notin {"queued", "serving"}
    /\ destroyed' = TRUE
    /\ UNCHANGED <<st, wants, asked, cancelled, open>>

ANext ==
    \/ \E r \in Requests, w \in BOOLEAN : Submit(r, w)
    \/ \E r \in Requests : \/ Serve(r) \/ Ask(r) \/ Cancel(r)
                           \/ Answer(r) \/ EndUnanswered(r)
    \/ Hangup
    \/ Destroy

ASpec == AInit /\ [][ANext]_avars
=============================================================================
