------------------------------ MODULE ForgetFS -----------------------------
(***************************************************************************)
(* samples/forgetfs: the lookup counts of a file system against those of   *)
(* the kernel.  A reply with a child entry raises the kernel's count when  *)
(* it arrives, a FORGET lowers the file system's when it is handled, and   *)
(* requests are handled concurrently and in any order.                     *)
(*                                                                         *)
(* Requests, replies and forgets under way are counted per inode.  How the *)
(* kernel divides what it forgets into ForgetInode ops and the entries of  *)
(* BatchForget ops is left open.                                           *)
(***************************************************************************)
EXTENDS Integers

LOCAL INSTANCE FiniteSetsExt

CONSTANTS
    MaxInodeID,   \* inode IDs the file system reaches (a bound)
    MaxLookups,   \* lookups the kernel holds of an inode (a bound)
    MaxOps        \* ops under way at once (a bound)

ASSUME ForgetFSAssumption ==
    /\ MaxInodeID \in Nat /\ MaxInodeID >= 3
    /\ MaxLookups \in Nat \ {0} /\ MaxOps \in Nat \ {0}

VARIABLES
    lookupCount,   \* inode.lookupCount of each inode
    lookedUp,      \* the inodes with inode.lookedUp set
    nextInodeID,   \* fs.nextInodeID; the inodes below it are in fs.inodes
    phase,         \* "serving", "ended" (connection closed) or "destroyed"
    panicked,      \* a method has panicked
    nlookup,       \* the kernel's count of each inode
    sent,          \* ops of each kind on each inode, not handled yet
    answered,      \* ops on each inode handled, their replies not consumed yet
    entries,       \* replies under way with an entry for each inode
    forgets        \* lookups of each inode the kernel has given up, not handled yet

fsVars == <<lookupCount, lookedUp, nextInodeID, phase, panicked>>
kernelVars == <<nlookup, sent, answered, entries, forgets>>
vars == <<lookupCount, lookedUp, nextInodeID, phase, panicked,
          nlookup, sent, answered, entries, forgets>>

IDs == 1 .. MaxInodeID
Root == 1
Foo == 2
Bar == 3
Next_ == 4      \* cannedID_Next

\* LookUpInode; MkDir and CreateFile; methods that only use the inode
\* (GetInodeAttributes, OpenFile, OpenDir).
Kinds == {"lookup", "make", "use"}

\* What New adds for the canned inodes.
Canned(i) == IF i \in {Foo, Bar} THEN 1 ELSE 0

TypeOK ==
    /\ lookupCount \in [IDs -> Nat]
    /\ lookedUp \subseteq IDs
    /\ nextInodeID \in Next_ .. MaxInodeID + 1
    /\ phase \in {"serving", "ended", "destroyed"}
    /\ panicked \in BOOLEAN
    /\ nlookup \in [IDs -> Nat]
    /\ sent \in [Kinds -> [IDs -> Nat]]
    /\ answered \in [IDs -> Nat]
    /\ entries \in [IDs -> Nat]
    /\ forgets \in [IDs -> Nat]

Init ==
    /\ lookupCount = [i \in IDs |-> IF i < Next_ THEN 1 ELSE 0]
    /\ lookedUp = {i \in IDs : i < Next_}
    /\ nextInodeID = Next_
    /\ phase = "serving"
    /\ panicked = FALSE
    /\ nlookup = [i \in IDs |-> IF i = Root THEN 1 ELSE 0]
    /\ sent = [k \in Kinds |-> [i \in IDs |-> 0]]
    /\ answered = [i \in IDs |-> 0]
    /\ entries = [i \in IDs |-> 0]
    /\ forgets = [i \in IDs |-> 0]

-----------------------------------------------------------------------------
(* The kernel (external) *)

Underway(i) == sent["lookup"][i] + sent["make"][i] + sent["use"][i] + answered[i]

\* A request on an inode the kernel holds.
Send(k, i) ==
    /\ phase = "serving"
    /\ nlookup[i] > 0
    /\ MapThenSumSet(Underway, IDs) < MaxOps
    /\ sent' = [sent EXCEPT ![k][i] = @ + 1]
    /\ UNCHANGED <<fsVars, nlookup, answered, entries, forgets>>

\* The entry of a reply is taken over, and its inode held once more.
ReceiveEntry(i) ==
    /\ phase = "serving"
    /\ entries[i] > 0
    /\ entries' = [entries EXCEPT ![i] = @ - 1]
    /\ nlookup' = [nlookup EXCEPT ![i] = @ + 1]
    /\ UNCHANGED <<fsVars, sent, answered, forgets>>

\* The request that a reply answers is over.
Consume(i) ==
    /\ phase = "serving"
    /\ answered[i] > 0
    /\ answered' = [answered EXCEPT ![i] = @ - 1]
    /\ UNCHANGED <<fsVars, nlookup, sent, entries, forgets>>

\* The kernel gives up n lookups of an inode; all of them only once no request is
\* under way on it.  The root is held as long as the file system is mounted.
Forget(i, n) ==
    /\ phase = "serving"
    /\ i # Root /\ n <= nlookup[i]
    /\ n = nlookup[i] => answered[i] = 0 /\ \A k \in Kinds : sent[k][i] = 0
    /\ nlookup' = [nlookup EXCEPT ![i] = @ - n]
    /\ forgets' = [forgets EXCEPT ![i] = @ + n]
    /\ UNCHANGED <<fsVars, sent, answered, entries>>

\* Unmount.  Ops the server has read are still handled; what it has not read is
\* never delivered.
Unmount ==
    /\ phase = "serving"
    /\ phase' = "ended"
    /\ UNCHANGED <<lookupCount, lookedUp, nextInodeID, panicked, kernelVars>>

-----------------------------------------------------------------------------
(* The file system.  Every method runs under fs.mu. *)

Forgotten(i) == i \in lookedUp /\ lookupCount[i] = 0

\* findInodeByID does not panic.
Finds(i) == i < nextInodeID /\ ~Forgotten(i)

Panics == panicked' = TRUE /\ UNCHANGED <<lookupCount, lookedUp, nextInodeID, phase, kernelVars>>

\* The op is taken from those under way, and its reply given.
Handled(k, i) ==
    /\ phase # "destroyed" /\ ~panicked
    /\ sent[k][i] > 0
    /\ sent' = [sent EXCEPT ![k][i] = @ - 1]
    /\ answered' = [answered EXCEPT ![i] = @ + 1]
    /\ UNCHANGED <<nlookup, forgets, phase, panicked>>

\* Seeded bug: the entry is returned without counting it.
IncrementLookupCountLost(i) ==
    /\ lookedUp' = lookedUp \cup {i}
    /\ UNCHANGED lookupCount

IncrementLookupCount(i) ==
    /\ lookupCount' = [lookupCount EXCEPT ![i] = @ + 1]
    /\ lookedUp' = lookedUp \cup {i}

\* LookUpInode: the children are foo and bar, in the root; any other name is not
\* there (ENOENT).
LookUpInode(i) ==
    /\ sent["lookup"][i] > 0 /\ phase # "destroyed" /\ ~panicked
    /\ IF ~Finds(i) THEN Panics
       ELSE \/ /\ Handled("lookup", i)
               /\ UNCHANGED <<lookupCount, lookedUp, entries, nextInodeID>>
            \/ \E child \in {Foo, Bar} :
                 /\ i = Root
                 /\ IF ~Finds(child) THEN Panics
                    ELSE /\ Handled("lookup", i)
                         /\ lookupCount[child] < Canned(child) + MaxLookups
                         /\ IncrementLookupCount(child)
                         /\ entries' = [entries EXCEPT ![child] = @ + 1]
                         /\ UNCHANGED nextInodeID

\* Seeded bug: the ID is given out again.
MintSameID(i) ==
    /\ sent["make"][i] > 0 /\ phase # "destroyed" /\ ~panicked
    /\ IF ~Finds(i) THEN Panics
       ELSE /\ Handled("make", i)
            /\ nextInodeID <= MaxInodeID
            /\ nextInodeID' = Next_ + 1
            /\ IncrementLookupCount(Next_)
            /\ entries' = [entries EXCEPT ![Next_] = @ + 1]

\* MkDir and CreateFile: a new inode, which appears to be unlinked at once.
Mint(i) ==
    /\ sent["make"][i] > 0 /\ phase # "destroyed" /\ ~panicked
    /\ IF ~Finds(i) THEN Panics
       ELSE /\ Handled("make", i)
            /\ nextInodeID <= MaxInodeID
            /\ nextInodeID' = nextInodeID + 1
            /\ IncrementLookupCount(nextInodeID)
            /\ entries' = [entries EXCEPT ![nextInodeID] = @ + 1]

\* GetInodeAttributes, OpenFile and OpenDir.
UseInode(i) ==
    /\ sent["use"][i] > 0 /\ phase # "destroyed" /\ ~panicked
    /\ IF ~Finds(i) THEN Panics
       ELSE /\ Handled("use", i)
            /\ UNCHANGED <<lookupCount, lookedUp, entries, nextInodeID>>

\* Seeded bug: a batch is handled both as a whole and entry by entry.
ForgetInodeTwice(i, n) ==
    /\ phase # "destroyed" /\ ~panicked
    /\ n <= forgets[i]
    /\ lookupCount' = [lookupCount EXCEPT ![i] = @ - 2 * n]
    /\ forgets' = [forgets EXCEPT ![i] = @ - n]
    /\ UNCHANGED <<lookedUp, nextInodeID, phase, panicked, nlookup, sent, answered, entries>>

\* ForgetInode, called by handleOp for a ForgetInodeOp and, since BatchForget is
\* not implemented, for every entry of a BatchForgetOp.
ForgetInode(i, n) ==
    /\ phase # "destroyed" /\ ~panicked
    /\ n <= forgets[i]
    /\ IF ~Finds(i) \/ lookupCount[i] < n THEN Panics
       ELSE /\ lookupCount' = [lookupCount EXCEPT ![i] = @ - n]
            /\ forgets' = [forgets EXCEPT ![i] = @ - n]
            /\ UNCHANGED <<lookedUp, nextInodeID, phase, panicked,
                           nlookup, sent, answered, entries>>

\* Destroy, once the server has finished the ops it has read.
Destroy ==
    /\ phase = "ended" /\ ~panicked
    /\ phase' = "destroyed"
    /\ lookupCount' = [i \in IDs |-> 0]
    /\ UNCHANGED <<lookedUp, nextInodeID, panicked, kernelVars>>

-----------------------------------------------------------------------------
Next ==
    \/ \E i \in IDs :
         \/ \E k \in Kinds : Send(k, i)
         \/ ReceiveEntry(i) \/ Consume(i)
         \/ \E n \in 1 .. MaxLookups : Forget(i, n) \/ ForgetInode(i, n)
         \/ LookUpInode(i) \/ Mint(i) \/ UseInode(i)
    \/ Unmount
    \/ Destroy

Spec == Init /\ [][Next]_vars

-----------------------------------------------------------------------------
(* Properties *)

\* No method panics: findInodeByID knows every inode it is asked for and has not
\* seen it forgotten, and DecrementLookupCount is never asked for too much, in
\* whatever order lookups, creations and forgets are handled.
NoPanic == ~panicked

\* The two sides agree: the file system's lookup count of an inode is what the
\* kernel holds, plus what is on its way to the kernel, plus what the kernel has
\* given up and the file system has not handled yet (plus one for a canned inode).
CountsBalance ==
    phase # "destroyed" =>
      \A i \in IDs :
        lookupCount[i] = Canned(i) + nlookup[i] + entries[i] + forgets[i]

\* An inode that has been forgotten stays so: its ID is not given out again, and no
\* reply with an entry for it is on its way (the file system "will panic ... if an
\* inode ID is re-used after we expect it to be dead").
DeadStaysDead == [][\A i \in IDs : Forgotten(i) => Forgotten(i)' /\ nlookup'[i] = nlookup[i]]_vars
=============================================================================
