----------------------------- MODULE DynamicFS -----------------------------
(***************************************************************************)
(* samples/dynamicfs: files whose contents are made up when they are       *)
(* opened and kept under the handle.  The contents of a file are the file  *)
(* and the time of the opening.                                            *)
(*                                                                         *)
(* Handles are numbers modulo HandleRange (2^64 in the code), so that the  *)
(* counter comes round.                                                    *)
(***************************************************************************)
EXTENDS Integers, FiniteSets

CONSTANTS Readers,      \* who opens files: at most one each at a time
          HandleRange,  \* how many handles there are
          MaxTime       \* the clock stops there (a bound)

ASSUME DynamicFSAssumption == HandleRange \in Nat \ {0}

VARIABLES
    clock,         \* fs.clock
    nextHandle,    \* fs.nextHandle
    fileHandles,   \* fs.fileHandles: the contents of the handles in use
    reader,        \* the readers: [handle, file, opened, read]
    releasing,     \* ReleaseFileHandle requests not handled yet
    badRelease     \* did ReleaseFileHandle find no such handle?

dynVars == <<clock, nextHandle, fileHandles, reader, releasing, badRelease>>

Contents(file, t) == <<file, t>>
EIO_ == Contents("EIO", 0)
NoHandle == [handle |-> -1, file |-> "none", opened |-> 0, read |-> Contents("none", 0)]

DynInit ==
    /\ clock = 0 /\ nextHandle = 0
    /\ fileHandles = [h \in {} |-> << >>]
    /\ reader = [r \in Readers |-> NoHandle]
    /\ releasing = {} /\ badRelease = FALSE

Tick == clock < MaxTime /\ clock' = clock + 1 /\ UNCHANGED <<nextHandle, fileHandles, reader, releasing, badRelease>>

\* Seeded bug: the handle is not looked up among those in use.
FindNextHandle(handle) == handle

\* findUnusedHandle: the first handle from nextHandle on that is not in use.
FindUnusedHandle(handle) ==
    LET n == CHOOSE i \in 0 .. HandleRange - 1 :
               /\ (handle + i) % HandleRange \notin DOMAIN fileHandles
               /\ \A j \in 0 .. i - 1 : (handle + j) % HandleRange \in DOMAIN fileHandles
    IN  (handle + n) % HandleRange

\* OpenFile, with direct I/O: what is read is not cached.
DynOpenFile(r, file) ==
    LET h == FindUnusedHandle(nextHandle)
    IN  /\ reader[r] = NoHandle
        /\ nextHandle' = (h + 1) % HandleRange
        /\ fileHandles' = [k \in DOMAIN fileHandles \cup {h} |->
                             IF k = h THEN Contents(file, clock) ELSE fileHandles[k]]
        /\ reader' = [reader EXCEPT ![r] = [handle |-> h, file |-> file, opened |-> clock,
                                                  read |-> Contents(file, clock)]]
        /\ UNCHANGED <<clock, releasing, badRelease>>

\* ReadFile; EIO for a handle that is not open.
DynReadFile(r) ==
    LET h == reader[r].handle
    IN  /\ reader[r] # NoHandle
        /\ reader' = [reader EXCEPT ![r].read = IF h \in DOMAIN fileHandles THEN fileHandles[h] ELSE EIO_]
        /\ UNCHANGED <<clock, nextHandle, fileHandles, releasing, badRelease>>

\* The reader closes the file; the kernel sends the release later (external).
DynClose(r) ==
    /\ reader[r] # NoHandle
    /\ reader' = [reader EXCEPT ![r] = NoHandle]
    /\ releasing' = releasing \cup {reader[r].handle}
    /\ UNCHANGED <<clock, nextHandle, fileHandles, badRelease>>

\* ReleaseFileHandle; EIO for a handle that is not open.
DynRelease(h) ==
    /\ h \in releasing
    /\ releasing' = releasing \ {h}
    /\ badRelease' = (h \notin DOMAIN fileHandles)
    /\ fileHandles' = [k \in DOMAIN fileHandles \ {h} |-> fileHandles[k]]
    /\ UNCHANGED <<clock, nextHandle, reader>>

\* The kernel holds fewer open files and releases than there are handles.
DynNext ==
    \/ Tick
    \/ \E r \in Readers : \/ /\ Cardinality(DOMAIN fileHandles) < HandleRange
                             /\ \E file \in {"age", "weekday"} : DynOpenFile(r, file)
                          \/ DynReadFile(r)
                          \/ DynClose(r)
    \/ \E h \in releasing : DynRelease(h)

DynSpec == DynInit /\ [][DynNext]_dynVars

DynTypeOK ==
    /\ nextHandle \in 0 .. HandleRange - 1 /\ DOMAIN fileHandles \subseteq 0 .. HandleRange - 1
    /\ releasing \subseteq 0 .. HandleRange - 1 /\ clock \in 0 .. MaxTime

\* "Update file contents on (and only on) open": through its handle a reader
\* sees the contents its own file had when it was opened, until it closes it,
\* and its handle is there to be released, although the clock goes on, others
\* open and close files, releases come late and the counter of handles comes round.
DynSnapshot ==
    /\ \A r \in Readers : reader[r] # NoHandle =>
         reader[r].read = Contents(reader[r].file, reader[r].opened)
    /\ ~badRelease
=============================================================================
