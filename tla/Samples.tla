------------------------------ MODULE Samples ------------------------------
(***************************************************************************)
(* The small file systems of samples/ side by side: a behaviour is one of  *)
(* one of them, chosen at the start, and the others stand still.  They     *)
(* share no state, so that this asks of each what a run of its own would.  *)
(***************************************************************************)
EXTENDS ForgetFS, MemFile, MemXattr, DirListing, FlushFS, DynamicFS, InterruptFS,
        CachingFS, LoopbackFS

VARIABLE sample    \* the one that moves

\* The order of the parts, for what stands still.
SampleParts == <<vars, fileVars, xattrVars, dirVars, flushVars, dynVars, intrVars, cachingVars, loopVars>>
sampleVars == <<SampleParts, sample>>

SamplesInit ==
    /\ sample \in {"forgetfs", "memfile", "memxattr", "listing", "flushfs", "dynamicfs",
                   "interruptfs", "cachingfs", "loopbackfs"}
    /\ Init /\ FileInit /\ XattrInit /\ FlushInit /\ DynInit /\ IntrInit /\ CachingInit /\ LoopInit
    /\ DirInit
    /\ sample # "listing" => dirKind = "dynamic"

Turn(s) == sample = s /\ UNCHANGED sample

SamplesNext ==
    \/ Turn("forgetfs") /\ Next
       /\ UNCHANGED <<fileVars, xattrVars, dirVars, flushVars, dynVars, intrVars, cachingVars, loopVars>>
    \/ Turn("memfile") /\ FileNext
       /\ UNCHANGED <<vars, xattrVars, dirVars, flushVars, dynVars, intrVars, cachingVars, loopVars>>
    \/ Turn("memxattr") /\ XattrNext
       /\ UNCHANGED <<vars, fileVars, dirVars, flushVars, dynVars, intrVars, cachingVars, loopVars>>
    \/ Turn("listing") /\ DirNext
       /\ UNCHANGED <<vars, fileVars, xattrVars, flushVars, dynVars, intrVars, cachingVars, loopVars>>
    \/ Turn("flushfs") /\ FlushNext
       /\ UNCHANGED <<vars, fileVars, xattrVars, dirVars, dynVars, intrVars, cachingVars, loopVars>>
    \/ Turn("dynamicfs") /\ DynNext
       /\ UNCHANGED <<vars, fileVars, xattrVars, dirVars, flushVars, intrVars, cachingVars, loopVars>>
    \/ Turn("interruptfs") /\ IntrNext
       /\ UNCHANGED <<vars, fileVars, xattrVars, dirVars, flushVars, dynVars, cachingVars, loopVars>>
    \/ Turn("cachingfs") /\ CachingNext
       /\ UNCHANGED <<vars, fileVars, xattrVars, dirVars, flushVars, dynVars, intrVars, loopVars>>
    \/ Turn("loopbackfs") /\ LoopNext
       /\ UNCHANGED <<vars, fileVars, xattrVars, dirVars, flushVars, dynVars, intrVars, cachingVars>>

SamplesSpec == SamplesInit /\ [][SamplesNext]_sampleVars

SamplesTypeOK ==
    TypeOK /\ FileTypeOK /\ XattrTypeOK /\ DirTypeOK /\ FlushTypeOK /\ DynTypeOK /\ IntrTypeOK /\ CachingTypeOK /\ LoopTypeOK
=============================================================================
