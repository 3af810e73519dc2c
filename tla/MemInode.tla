------------------------------ MODULE MemInode -----------------------------
(***************************************************************************)
(* samples/memfs: a regular file with its contents and its extended        *)
(* attributes.  The methods share fs.mu; the reply that is looked at is    *)
(* that of the last one.                                                   *)
(***************************************************************************)
EXTENDS MemFile, MemXattr

vars == <<fileVars, xattrVars>>

TypeOK == FileTypeOK /\ XattrTypeOK

Init == FileInit /\ XattrInit

Next ==
    \/ FileNext /\ xattrReply' = NoXattr /\ UNCHANGED <<xattrs, told>>
    \/ XattrNext /\ fileReply' = NoRead("nil") /\ UNCHANGED <<file, posix>>

Spec == Init /\ [][Next]_vars
=============================================================================
