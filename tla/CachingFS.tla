----------------------------- MODULE CachingFS -----------------------------
(***************************************************************************)
(* samples/cachingfs: a file "foo" and a directory "dir" with a file       *)
(* "bar", whose inode IDs and mtimes are changed behind the kernel's back  *)
(* while it may cache what it was told, for the times the file system      *)
(* gives with each answer.                                                 *)
(*                                                                         *)
(* The file system gives absolute times when it handles the request, the   *)
(* reply carries durations, computed when it is sent, and the kernel       *)
(* counts them from when it gets the reply, within the same writev.        *)
(***************************************************************************)
EXTENDS Integers, FiniteSets, Conversions

CONSTANTS MaxPending,           \* requests on their way at a time (a bound)
          Visited,              \* the names users look up
          Examined,             \* those they ask for the attributes of
          LookupEntryTimeout,   \* lookupEntryTimeout
          GetattrTimeout,       \* getattrTimeout
          LastMoment,           \* the clock stops there (a bound)
          MaxRenumbers,         \* calls of RenumberInodes (a bound)
          MaxMtimes             \* calls of SetMtime (a bound)

VARIABLES
    moment,        \* time.Now()
    baseID,        \* fs.baseID
    mtime,         \* fs.mtime: how many times it was set
    renumberedAt,  \* when the n-th renumbering took place
    touchedAt,     \* when the n-th mtime was set
    pending,       \* requests on their way, handled or not
    dentry,        \* the kernel's names: [id, until]
    attrCache,     \* the kernel's attributes by inode ID: [mtime, until]
    issued         \* the name each inode ID was given out for

cachingVars == <<moment, baseID, mtime, renumberedAt, touchedAt, pending, dentry, attrCache, issued>>

Root_ == 1
numInodes == 3
Names == {"foo", "dir", "bar"}

ASSUME CachingFSAssumption ==
    /\ Visited \subseteq Names /\ Examined \subseteq Names
    /\ {LookupEntryTimeout, GetattrTimeout, LastMoment, MaxRenumbers, MaxMtimes} \subseteq Nat

Offset(name) == CASE name = "foo" -> 0 [] name = "dir" -> 1 [] name = "bar" -> 2
RoundUp(n) == numInodes * ((n + numInodes - 1) \div numInodes)
FirstBase == RoundUp(Root_ + 1)
AllIDs == 0 .. FirstBase + numInodes * (MaxRenumbers + 1)
Past == -1        \* an expiration that was never set, or is over at once

NoEntry == [id |-> 0, until |-> Past]
NoAttributes == [mtime |-> 0, until |-> Past]
NoReply == [id |-> 0, kind |-> "none", mtime |-> 0, entryExp |-> Past, attrExp |-> Past, err |-> "none"]
Sent(op, name, i) == [op |-> op, at |-> "sent", name |-> name, inode |-> i, reply |-> NoReply]

\* NewCachingFS.
CachingInit ==
    /\ moment = 0 /\ baseID = FirstBase /\ mtime = 0
    /\ renumberedAt = [n \in 1 .. MaxRenumbers |-> 0]
    /\ touchedAt = [n \in 1 .. MaxMtimes |-> 0]
    /\ pending = {}
    /\ dentry = [name \in Names |-> NoEntry]
    /\ attrCache = [i \in AllIDs |-> NoAttributes]
    /\ issued = [i \in AllIDs |-> "none"]

Renumberings == (baseID - FirstBase) \div numInodes

\* What expires is dropped from the kernel's caches (external).
CachingTick ==
    /\ moment < LastMoment
    /\ moment' = moment + 1
    /\ dentry' = [name \in Names |-> IF dentry[name].until > moment THEN dentry[name] ELSE NoEntry]
    /\ attrCache' = [i \in AllIDs |-> IF attrCache[i].until > moment THEN attrCache[i] ELSE NoAttributes]
    /\ UNCHANGED <<baseID, mtime, renumberedAt, touchedAt, pending, issued>>

\* Seeded bug: the new IDs start where the old ones end.
RenumberedLow == baseID + numInodes - 1
Renumbered == baseID + numInodes

RenumberInodes ==
    /\ Renumberings < MaxRenumbers
    /\ baseID' = Renumbered
    /\ renumberedAt' = [renumberedAt EXCEPT ![Renumberings + 1] = moment]
    /\ UNCHANGED <<moment, mtime, touchedAt, pending, dentry, attrCache, issued>>

SetMtime ==
    /\ mtime < MaxMtimes
    /\ mtime' = mtime + 1
    /\ touchedAt' = [touchedAt EXCEPT ![mtime + 1] = moment]
    /\ UNCHANGED <<moment, baseID, renumberedAt, pending, dentry, attrCache, issued>>

Fresh(until) == until >= moment

\* A user looks up a name the kernel has not cached; the parent of "bar" is
\* whatever the kernel has cached for "dir" (external).
UserLooksUp(name) ==
    /\ Cardinality(pending) < MaxPending /\ ~Fresh(dentry[name].until)
    /\ name = "bar" => Fresh(dentry["dir"].until)
    /\ pending' = pending \cup {Sent("lookup", name, IF name = "bar" THEN dentry["dir"].id ELSE Root_)}
    /\ UNCHANGED <<moment, baseID, mtime, renumberedAt, touchedAt, dentry, attrCache, issued>>

\* A user asks for the attributes of an inode it has open (external).
UserStats(i) ==
    /\ Cardinality(pending) < MaxPending /\ issued[i] \in Examined /\ ~Fresh(attrCache[i].until)
    /\ pending' = pending \cup {Sent("getattr", "none", i)}
    /\ UNCHANGED <<moment, baseID, mtime, renumberedAt, touchedAt, dentry, attrCache, issued>>

\* LookUpInode; only the entry is cacheable.
CachingLookUp(name, parent) ==
    LET parentOK == IF name = "bar" THEN parent # Root_ /\ parent % numInodes = Offset("dir")
                    ELSE parent = Root_
    IN  IF ~parentOK THEN [NoReply EXCEPT !.err = "ENOENT"]
        ELSE [NoReply EXCEPT !.id = baseID + Offset(name), !.kind = name, !.mtime = mtime,
                             !.entryExp = moment + LookupEntryTimeout]

\* Seeded bug: the attributes are given the time of the entries.
CachingGetattrLong(i) ==
    [NoReply EXCEPT !.id = i, !.mtime = mtime, !.attrExp = moment + LookupEntryTimeout,
                    !.kind = CHOOSE name \in Names : Offset(name) = i % numInodes]

\* GetInodeAttributes, of an inode other than the root.
CachingGetattr(i) ==
    [NoReply EXCEPT !.id = i, !.mtime = mtime, !.attrExp = moment + GetattrTimeout,
                    !.kind = CHOOSE name \in Names : Offset(name) = i % numInodes]

CachingHandle(r) ==
    LET reply == IF r.op = "lookup" THEN CachingLookUp(r.name, r.inode) ELSE CachingGetattr(r.inode)
    IN  /\ r.at = "sent"
        /\ pending' = (pending \ {r}) \cup {[r EXCEPT !.at = "handled", !.reply = reply]}
        /\ UNCHANGED <<moment, baseID, mtime, renumberedAt, touchedAt, dentry, attrCache, issued>>

\* Seeded bug: the duration of an entry is counted from the reply on.
ValidForTimeout(t) == IF t = Past THEN 0 ELSE LookupEntryTimeout
ValidFor(t) == convertExpirationTime(t, moment)

Kept(none, e, t) == IF ValidFor(t) > 0 THEN [e EXCEPT !.until = moment + ValidFor(t)] ELSE none

\* The reply is sent, and the kernel keeps what it may keep (external but for
\* the conversion of the expiration times).
CachingReply(r) ==
    LET a == r.reply
    IN  /\ r.at = "handled"
        /\ pending' = pending \ {r}
        /\ dentry' = IF r.op = "lookup" /\ a.err = "none"
                     THEN [dentry EXCEPT ![r.name] = Kept(NoEntry, [NoEntry EXCEPT !.id = a.id], a.entryExp)] ELSE dentry
        /\ issued' = IF r.op = "lookup" /\ a.err = "none" THEN [issued EXCEPT ![a.id] = r.name] ELSE issued
        /\ attrCache' = IF a.err = "none"
                        THEN [attrCache EXCEPT ![a.id] =
                               Kept(NoAttributes, [NoAttributes EXCEPT !.mtime = a.mtime], a.attrExp)]
                        ELSE attrCache
        /\ UNCHANGED <<moment, baseID, mtime, renumberedAt, touchedAt>>

CachingNext ==
    \/ CachingTick \/ RenumberInodes \/ SetMtime
    \/ \E name \in Visited : UserLooksUp(name)
    \/ \E i \in AllIDs : UserStats(i)
    \/ \E r \in pending : CachingHandle(r) \/ CachingReply(r)

CachingSpec == CachingInit /\ [][CachingNext]_cachingVars

\* With checkInvariants.
CachingTypeOK ==
    /\ baseID > Root_ /\ baseID % numInodes = 0
    /\ moment \in 0 .. LastMoment /\ mtime \in 0 .. MaxMtimes
    /\ \A r \in pending : r.at \in {"sent", "handled"} /\ r.op \in {"lookup", "getattr"}

\* "LookUpInodeResponse.Entry.EntryExpiration is set according to
\* lookupEntryTimeout", "GetInodeAttributesResponse.AttributesExpiration is set
\* according to getattrTimeout", and "the attributes returned by LookUpInode are
\* not cacheable": the kernel uses the old ID of a name at most
\* lookupEntryTimeout longer than the file system does, and shows an old mtime
\* at most getattrTimeout longer, however long the answers were on their way.
CachesExpire ==
    /\ \A name \in Names :
         LET gen == (dentry[name].id - Offset(name) - FirstBase) \div numInodes
         IN  Fresh(dentry[name].until) /\ gen < Renumberings =>
               moment - renumberedAt[gen + 1] <= LookupEntryTimeout
    /\ \A i \in AllIDs :
         Fresh(attrCache[i].until) /\ attrCache[i].mtime < mtime =>
           moment - touchedAt[attrCache[i].mtime + 1] <= GetattrTimeout

\* "Inode IDs are issued such that 'foo' always receives an ID that is congruent
\* to fooOffset modulo numInodes": an ID, current or not, is answered with the
\* attributes of the file it was issued for, and an old ID of "dir" will do to
\* look up "bar".
OldIDsStillWork ==
    \A r \in pending : r.at = "handled" =>
      /\ r.reply.err = "none"
      /\ r.op = "getattr" => r.reply.kind = issued[r.inode]
=============================================================================
