------------------------------ MODULE MemXattr -----------------------------
(***************************************************************************)
(* samples/memfs: the extended attributes of one inode, and users who ask  *)
(* for a size and then fetch with a buffer of that size, while others set  *)
(* and remove attributes.  Every method runs under fs.mu and is one step.  *)
(* A value is its length, and so is a name with its zero byte: what        *)
(* matters is whether it fits.                                             *)
(***************************************************************************)
EXTENDS Integers, FiniteSets, Sequences, SequencesExt

CONSTANTS
    Users,      \* processes that read attributes
    Attrs,      \* attributes, each the length of its name with the zero byte
    MaxValue    \* lengths of values (a bound)

ASSUME MemXattrAssumption == Attrs \subseteq Nat \ {0} /\ MaxValue \in Nat

VARIABLES
    xattrs,     \* inode.xattrs, a function from the attributes that are set
    xattrReply, \* the last reply: the error, BytesRead, len(op.Dst) and the keys copied
    told        \* history: the size each user was told, until the attributes change

xattrVars == <<xattrs, xattrReply, told>>

List == 0                            \* what a user asks for: the list of names
Nothing == [of |-> -1, size |-> 0]
Flags == {"none", "XATTR_CREATE", "XATTR_REPLACE"}

XattrTypeOK ==
    /\ DOMAIN xattrs \subseteq Attrs
    /\ \A a \in DOMAIN xattrs : xattrs[a] \in 0 .. MaxValue
    /\ xattrReply \in [err : {"nil", "ERANGE", "ENOATTR", "EEXIST"}, n : Nat, dst : Nat,
                       keys : SUBSET Attrs]
    /\ told \in [Users -> [of : Attrs \cup {List, -1}, size : Nat]]

Returns(e, n, dst, keys) == xattrReply' = [err |-> e, n |-> n, dst |-> dst, keys |-> keys]

NoXattr == [err |-> "nil", n |-> 0, dst |-> 0, keys |-> {}]

XattrInit ==
    /\ xattrs = << >>
    /\ xattrReply = NoXattr
    /\ told = [u \in Users |-> Nothing]

Changes(new) == xattrs' = new /\ told' = [u \in Users |-> Nothing]

-----------------------------------------------------------------------------
\* setXattrHelper, for SetXattr and OpenFile's test attribute.
SetXattr(a, v, flags) ==
    LET Fails(e) == Returns(e, 0, 0, {}) /\ UNCHANGED <<xattrs, told>>
    IN  CASE flags = "XATTR_CREATE" /\ a \in DOMAIN xattrs -> Fails("EEXIST")
          [] flags = "XATTR_REPLACE" /\ a \notin DOMAIN xattrs -> Fails("ENOATTR")
          [] OTHER -> /\ Changes([b \in DOMAIN xattrs \cup {a} |-> IF b = a THEN v ELSE xattrs[b]])
                      /\ Returns("nil", 0, 0, {})

RemoveXattr(a) ==
    IF a \in DOMAIN xattrs
    THEN Changes([b \in DOMAIN xattrs \ {a} |-> xattrs[b]]) /\ Returns("nil", 0, 0, {})
    ELSE Returns("ENOATTR", 0, 0, {}) /\ UNCHANGED <<xattrs, told>>

\* The user remembers the size it is told when it asks with an empty buffer.
Told(u, of, size, dst) ==
    told' = IF dst = 0 THEN [told EXCEPT ![u] = [of |-> of, size |-> size]] ELSE told

\* Seeded bug: a value that does not fit is announced with its full length.
GetXattrNoRange(u, a, dst) ==
    /\ UNCHANGED xattrs
    /\ IF a \notin DOMAIN xattrs THEN Returns("ENOATTR", 0, dst, {}) /\ UNCHANGED told
       ELSE Returns("nil", xattrs[a], dst, {}) /\ Told(u, a, xattrs[a], dst)

\* Seeded bug: an empty buffer is too small as well.
GetXattrNoProbe(u, a, dst) ==
    /\ UNCHANGED xattrs
    /\ IF a \notin DOMAIN xattrs THEN Returns("ENOATTR", 0, dst, {}) /\ UNCHANGED told
       ELSE /\ Returns(IF dst <= xattrs[a] THEN "ERANGE" ELSE "nil", xattrs[a], dst, {})
            /\ Told(u, a, xattrs[a], dst)

GetXattr(u, a, dst) ==
    /\ UNCHANGED xattrs
    /\ IF a \notin DOMAIN xattrs THEN Returns("ENOATTR", 0, dst, {}) /\ UNCHANGED told
       ELSE IF dst < xattrs[a] /\ dst # 0
       THEN Returns("ERANGE", xattrs[a], dst, {}) /\ UNCHANGED told
       ELSE Returns("nil", xattrs[a], dst, {}) /\ Told(u, a, xattrs[a], dst)

\* The map's keys in some order.
Orders(keys) == {s \in [1 .. Cardinality(keys) -> keys] : IsInjective(s)}

\* Seeded bug: a name that does not fit is skipped.
CopyKeySkips(r, dst, key) ==
    IF key <= r.room
    THEN [r EXCEPT !.room = @ - key, !.n = @ + key, !.keys = @ \cup {key}]
    ELSE IF dst # 0 THEN r
    ELSE [r EXCEPT !.n = @ + key]

\* One round of the loop: the name is copied if it fits, and ends the loop if it
\* does not, unless the buffer is empty and the lengths are only added up.
CopyKey(r, dst, key) ==
    IF r.err # "nil" THEN r
    ELSE IF key <= r.room
    THEN [r EXCEPT !.room = @ - key, !.n = @ + key, !.keys = @ \cup {key}]
    ELSE IF dst # 0 THEN [r EXCEPT !.err = "ERANGE"]
    ELSE [r EXCEPT !.n = @ + key]

ListLoop(order, dst) ==
    FoldLeft(LAMBDA r, key : CopyKey(r, dst, key),
             [err |-> "nil", room |-> dst, n |-> 0, keys |-> {}], order)

ListXattr(u, dst) ==
    /\ \E order \in Orders(DOMAIN xattrs) :
         LET r == ListLoop(order, dst)
         IN  Returns(r.err, r.n, dst, r.keys) /\ Told(u, List, r.n, dst)
    /\ UNCHANGED xattrs

\* Users ask with an empty buffer, with the size they were told, or with some size.
Buffers(u, of) ==
    0 .. MaxValue \cup (IF told[u].of = of THEN {told[u].size} ELSE {})

XattrNext ==
    \/ \E a \in Attrs, v \in 0 .. MaxValue, f \in Flags : SetXattr(a, v, f)
    \/ \E a \in Attrs : RemoveXattr(a)
    \/ \E u \in Users, a \in Attrs : \E dst \in Buffers(u, a) : GetXattr(u, a, dst)
    \/ \E u \in Users : \E dst \in Buffers(u, List) : ListXattr(u, dst)

-----------------------------------------------------------------------------
(* Properties *)

\* A call of GetXattr or ListXattr that fetches the size a user was told.
FetchesToldSize(u) ==
    /\ told[u] # Nothing /\ xattrReply'.dst = told[u].size
    /\ \/ told[u].of = List /\ ListXattr(u, told[u].size)
       \/ \E a \in Attrs : told[u].of = a /\ GetXattr(u, a, told[u].size)

\* What GetXattr and ListXattr answer can be relied on.  A reply never has more
\* bytes than the buffer (kernelResponse shrinks it to BytesRead, and panics if
\* that is more than convertInMessage made room for); a list is never cut short,
\* whatever the order in which Go goes through the map; and the size a user was
\* told with an empty Dst is enough: fetching with it succeeds and fills the
\* buffer, unless the attributes have changed in between.
XattrRepliesRight ==
    [][LET ok == xattrReply'.err = "nil"
       IN  /\ ok /\ xattrReply'.dst > 0 => xattrReply'.n <= xattrReply'.dst
           /\ \A u \in Users : \A dst \in Buffers(u, List) \ {0} :
                ok /\ xattrReply'.dst = dst /\ ListXattr(u, dst) => xattrReply'.keys = DOMAIN xattrs
           /\ \A u \in Users : FetchesToldSize(u) => ok /\ xattrReply'.n = told[u].size]_xattrVars
=============================================================================
