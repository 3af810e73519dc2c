---- MODULE MountConfig ----
(***************************************************************************)
(* What a MountConfig turns into: the options given to the mount helper    *)
(* (mount_config.go), the arguments of a direct mount(2) (mount_linux.go)  *)
(* or of FUSE-T's server (mount_darwin.go) and the answer to the kernel's  *)
(* INIT (connection.go).                                                   *)
(*                                                                         *)
(* An option key or value is a sequence of tokens; a token is a word, a    *)
(* comma or a backslash, which is all that escaping and parsing tell       *)
(* apart. The empty value is <<>>.                                         *)
(***************************************************************************)
EXTENDS Naturals, Sequences, FiniteSetsExt, TLC

\* The elements of s taken from the left (the last of the indices 1 .. n is n, their
\* number), and the sequences in s joined.
TakenInTurn(op(_, _), base, s) ==
    MapThenFoldSet(LAMBDA x, y : op(y, x), base, LAMBDA i : s[i], Cardinality, DOMAIN s)
Joined(s) == TakenInTurn(LAMBDA x, y : x \o y, <<>>, s)

\* The orders in which Go may range over a map with these keys; and some of them, in
\* which only the key that comes first varies.
Orders(keys) == Injection(1 .. Cardinality(keys), keys)
SomeOrder(keys) ==
    MapThenFoldSet(LAMBDA k, order : <<k>> \o order, <<>>, LAMBDA k : k, LAMBDA s : CHOOSE k \in s : TRUE, keys)
SomeOrders(keys) == IF keys = {} THEN {<<>>} ELSE {<<k>> \o SomeOrder(keys \ {k}) : k \in keys}

Key(word) == <<word>>
NoOptions == [k \in {} |-> <<>>]
Option(present, key, value) == IF present THEN key :> value ELSE NoOptions

\* toMap writes the options one after the other, so that the last one
\* written wins: the user-supplied ones override the others.
toMap(c, darwin) ==
    c.Options
    @@ Option(darwin, Key("noappledouble"), <<>>)
    @@ Option(darwin /\ c.VolumeName # <<>>, Key("volname"), c.VolumeName)
    @@ Option(darwin /\ ~c.EnableVnodeCaching, Key("novncache"), <<>>)
    @@ Option(c.ReadOnly, Key("ro"), <<>>)
    @@ Option(c.Subtype # <<>>, Key("subtype"), c.Subtype)
    @@ Option(c.FSName # <<>> \/ ~darwin, Key("fsname"),
              IF c.FSName # <<>> THEN c.FSName ELSE Key("some_fuse_file_system"))
    @@ Option(~c.DisableDefaultPermissions, Key("default_permissions"), <<>>)

\* Seeded bug: the comma is forgotten.
EscapeBackslashOnly(s) ==
    Joined([i \in DOMAIN s |-> IF s[i] = "\\" THEN <<"\\", s[i]>> ELSE <<s[i]>>])

\* Backslashes first, then commas, so that no backslash is escaped twice.
escapeOptionsKey(s) ==
    Joined([i \in DOMAIN s |-> IF s[i] \in {"\\", ","} THEN <<"\\", s[i]>> ELSE <<s[i]>>])

\* One component of the options string. Values are not escaped.
Component(opts, k) ==
    escapeOptionsKey(k) \o (IF opts[k] # <<>> THEN <<"=">> \o opts[k] ELSE <<>>)

\* The options string, the components taken in the given order: Go ranges
\* over a map in any order.
mapToOptionsString(opts, order) ==
    IF order = <<>> THEN <<>>
    ELSE Tail(Joined([i \in DOMAIN order |-> <<",">> \o Component(opts, order[i])]))

HasComma(s) == \E i \in DOMAIN s : s[i] = ","

\* convertMountArgs refuses commas on OS X, whose helpers know no escaping.
CommasRefused(c) ==
    \E k \in DOMAIN toMap(c, TRUE) : HasComma(k) \/ HasComma(toMap(c, TRUE)[k])

(***************************************************************************)
(* Who reads the string (external) splits it at the commas and each        *)
(* component at its first equals sign.  For fusermount a backslash escapes *)
(* what follows it; the helpers of OS X and mount(2) know no escaping.     *)
(***************************************************************************)
ParseState == [done |-> NoOptions, key |-> <<>>, value |-> <<>>, part |-> "key", escaped |-> FALSE]
Finish(p) == IF p.key = <<>> THEN p.done ELSE p.key :> p.value @@ p.done
Put(p, t) == IF p.part = "key" THEN [p EXCEPT !.key = Append(@, t), !.escaped = FALSE]
             ELSE [p EXCEPT !.value = Append(@, t), !.escaped = FALSE]
ParseToken(escapes, p, t) ==
    CASE escapes /\ ~p.escaped /\ t = "\\" -> [p EXCEPT !.escaped = TRUE]
      [] ~p.escaped /\ t = "," -> [ParseState EXCEPT !.done = Finish(p)]
      [] ~p.escaped /\ t = "=" /\ p.part = "key" -> [p EXCEPT !.part = "value"]
      [] OTHER -> Put(p, t)
ParseOptions(escapes, string) ==
    Finish(TakenInTurn(LAMBDA p, t : ParseToken(escapes, p, t), ParseState, string))

(***************************************************************************)
(* The flags of mount(2): what each option switches on or off.             *)
(***************************************************************************)
Enables == [ro |-> "RDONLY", nosuid |-> "NOSUID", nodev |-> "NODEV", noexec |-> "NOEXEC",
            sync |-> "SYNCHRONOUS", noatime |-> "NOATIME", dirsync |-> "DIRSYNC"]
Disables == [rw |-> "RDONLY", suid |-> "NOSUID", dev |-> "NODEV", exec |-> "NOEXEC",
             async |-> "SYNCHRONOUS", atime |-> "NOATIME"]

\* The keys of opts that are mount(2) flags; the others go into the data string.
FlagKeys(opts) == {k \in DOMAIN opts : Len(k) = 1 /\ k[1] \in DOMAIN Enables \cup DOMAIN Disables}

\* Seeded bug: the flag replaces those set before it.
ApplyFlagReplaces(flags, k) ==
    IF k[1] \in DOMAIN Enables THEN {Enables[k[1]]} ELSE flags \ {Disables[k[1]]}

ApplyFlag(flags, k) ==
    IF k[1] \in DOMAIN Enables THEN flags \cup {Enables[k[1]]} ELSE flags \ {Disables[k[1]]}

\* The flags directmount passes, the options taken in the given order.
MountFlags(order) == TakenInTurn(ApplyFlag, {"NODEV", "NOSUID"}, order)

\* The options that are left for the data string, after those directmount writes
\* itself, of which one stands for all.
DataOptions(opts) == [k \in DOMAIN opts \ (FlagKeys(opts) \cup {Key("fsname"), Key("subtype")}) |-> opts[k]]
DirectOption == Key("fd") :> <<"3">>

\* The arguments of mount(2) apart from the directory: flags and data are written in
\* the given orders.
MountArgs(opts, flagOrder, dataOrder) ==
    [source |-> opts[Key("fsname")],
     fstype |-> <<"fuse">> \o (IF Key("subtype") \in DOMAIN opts THEN <<".">> \o opts[Key("subtype")] ELSE <<>>),
     flags  |-> MountFlags(flagOrder),
     data   |-> <<"fd", "=", "3", ",">> \o mapToOptionsString(DataOptions(opts), dataOrder)]

(***************************************************************************)
(* The arguments of FUSE-T's server, and what it reads from them           *)
(* (external).  Options, FSName and Subtype are not among them.            *)
(***************************************************************************)
FusetArgs(c) ==
    (IF c.VolumeName # <<>> THEN <<<<"--volname">>, c.VolumeName>> ELSE <<>>)
    \o (IF c.ReadOnly THEN <<<<"-r">>>> ELSE <<>>) \o <<<<"dir">>>>
ReadArgs(argv) ==
    [VolumeName |-> IF argv[1] = <<"--volname">> THEN argv[2] ELSE <<>>,
     ReadOnly |-> \E i \in DOMAIN argv : argv[i] = <<"-r">>]

(***************************************************************************)
(* The answer to INIT.                                                     *)
(***************************************************************************)
LT(a, b) == a[1] < b[1] \/ (a[1] = b[1] /\ a[2] < b[2])
ProtoVersionMin == <<7, 18>>
ProtoVersionMax == <<7, 34>>

\* Features asked for by the configuration alone, and those that the kernel
\* must have offered as well.
Unconditional == {"AsyncRead", "WritebackCache", "ParallelDirOps", "AtomicTrunc"}
IfOffered == {"CacheSymlinks", "NoOpenSupport", "NoOpendirSupport"}

\* Seeded bug: what the configuration asks is turned on, offered or not.
InitReplyUnasked(c, kernel) ==
    [protocol |-> IF LT(kernel.version, ProtoVersionMax) THEN kernel.version ELSE ProtoVersionMax,
     flags |-> {"BigWrites", "MaxPages"} \cup c.features]

InitReply(c, kernel) ==
    [protocol |-> IF LT(kernel.version, ProtoVersionMax) THEN kernel.version ELSE ProtoVersionMax,
     flags |-> {"BigWrites", "MaxPages"} \cup (c.features \cap Unconditional)
               \cup (c.features \cap IfOffered \cap kernel.flags)]

====
