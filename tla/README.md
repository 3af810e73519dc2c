# A TLA+ verification of the fuse package

The repository is a Go library for writing user-space file systems: it mounts
one, reads requests from `/dev/fuse`, hands them as typed *ops* to a file system
and writes the replies. This directory holds TLA+ models of it, the TLC runs that
check them on small instances, and TLAPS proofs for instances of any size.

## The system

| part | code | state | operations |
|---|---|---|---|
| kernel end of `/dev/fuse` | external | requests, their `unique` IDs, pending interrupts | issue, deliver, interrupt, take a reply, hang up |
| connection | `connection.go`, `freelists.go`, `internal/freelist` | `cancelFuncs`, two freelists of message buffers, the state of every op | `ReadOp`, `Reply`, `Init`, `close` |
| message buffers | `internal/buffer` | bytes read and not consumed; segments of a reply | `Init`, `Consume`, `GetFree`; `Reset`, `Append`, `Grow`, `ShrinkTo` |
| conversions | `conversions.go`, `internal/fusekernel`, `ops.go`, `fuseops` | none | message to op, op to reply |
| server | `fuseutil/file_system.go` | `opsInFlight` | `ServeOps`, `handleOp` |
| mount | `mount*.go`, `mounted_file_system.go`, `unmount*.go` | mount point, join status | `Mount`, `Join`, `Unmount`, the handshake with `fusermount`, osxfuse and fuse-t |
| directory entries | `fuseutil/dirent.go` | none | `WriteDirent` |
| sample file systems | `samples/*` | inode tables, handles, lookup counts | the methods of `FileSystem` |
| test support | `fusetesting`, `fsutil`, `samples/in_process.go`, `samples/subprocess.go` | - | run a sample, compare files |

A request travels kernel → `ReadOp` (one goroutine, the *reader*) → `ServeOps` →
a goroutine of its own running `handleOp` → a file system method → `Reply` → kernel. Forgets
are handled by the reader itself and interrupts never leave `ReadOp`. When the
kernel hangs up the reader sees `ENODEV`, `ServeOps` waits for the ops in flight and
destroys the file system, and the goroutine started by `Mount` closes the device
and lets `Join` return.

What makes it hard: the handler goroutines, the reader and the kernel interleave
freely; IDs are reused while ops that carried them are still being cleaned up;
message buffers are recycled through freelists while replies, callbacks and
contexts still refer to them; interrupts race with replies; the connection can go
away at any time; shutdown has to wait for everybody. The correctness properties
wanted per part:

* connection: a buffer has one user; a reply settles its own request, exactly
  once; an interrupt cancels its own op; the two panics about `cancelFuncs` are
  unreachable; callbacks run between the reply and the recycling of buffers.
* server: nothing runs after `Destroy`; every request gets its answer; `Join`
  returns after a hang-up; an interrupt gets through to a blocked op.
* buffers and conversions: an op is the request the kernel sent; the length a reply
  claims is the length it has; modes, times and sizes survive conversion.
* mount: what the caller is told is true, every call and every goroutine ends, whatever
  step fails, and the kernel and the helpers are given what the configuration says.
* sample file systems: tables, trees, link and lookup counts stay consistent
  under any sequence of ops the kernel can send.

## Modules

| module | models |
|---|---|
| `Freelist` | `internal/freelist` and its use in `freelists.go` |
| `FuseKernel` | the kernel, as `src/` relies on it (external) |
| `Connection` | `connection.go` |
| `FileSystemServer` | the composition: handshake, `ServeOps`, `handleOp`, `close`, `Join`; the properties |
| `OpLifecycle` | the abstract specification of what happens to a request |
| `ServerInvariant` | the inductive invariant |
| `ServerStepProofs`, `ServerCancelProofs` | that each action preserves the part of the invariant about messages, kernel and ops, about cancel functions and interrupts |
| `ServerRefinement` | that each action preserves what the refinement needs beside it, and is a step of `OpLifecycle` or leaves it alone |
| `ServerProofs` | the theorems: the invariant, what follows from it, and that the server implements `OpLifecycle` |
| `MCServer` | TLC instances of the server |
| `OutMessage` | `internal/buffer/out_message.go` |
| `Requests` | `internal/buffer/in_message.go` and `convertInMessage` |
| `Conversions` | modes, times, attributes, errors and expirations in `conversions.go` |
| `MessagePath` | the way of a request and its reply through the three |
| `MountConfig` | `mount_config.go`, the flags of a direct mount, the reply of `Connection.Init` |
| `Mounting`, `MCMounting` | `Mount` and the mount functions of Linux and macOS, with their helpers |
| `MountingProofs` | proofs about `Mounting` |
| `MemFS`, `MCMemFS` | `samples/memfs`: inodes, directory tree, listings |
| `MemFSProofs` | proofs about `MemFS` |
| `MemFile` | `samples/memfs`: contents and size of a file |
| `MemXattr` | `samples/memfs`: extended attributes |
| `MemInode` | the two together: a file of memfs with its contents and attributes |
| `ForgetFS` | `samples/forgetfs`: lookup counts |
| `DirListing` | `fuseutil/dirent.go` and the `ReadDir` of six samples |
| `FlushFS`, `DynamicFS`, `InterruptFS`, `CachingFS`, `LoopbackFS` | the sample of that name (`LoopbackFS`: `samples/roloopbackfs`) |
| `Samples` | the samples side by side, for TLC |
| `SampleFileProofs` | proofs about `MemFile`, `FlushFS`, `LoopbackFS` and `ForgetFS` |
| `SampleHandleProofs` | proofs about `DynamicFS`, `InterruptFS` and `CachingFS` |

Definitions named after a bug (`FinishOpKeepsEntry`, `DispatchWithoutAdd`, ...) and
marked *Seeded bug* are not part of any specification. Each is a plausible mistake
in the definition that follows it; put in its place, it makes a property fail.

### The server

A request `r` goes through `ksta[r]` on the kernel's side (pending, sent, answered,
...) and through `pc[r]` on the server's (read, handling, finishing, responding,
callback, putIn, putOut, replied, done). The reader is one process with program counter
`rpc`; every op has a process of its own. A step is a critical section under
`c.mu`, a system call on `/dev/fuse`, or what lies between two of them in one
goroutine and touches nothing shared, so every interleaving the mutex and the
kernel allow is a behaviour. `cancelFuncs` is a function from IDs to requests;
messages are model values with a `content`, and the freelists are stacks, as in the
code. `mount` follows `Mount`'s goroutine to `Join`.

The kernel is external: it queues requests under IDs that are free, delivers them
and their interrupts, takes a reply by its ID, and may hang up at any time. Which
requests give their ID back when they are read is the constant `ReusedAtOnce`: the
comment in `beginOp` says that osxfuse does so for `FORGET`.

`OpLifecycle` knows nothing of messages, IDs or goroutines: a request is served
once, answered once or aborted, cancelled only if asked for, and the file system
is destroyed when nothing is being served. `FileSystemServer!LifecycleSpec` is it
under the refinement mapping.

### Requests and replies

`MessagePath` sends requests one after another through the same two messages. `Requests`
reads one into the recycled storage of an InMessage, whole or cut short, and takes it apart
with one operator per shape of request: a field of a structure or a character is a *unit*, so
that what is consumed, what is left over and what an earlier message left behind are all told
apart. `OutMessage` has one operator per method. A message is a header and a list of
segments of tokens; a token names the request and the position it comes from, so
a byte of another request cannot pass for one of this one. `Method` fills the buffers
the way any method may that keeps to `BytesRead <= len(Dst)`, and `Reply` builds
the packet with `kernelResponse` and writes it, or fails to. `Conversions` has the
bit fields of modes and device numbers and the two parts of times at reduced widths
(a time has few ticks to a second).

### Mounting

`Mounting` has several calls of `Mount` side by side. `pc[m]` is the caller's goroutine, `bg[m]`
the one started to wait for a helper, `serving[m]` the one that runs `ServeOps`; `ready[m]` is the
channel between them, with its capacity. `holders[m]` has the descriptors that are open on behalf of
the call: in the device that is returned or served (`conn`), in a helper's message (`socket`), in a helper's hands
(`helper`); without any of these the kernel refuses requests on the directory. It also has those the code drops
without closing: the descriptors of a message with more than one (`received`), a device with which mount(2) failed
(`unused`), the monitor socket of FUSE-T (`monitor`). The garbage collector (`Collect`, external) closes files
nothing refers to, if it comes to run; nothing relies on it. The platform is chosen at
the start: Linux tries mount(2) and falls back to `fusermount`, osxfuse opens the device and starts
a helper, macfuse gets the device from its helper over a socket, FUSE-T has a server with two socket
pairs that are package variables. The helpers are external and may fail at every step, or send a message with no
descriptor or with two. `MountConfig` computes what each is given (the options string, the arguments of mount(2), the
command line of FUSE-T's server) with options as sequences of tokens, of which a comma and a backslash are
the ones escaping is about, and what each reads from it (external): `fusermount` knows escaping, mount(2) and the
helpers of OS X do not. `Unmount` is the call of `unmount_linux.go`, which succeeds once and lets the connection end; whoever
calls it, and retries it while the file system is busy, is external.

### memfs

Every method holds `fs.mu` and is one action, with the errors it returns. The kernel's
VFS layer does not pass on every request (no `rmdir` of a file, no rename of a directory
into itself); these guards are marked `VFS` in `MemFS`. `scan` is a user who lists
a directory call by call. `Within`, "p is d or below it", is stated without recursion: d is in every set
that has p and the parents of its inodes. `MemFile` has the contents of a file as Go has them, a slice of an
array with spare capacity in which old bytes stay after a truncation, and beside it what POSIX says of the file
(`posix`), in which a call that fails does nothing; `MemXattr` has beside the attributes what each user was told of sizes.

### forgetfs

The kernel's side counts the lookups it holds (`nlookup`); entries and forgets are on
their way in `entries` and `forgets`, in no order. A panic of the file system sets
`panicked`.

### The small samples

Methods hold the file system's mutex and are one action, except where the code lets it go:
an op of `InterruptFS` takes the mutex, looks at the channel, closes it, lets the mutex go, and is blocked
until its context ends, each in a step of its own, and `LoopbackFS`, which has no mutex, makes
one step of each `os.Stat` and of `LoadOrStore` while files are created, written, linked, moved and removed
underneath, by the path kept with an inode (a listing does the first two steps of a lookup for each child). Requests are sent, handled
and answered at different moments wherever that is what the property is about. `DynamicFS` has handles
modulo `HandleRange`, so that the counter comes round. `CachingFS` has the kernel's caches
of entries and attributes, a clock, and `convertExpirationTime` at the moment of the reply. `DirListing` lists
a directory in as many calls as the buffers make necessary, with the real sizes of the entries.

`Samples` puts these modules, `ForgetFS`, `MemFile` and `MemXattr` side by side: a behaviour of it is a
behaviour of one of them, chosen in the initial state, and the others stand still. They share no state.

## What the runs check

| run | instance | shows |
|---|---|---|
| `server` | 3 requests (the first may be `FUSE_INIT`, too old, or something else), 2 IDs, 3+3 messages, 1 interrupt, failing reads, messages that do not convert, abort at any time | messages have one user, cancel functions are consistent, interrupts and replies reach their own op, nothing runs after `Destroy`, callbacks come in time; the inductive invariant; `FileSystemServer` implements `OpLifecycle` |
| `server_liveness` | methods that return | every request is answered or aborted; `Join` returns after a hang-up |
| `server_interrupts` | methods that wait for their context | an interrupt releases its op |
| `messages` | 3 requests, each of any opcode, cut short by up to 2 units, payloads up to 2 bytes | an op is the request that was sent, but for one kind of `Setxattr`, and a cut message is none; a read has room; header and payload of every packet are those of its request; `ShrinkTo` truncates and does not panic; modes, device numbers, and times within a range come back as they were sent |
| `mounting` | 2 calls of `Mount`, 5 platforms, 3 configurations, 10 kernels, every step failing | after `Mount` has returned the device is held only by the goroutine that serves it; success means mounted; flags, options, arguments and session are those of the configuration, as their reader understands them; every call and goroutine ends; an unmount makes `Join` return |
| `memfs_tree` | 4 inodes, 2 names | directories are a tree, entries and link counts consistent |
| `memfs_listing` | 4 inodes, 3 names, 2 entries per `ReadDir` | a listing returns what stays exactly once |
| `samples` | see the bounds below | forgetfs: counts balance, nothing panics, dead inodes stay dead. A memfs file: size and bytes are those POSIX prescribes; attribute buffers are not overrun, lists not cut short, sizes told suffice. Listings return every entry once. Flushes report what was written; open handles keep their contents; blocked ops end by an interrupt, and a test that waits for one is released by its arrival, which closes the channel once; stale entries and attributes expire on time and old IDs still work; the mirror shows of files that keep their names what is underneath |

Violations, each a disagreement between the code and what it says:

| run | what happens |
|---|---|
| `server_osxfuse` | `BatchForget` is not excepted from the table of cancel functions. If its ID is reused when it is read, as `beginOp` says of requests without reply, `recordCancelFunc` panics. |
| `memfs_nlink` | `Rename` over an existing entry leaves the link count of the replaced inode. |
| `meminode_hole` | `memFS.Fallocate` drops the error of a mode it does not support: punching a hole (mode 3) is reported as done and the bytes are still there. |
| `mounting_fuset` | The socket pairs of FUSE-T are package variables. When two calls of `Mount` overlap, one serves the directory of the other. |

Smaller disagreements met on the way that have no run of their own:

* `ReadOp` puts neither message of an interrupt back on its freelist (they are garbage-collected).
* macfuse: if the helper dies before it has sent the device, `Mount` waits for ever, since it holds the
  sending end of the socket itself (mount.go:195). `MountEnds` excepts this case by name (`Stranded`).
* `startFuseTServer` releases the process before it looks at the error of `Start`
  (mount_darwin.go:344); when starting fails it panics. The model has the panic.
* `IsPlatformFuseT` is a package variable that the next `Mount` sets anew, while connections
  made before go on reading it.
* `convertInMessage` asks of a `Setxattr` for three bytes after the structure (conversions.go:693), so that a name of one
  character with an empty value is taken for a corrupt message. `ReadOp` then returns an error that is not the end
  of the connection, and `ServeOps` panics: such a request ends the process. `OpExact` excepts it by name (`TakenForCorrupt`)
  and says that nothing else is refused.
* `convertTime` divides a signed number of nanoseconds: the fraction of a time before 1970 is negative and goes to
  the kernel as a huge unsigned number, and a time outside 1678 to 2262 does not fit. `AttributesSurvive` holds
  for the other times, and says that these do not survive.
* Descriptors are left open: `/dev/fuse` after mount(2) failed, also when `fusermount` is tried next
  (mount_linux.go:105-110); those of a message with more than one (mount.go:223); the local socket of FUSE-T whose
  monitor sockets could not be made (mount_darwin.go:313-320); the monitor socket. The garbage collector may close those that are
  files. `DeviceHasReader` says which of them can have somebody at the other end.
* FUSE-T's server is given the volume name and `ReadOnly`, and none of `Options`, `FSName` and `Subtype`, although
  mount_config.go:180 says of `Options`: "Additional key=value options to pass unadulterated to the underlying mount command".
* `mapToOptionsString` escapes keys and not values; `ConfigurationArrives` is about values without comma and
  backslash for that reason. mount(2) and the helpers of OS X know no escaping and find a backslash in a key
  doubled. Contradictory options (`ro` and `rw`) are resolved in the random order of a map.
* With `fusermount` a nil is sent on `ready` before the kernel has the directory mounted, although
  the device is there; the initial exchange that follows makes success mean mounted all the same.
* `CreateLink` of a symlink makes an entry of type `DT_File`.
* `SetInodeAttributes` of memfs truncates a file and then returns `EBADF` when the truncation was to be
  refused. `ReadsLastWritten` compares with POSIX only as long as this has not happened since the file was last emptied.
* interruptfs returns `ctx.Err()`, which is no errno: the process that was interrupted is told `EIO`.
* roloopbackfs: offsets count children before those that cannot be stat'ed are left out, so that
  a listing continued after a dangling link passes over entries (inode.go:137); an inode keeps the first path
  it was found under, also when that is moved (inode.go:68); a read from beyond the end is `EIO`; whatever
  error `os.Stat` has for a name, the answer is `ENOENT`. `ListedOnce` and `LoopMirrors` say under which
  condition they hold.
* `MkDirOp.Mode` carries `ModeDevice` besides `ModeDir`, since the test for a device is one of bits that
  overlap with the type of a directory; the reply hides it.

**Bounds.** Three requests are one for the handshake and two that can meet with the
same ID or the same message: the races of the connection are between two ops, or
an op and the reader. Two IDs let the two be distinct or one reuse the other's; three
messages of each sort are more than are in use at once. In `MemFS`, three inodes below the
root allow a directory in a directory, a file in it and a replacement; `MaxNlink` is
needed because of `memfs_nlink`, which lets the count grow for ever. `Room` below the number
of names makes a listing take several calls. `messages` needs three requests: one
that leaves something behind, one that fails half way, and one that would show it. Two calls of `Mount` are what
it takes for one to meet the other's package variables.

In `samples`: `MemFile`'s three bytes allow a gap
between two writes and a truncation or a read that ends in it. `ForgetFS` has five inodes, which is two minted
ones, enough to see an ID reused; the kernel holds up to two lookups of an inode beside the one of a canned
inode that is never given up, and two ops are under way at a time, on one inode or on two. Two writers of two writes each meet in `FlushFS`, and one extends what the
other has written. Two readers and four handles make the counter come round while handles are open. In
`CachingFS` entries last two ticks of a clock of three, attributes one, so that answers are late by
less, as much and more than their time, and one renumbering and one new mtime fall before, between
and after; two requests can overtake each other. Two mirrors and two files race for an entry of the table. The
buffers of `DirListing` hold one to three entries.

Symmetry is used for IDs and names, which nothing orders, and only in runs
without liveness.

**Fairness.** `FairSpec` has weak fairness of the reader's goroutine and of every
op's: Go's scheduler runs every goroutine that can run, and `c.mu` is held for bounded
sections only. Nothing is assumed of the kernel: it need not send, interrupt or hang
up. Methods return in `server_liveness`, where the connection may be aborted with
requests outstanding; in `server_interrupts` they return only once cancelled, which is
what the documentation of the context asks for, and `AbortedKinds` is empty: an ordinary
unmount waits for the requests, since nobody would interrupt them after an abort.
`Mounting` has weak fairness of each call's goroutines and of the helpers: a helper does its next step or dies. Nobody
need unmount.

**Deadlock** is checked except in `messages`, which ends after its requests, `mounting`,
which ends when both calls are over (that they do not stop before is `MountEnds`), and `samples`,
where bounds on the clock and on the number of calls make several parts stop.

## What is proved

TLAPS proves, for every number of requests, IDs, messages and interrupts
(`ServerProofs`): `Invariance`, and from it `TypeCorrect`, `BuffersNeverShared`,
`CancelFuncsConsistent`, `InterruptsHitTheirOp`, `RepliesMatch`, `DestroyedLast` and
`CallbackInTime`. They rest on the named assumptions on the constants and on
`ReuseAssumption`: only a `FORGET` gives back its ID when it is read. `server_osxfuse`
shows that this is needed.

None of the properties is inductive alone. That a reply has the right ID needs the
InMessage to hold the op's request still (`OpMessages`), which needs that nobody
else has the message (`BuffersExclusive`). That `recordCancelFunc` does not panic needs
`cancelFuncs` to be exactly the ops between `beginOp` and `finishOp`
(`CancelMap`), and that an ID is not reissued while such an op has it (`KernelAgrees`),
which holds because `finishOp` comes before the reply. That an interrupt hits its op
needs, while the reader holds the interrupt, that no other op can carry the ID
(`InterruptTarget`): the kernel reuses an ID after the reply only, and
the reader that would have to read the new request is busy with the interrupt. That
nothing runs after `Destroy` needs the counter to be the number of ops in flight
(`WaitGroupCounts`).

`ServerRefinement` and `ServerProofs` prove that `FileSystemServer` implements `OpLifecycle` (`Refinement`),
one lemma per kind of step. `beginOp` is `Serve`, the write of the reply is `Answer` or
`EndUnanswered`, `handleInterrupt` is `Cancel` or nothing, every end of the connection is
`Hangup`, and a message that `convertInMessage` refuses after the abort is a request that
`Hangup` takes with it. The mapping needs more than the invariant above
(`RInv` in `ServerInvariant`): the loop ends only after the kernel hung up, which has
aborted everything outstanding (`HangupSeen`, `HangupAborts`), a `FORGET` that the kernel
is done with is still in the reader's hands until it has an op (`ForgetInHand`), and no
context is cancelled before its op exists (`ContextOfOp`). Together they show that
nothing is left queued when `Destroy` is called.

`MountingProofs` proves for every number of calls of `Mount`, every set of configurations, kernels and
platforms, from `MountingAssumption`:

* `Connection.Init` agrees on a session both sides speak (`SessionsAgreed`): the
  version is within the library's range and not above the kernel's, and of the optional flags those that are both
  configured and offered are set, and no others.
* Where calls on FUSE-T do not overlap (`"fuset" \notin Overlapping`), no device with somebody at its other end is left
  open that nobody reads from (`NoDeviceUnattended`), success means mounted
  (`SuccessMeansMounted`) and the directory served is the call's own (`OwnDirectoryServed`). The invariant (`OwnInv`)
  follows the device from the helper through the socket and the channel `ready` to the caller, and says that the
  package variables are those of the one call in progress (`OneAtATime`). `DeviceInv` adds that a descriptor is in the socket
  only while `Mount` waits for it, and in `Mount`'s hands only until the connection is served or, on FUSE-T, while there is
  no server at the other end. `mounting_fuset` shows that the
  condition is needed.

`MemFSProofs` proves for every number of inodes, names, links and entries per `ReadDir`, from `MemFSAssumption`, all
that the runs check of memfs's table: `TypeCorrectness`, `EntriesAreConsistent`, `LinksAreCovered`, `DirectoriesFormATree`
and `ListingsAreExact`. The invariant (`MemInv`) has two parts.

* `Sound` is about the table. An entry without a type has no name and the other way round, so that `findChild` finds
  used entries only (`EntriesOK`); names are unique and only directories have entries (`Shape`); entries refer to
  allocated inodes of their type (`Refs`); the links of an inode are finitely many and not more than `Nlink` (`Counted`);
  a directory has one link at most, with it the root is above, and without it there are no entries (`Tree`). Every method
  is one of three edits of the entries (`Edited`): a link appears (`LinkAdded`), a link to something without entries goes
  (`LinkRemoved`), a link moves to a directory that is not below what it leads to (`LinkMoved`). `Rename` is a removal of
  the entry it replaces and a move. That a moved directory stays below the root uses the set which
  shows that `Within` is false: it has the new parent and all above it, and not the directory that moves, so the way
  up from the new parent does not lead through it.
* `ScanOK` is about a listing. What has been in the directory since it was opened has been seen if its index is at most
  the offset, and not otherwise. It survives every edit because an entry keeps its index (`Stays`), and an entry put into
  a gap differs in name or inode from all that were there. `ReadDirIs` says that one call of `ReadDir` leaves no gap
  and returns nothing only at the end.

`SampleFileProofs` and `SampleHandleProofs` prove, for samples of any size, each of the specification of its component:

| theorem | for every | what the invariant adds |
|---|---|---|
| `ReadsAreLastWritten` | bytes, sizes and modes other than punching a hole (`meminode_hole`) | `FileInv`: all of the file is what POSIX says, not only what was read last; the slice lies within its array (`SoundFile`) |
| `FlushesReportWrites` | number of users and values | `FlushInv`: what a user has written last is in the file at the user's offset, also while the request is under way |
| `LoopbackMirrors` | number of lookups and files underneath | `LoopInv`: the path an inode is filed under is where it is, unless the file has lost a name |
| `ForgetNeverPanics`, `LookupCountsBalance`, `ForgottenForGood`, `ForgetTypeCorrect` | number of inodes, lookups and ops | `ForgetInv`: an inode with an op under way is held by the kernel, one not minted yet has no counts |
| `ReadersSeeOneMoment` | number of readers and handles | `DynInv`: the handle of an open reader is in use, holds the contents of the moment it was opened, and is nobody else's |
| `HeldUntilInterrupted`, `ReleasedByArrival` | number of callers | `IntrInv`: an op that must block was sent while its kind was to be blocked; one op at most is between `Lock` and `Unlock`, so that who is about to close the channel finds it open |
| `CachedNoLonger`, `IDsNameTheirFiles` | timeouts, renumberings, mtimes, overtaking requests | `CachingInv`: what the kernel has cached, and what is on its way to it, was right when the file system answered; the ID modulo three names the file |

They rest on the assumptions named in each component (`MemFileAssumption`, `FlushFSAssumption`, ...): bounds are natural
numbers, and model values that stand for different things differ.

Only model-checked, and why:

* Liveness (`server_liveness`, `server_interrupts`, `MountEnds`): fairness and `ENABLED` are out of the prover's reach.
* `ListedOnce` and the properties of `MemXattr` speak of loops that append to a buffer, `ConfigurationArrives` of strings assembled from a map, and the invariants of `MessagePath` of loops
  over segments (`ShrinkTo`) and of conversions by folds. What a recursive definition or a fold computes for every
  input takes induction over data, which the prover's library states only for operator parameters its backends cannot
  instantiate.
* `SamplesTypeOK`, which is the types of all samples at once: `SampleFileProofs` has those of `ForgetFS`, and the others are
  part of the invariants above as far as a proof needs them.

## What is not modelled

`PROJECT.json` lists every part.

* Debug output, declarations, and the helpers of the tests (`fusetesting`, `fsutil`, `samples/in_process.go`,
  `samples/subprocess.go`) have no state of the system.
* errorfs and statfs return a canned answer from under a mutex: no order of calls can go wrong.
* hellofs and readbenchfs answer from tables and constants; only their listings are modelled.
* cachingfs's flags for the page cache and the directory cache act in the kernel alone.
* memfs: modes, times and the hooks of `OpenFile`; the target of a symlink, which is set once.
* Mount: `checkMountPoint`, which only looks; the framing of messages on FUSE-T's socket; the error of an
  `Unmount` that fails, which changes nothing.
* `GetFuseContext` reads the message behind a context. `BuffersExclusive` makes this right while the method
  runs; a call after the op was replied to is excluded by the documentation and not modelled.
* A kernel that breaks the protocol: `FuseKernel` says what the code relies on.
