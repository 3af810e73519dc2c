---- MODULE Mounting ----
(***************************************************************************)
(* Mount (mount.go) and the mount functions of the platforms               *)
(* (mount_linux.go, mount_darwin.go), up to the end of the goroutine that  *)
(* serves the connection, with the helpers and the kernel as environment.  *)
(*                                                                         *)
(* Several calls of Mount run side by side, each on a directory of its     *)
(* own. pc[m] is where call m stands, bg[m] where its background goroutine *)
(* (callMount's or startFuseTServer's) stands, serving[m] the goroutine    *)
(* that runs ServeOps. platform is the FUSE implementation in use:         *)
(* "linux", "osxfuse" (the device is opened here), "macfuse" (the helper   *)
(* sends the device), "absent" (OS X with no OSXFUSE) or "fuset".          *)
(*                                                                         *)
(* holders[m] is where the descriptors that call m has opened are: "conn"  *)
(* in the device that is returned or served, "socket" in the message of a  *)
(* helper, "helper" in the hands of a helper.  When there are none of      *)
(* these, the kernel refuses the requests on its directory.  "received"    *)
(* are those of a message with too many, "unused" is a device with which   *)
(* mount(2) failed and "monitor" the monitor socket of FUSE-T: the code    *)
(* does not close them.                                                    *)
(***************************************************************************)
EXTENDS MountConfig, FiniteSets

CONSTANTS Mounts,      \* the calls of Mount
          Platforms,   \* the implementations considered
          Overlapping, \* those on which calls may overlap in time
          Configs,     \* the configurations considered
          Kernels      \* the INIT requests considered: [version, flags]

ASSUME MountingAssumption ==
    /\ 0 \notin Mounts
    /\ \A c \in Configs : c.features \subseteq Unconditional \cup IfOffered
    /\ \A k \in Kernels : k.version \in Nat \X Nat

VARIABLES platform, config, pc, result, ready, dev, holders, helper, bg, mounted, serving,
          local, local_mon, asked, given

call == <<pc, result, ready, dev, given>>
world == <<holders, helper, mounted>>
fuset == <<local, local_mon, asked>>
vars == <<platform, config, call, world, bg, serving, fuset>>

Nothing == [kind |-> "nothing"]

Init ==
    /\ platform \in Platforms
    /\ config \in Configs
    /\ pc = [m \in Mounts |-> "idle"]
    /\ result = [m \in Mounts |-> "none"]
    /\ ready = [m \in Mounts |-> <<>>]
    /\ dev = [m \in Mounts |-> 0]
    /\ holders = [m \in Mounts |-> {}]
    /\ helper = [m \in Mounts |-> [state |-> "none", sock |-> 0, mon |-> 0, fds |-> 0]]
    /\ bg = [m \in Mounts |-> "none"]
    /\ mounted = [m \in Mounts |-> "no"]
    /\ serving = [m \in Mounts |-> "none"]
    /\ local = 0
    /\ local_mon = 0
    /\ asked = [m \in Mounts |-> "no"]
    /\ given = [m \in Mounts |-> Nothing]

(***************************************************************************)
(* Steps shared by the platforms.                                          *)
(***************************************************************************)
GoTo(m, label) == pc' = [pc EXCEPT ![m] = label]

\* Mount returns: its background goroutines live on.
Return(m, r) ==
    /\ GoTo(m, "returned")
    /\ result' = [result EXCEPT ![m] = r]
    /\ given' = [given EXCEPT ![m] = Nothing]

\* make(chan error, 1): a send blocks while the channel is full.
ReadyUnbuffered == 0 \* seeded bug
ReadyCapacity == 1
CanSend(m) == Len(ready[m]) < ReadyCapacity
SendReady(m, err) == ready' = [ready EXCEPT ![m] = Append(@, err)]

SetHelper(m, state) == helper' = [helper EXCEPT ![m].state = state, ![m].sock = m]

\* Descriptors are opened or closed for connection c (none if c is 0).
Open(c, ends) == holders' = [holders EXCEPT ![c] = @ \cup ends]
Close(c, ends) == holders' = [n \in Mounts |-> IF n = c THEN holders[n] \ ends ELSE holders[n]]

\* The number of descriptors in the message of a helper: one, if it is as it should be.
FdCounts == 0 .. 2

\* The calls that may start now.
Alone(m) == \A n \in Mounts \ {m} : pc[n] \in {"idle", "returned"} /\ bg[n] \in {"none", "done"}

\* Mount up to the call of the platform's mount function.
Mount(m) ==
    /\ pc[m] = "idle"
    /\ platform \in Overlapping \/ Alone(m)
    /\ \/ Return(m, "error")                                  \* checkMountPoint
       \/ GoTo(m, "mount") /\ UNCHANGED <<result, given>>
    /\ UNCHANGED <<platform, config, ready, dev, world, bg, serving, fuset>>

(***************************************************************************)
(* Linux.                                                                  *)
(***************************************************************************)

\* mount of mount_linux.go up to directmount. For /dev/fd/N the file system
\* has been mounted by whoever opened the descriptor.
MountLinux(m) ==
    /\ pc[m] = "mount" /\ platform = "linux" /\ CanSend(m)
    /\ SendReady(m, "nil")
    /\ \/ /\ dev' = [dev EXCEPT ![m] = m]
          /\ Open(m, {"conn"})
          /\ mounted' = [mounted EXCEPT ![m] = "yes"]
          /\ SetHelper(m, "exited")
          /\ GoTo(m, "init")
       \/ GoTo(m, "direct") /\ UNCHANGED <<dev, world>>
    /\ UNCHANGED <<platform, config, result, given, bg, serving, fuset>>

\* directmount: open /dev/fuse, then mount(2); the options are ranged over
\* in any order. EPERM and a device that cannot be opened fall back to
\* fusermount; any other error is returned. Where mount(2) fails the device
\* stays open.
DirectMount(m) ==
    /\ pc[m] = "direct"
    /\ \/ /\ LET opts == toMap(config, FALSE)
             IN  \E flagOrder \in Orders(FlagKeys(opts)), dataOrder \in SomeOrders(DOMAIN DataOptions(opts)) :
                    given' = [given EXCEPT ![m] = [kind |-> "mount", args |-> MountArgs(opts, flagOrder, dataOrder)]]
          /\ dev' = [dev EXCEPT ![m] = m]
          /\ Open(m, {"conn"})
          /\ mounted' = [mounted EXCEPT ![m] = "yes"]
          /\ SetHelper(m, "exited")
          /\ GoTo(m, "init")
          /\ UNCHANGED result
       \/ GoTo(m, "find") /\ UNCHANGED <<result, given, dev, world>>
       \/ /\ Open(m, {"unused"})
          /\ \/ GoTo(m, "find") /\ UNCHANGED <<result, given>>
             \/ Return(m, "error")
          /\ UNCHANGED <<dev, helper, mounted>>
    /\ UNCHANGED <<platform, config, ready, bg, serving, fuset>>

\* The fallback: findFusermount.
FindFusermount(m) ==
    /\ pc[m] = "find"
    /\ \/ GoTo(m, "fusermount") /\ UNCHANGED <<result, given>>
       \/ Return(m, "error")
    /\ UNCHANGED <<platform, config, ready, dev, world, bg, serving, fuset>>

(***************************************************************************)
(* fusermount: a socket pair, the helper, one message with one descriptor. *)
(***************************************************************************)

\* The options string that a helper is given.
GiveOptions(m) ==
    LET opts == toMap(config, platform # "linux")
    IN  \E order \in SomeOrders(DOMAIN opts) :
           given' = [given EXCEPT ![m] = [kind |-> "options", of |-> opts,
                                          string |-> mapToOptionsString(opts, order)]]

\* Up to cmd.Run (Linux) or cmd.Start (OS X). Run waits for the helper, which
\* has then mounted the file system and left a message in the socket.
Fusermount(m) ==
    /\ pc[m] = "fusermount"
    /\ \/ /\ GiveOptions(m)
          /\ IF platform = "linux"
             THEN /\ \E n \in FdCounts :
                        helper' = [helper EXCEPT ![m].state = "exited", ![m].sock = m, ![m].fds = n]
                  /\ mounted' = [mounted EXCEPT ![m] = "yes"]
                  /\ Open(m, {"socket"})
             ELSE /\ SetHelper(m, "running")
                  /\ UNCHANGED <<mounted, holders>>
          /\ GoTo(m, "receive")
          /\ UNCHANGED result
       \/ Return(m, "error") /\ UNCHANGED world
    /\ UNCHANGED <<platform, config, ready, dev, bg, serving, fuset>>

\* ReadMsgUnix and the checks of the message. Both ends of the socket pair
\* are closed on return, and with them a descriptor still in the socket. The
\* read waits for a message: this process holds the other end too, so that
\* the end of the helper does not end the read. The descriptors of a message
\* that is refused after it was read stay open.
Receive(m) ==
    /\ pc[m] = "receive" /\ "socket" \in holders[m]
    /\ \/ /\ helper[m].fds = 1
          /\ dev' = [dev EXCEPT ![m] = m]
          /\ holders' = [holders EXCEPT ![m] = (@ \ {"socket"}) \cup {"conn"}]
          /\ GoTo(m, "init")
          /\ UNCHANGED <<result, given>>
       \/ /\ \/ Close(m, {"socket"})                          \* FileConn, ReadMsgUnix
             \/ /\ helper[m].fds # 1                          \* len(scms), len(gotFds)
                /\ holders' = [holders EXCEPT ![m] =
                      (@ \ {"socket"}) \cup (IF helper[m].fds > 1 THEN {"received"} ELSE {})]
          /\ Return(m, "error")
          /\ UNCHANGED dev
    /\ UNCHANGED <<platform, config, ready, helper, mounted, bg, serving, fuset>>

(***************************************************************************)
(* OSXFUSE.                                                                *)
(***************************************************************************)

\* mountOsxFuse up to the opening of the device. An open that fails with
\* something else than "does not exist" or EBUSY yields no device and no
\* error (dev = 0).
MountOsxFuse(m) ==
    /\ pc[m] = "mount" /\ platform \in {"osxfuse", "macfuse", "absent"}
    /\ \/ /\ platform = "absent"                              \* errOSXFUSENotFound
          /\ Return(m, "error")
          /\ UNCHANGED <<ready, dev, holders>>
       \/ /\ platform = "macfuse" /\ CanSend(m)               \* loc.UseCommFD
          /\ SendReady(m, "nil")
          /\ IF CommasRefused(config) THEN Return(m, "error")
             ELSE GoTo(m, "fusermount") /\ UNCHANGED <<result, given>>
          /\ UNCHANGED <<dev, holders>>
       \/ /\ platform = "osxfuse"
          /\ \/ Return(m, "error") /\ UNCHANGED <<dev, holders>> \* not loadable, errNoAvail
             \/ /\ dev' = [dev EXCEPT ![m] = m]
                /\ Open(m, {"conn"})
                /\ GoTo(m, "callMount")
                /\ UNCHANGED <<result, given>>
             \/ GoTo(m, "callMount") /\ UNCHANGED <<result, given, dev, holders>>
          /\ UNCHANGED ready
    /\ UNCHANGED <<platform, config, helper, mounted, bg, serving, fuset>>

\* callMount; mountOsxFuse closes the device when it fails.
CallMount(m) ==
    /\ pc[m] = "callMount"
    /\ \/ /\ ~CommasRefused(config)
          /\ GiveOptions(m)
          /\ SetHelper(m, "running")
          /\ holders' = [holders EXCEPT ![m] = IF dev[m] = m THEN @ \cup {"helper"} ELSE @]
          /\ bg' = [bg EXCEPT ![m] = "wait"]
          /\ GoTo(m, "init")
          /\ UNCHANGED result
       \/ /\ Close(m, {"conn"})
          /\ Return(m, "error")
          /\ UNCHANGED <<helper, bg>>
    /\ UNCHANGED <<platform, config, ready, dev, mounted, serving, fuset>>

\* Seeded bug: the helper's exit status is dropped.
WaitForHelperDropsError(m) ==
    /\ bg[m] = "wait" /\ platform = "osxfuse" /\ helper[m].state \in {"exited", "failed"}
    /\ CanSend(m)
    /\ SendReady(m, "nil")
    /\ bg' = [bg EXCEPT ![m] = "done"]
    /\ UNCHANGED <<platform, config, pc, result, dev, given, world, serving, fuset>>

\* callMount's goroutine: cmd.Wait, then the result goes into ready.
WaitForHelper(m) ==
    /\ bg[m] = "wait" /\ platform = "osxfuse" /\ helper[m].state \in {"exited", "failed"}
    /\ CanSend(m)
    /\ SendReady(m, IF helper[m].state = "exited" THEN "nil" ELSE "error")
    /\ bg' = [bg EXCEPT ![m] = "done"]
    /\ UNCHANGED <<platform, config, pc, result, dev, given, world, serving, fuset>>

(***************************************************************************)
(* FUSE-T. The socket pairs are kept in package variables: local stands    *)
(* for local and remote, local_mon for local_mon and remote_mon, each      *)
(* named after the call that made the pair; 0 is nil.                      *)
(***************************************************************************)

\* mountFuset, and startFuseTServer's first socket pair.
MountFuset(m) ==
    /\ pc[m] = "mount" /\ platform = "fuset"
    /\ \/ /\ given' = [given EXCEPT ![m] = [kind |-> "argv", argv |-> FusetArgs(config)]]
          /\ local' = m
          /\ Open(m, {"conn"})
          /\ GoTo(m, "pair")
          /\ UNCHANGED result
       \/ /\ Return(m, "error")
          /\ local' \in {local, 0} /\ UNCHANGED holders       \* no binary, or no socket pair
    /\ UNCHANGED <<platform, config, ready, dev, helper, mounted, bg, serving, local_mon, asked>>

\* The second socket pair. When there is none, local stays open; its remote
\* end is closed.
PairMonitor(m) ==
    /\ pc[m] = "pair"
    /\ \/ GoTo(m, "start") /\ local_mon' = m /\ Open(m, {"monitor"}) /\ UNCHANGED <<result, given>>
       \/ Return(m, "error") /\ local_mon' = 0 /\ UNCHANGED holders
    /\ UNCHANGED <<platform, config, ready, dev, helper, mounted, bg, serving, local, asked>>

\* A panic ends the process, its goroutines and its descriptors.
Panic ==
    /\ pc' = [n \in Mounts |-> "panicked"]
    /\ holders' = [n \in Mounts |-> holders[n] \cap {"helper"}]
    /\ bg' = [n \in Mounts |-> "none"]
    /\ serving' = [n \in Mounts |-> "none"]

\* cmd.Start with remote and remote_mon. When it fails, cmd.Process is nil
\* and its Release panics before the error is looked at.
StartServer(m) ==
    /\ pc[m] = "start"
    /\ \/ /\ helper' = [helper EXCEPT ![m] = [state |-> "running", sock |-> local, mon |-> local_mon, fds |-> 0]]
          /\ Open(m, {"helper"})
          /\ bg' = [bg EXCEPT ![m] = "write"]
          /\ GoTo(m, "started")
          /\ UNCHANGED serving
       \/ Panic /\ UNCHANGED helper
    /\ UNCHANGED <<platform, config, result, given, ready, dev, mounted, fuset>>

\* return local, nil
ReturnLocal(m) ==
    /\ pc[m] = "started"
    /\ dev' = [dev EXCEPT ![m] = local]
    /\ GoTo(m, "init")
    /\ UNCHANGED <<platform, config, result, given, ready, world, bg, serving, fuset>>

\* startFuseTServer's goroutine: asks the server to mount (a write to a server
\* that has gone, or to nil, has the outcome of the read: an error), ...
AskToMount(m) ==
    /\ bg[m] = "write"
    /\ asked' = [t \in Mounts |-> IF t = local_mon THEN "yes" ELSE asked[t]]
    /\ bg' = [bg EXCEPT ![m] = "read"]
    /\ UNCHANGED <<platform, config, call, world, serving, local, local_mon>>

\* The server behind the monitor socket of call t has gone, or there is no socket.
MonitorClosed(t) == t = 0 \/ \A n \in Mounts : helper[n].mon = t => helper[n].state = "failed"

\* ... reads the reply, or the end of the socket, and tells Mount.
ReadReply(m) ==
    /\ bg[m] = "read" /\ CanSend(m)
    /\ \/ /\ local_mon # 0 /\ asked[local_mon] = "done"
          /\ SendReady(m, "nil") /\ asked' = [asked EXCEPT ![local_mon] = "no"]
       \/ MonitorClosed(local_mon) /\ SendReady(m, "error") /\ UNCHANGED asked
    /\ bg' = [bg EXCEPT ![m] = "done"]
    /\ UNCHANGED <<platform, config, pc, result, dev, given, world, serving, local, local_mon>>

(***************************************************************************)
(* The connection: newConnection, the serving goroutine, ready.            *)
(***************************************************************************)

\* The call whose kernel or server is at the other end of m's device.
Peers(m) == {n \in Mounts : helper[n].sock = dev[m] /\ dev[m] # 0}

\* No INIT will come: there is no device, the helper died before it mounted,
\* or the file system has been unmounted already.
Broken(m) == \A n \in Peers(m) :
    mounted[n] = "unmounted" \/ (mounted[n] = "no" /\ helper[n].state = "failed")

\* Seeded bug: newConnection without the close.
NewConnectionLeavesOpen(m) ==
    /\ pc[m] = "init"
    /\ \/ \E n \in Peers(m), k \in Kernels :
             /\ mounted[n] = "yes" /\ ~LT(k.version, ProtoVersionMin)
             /\ given' = [given EXCEPT ![m] = [kind |-> "session", of |-> k, reply |-> InitReply(config, k)]]
             /\ GoTo(m, "serve")
             /\ UNCHANGED <<result, holders>>
       \/ /\ \E n \in Peers(m) : mounted[n] = "yes"
          /\ Return(m, "error")
          /\ UNCHANGED holders
    /\ UNCHANGED <<platform, config, ready, dev, helper, mounted, bg, serving, fuset>>

\* newConnection: Init reads the first request and answers it; when anything
\* fails the device is closed.
NewConnection(m) ==
    /\ pc[m] = "init"
    /\ \/ \E n \in Peers(m), k \in Kernels :
             /\ mounted[n] = "yes" /\ ~LT(k.version, ProtoVersionMin)
             /\ given' = [given EXCEPT ![m] = [kind |-> "session", of |-> k, reply |-> InitReply(config, k)]]
             /\ GoTo(m, "serve")
             /\ UNCHANGED <<result, holders>>
       \/ /\ Broken(m) \/ \E n \in Peers(m) : mounted[n] = "yes" \* too old, not INIT, Reply fails
          /\ Return(m, "error")
          /\ Close(dev[m], {"conn"})
    /\ UNCHANGED <<platform, config, ready, dev, helper, mounted, bg, serving, fuset>>

\* go func() { server.ServeOps(connection) ...
StartServing(m) ==
    /\ pc[m] = "serve"
    /\ serving' = [serving EXCEPT ![m] = "running"]
    /\ given' = [given EXCEPT ![m] = Nothing]
    /\ GoTo(m, "ready")
    /\ UNCHANGED <<platform, config, result, ready, dev, world, bg, fuset>>

\* <-ready
AwaitReady(m) ==
    /\ pc[m] = "ready" /\ ready[m] # <<>>
    /\ Return(m, IF Head(ready[m]) = "nil" THEN "ok" ELSE "error")
    /\ ready' = [ready EXCEPT ![m] = Tail(@)]
    /\ UNCHANGED <<platform, config, dev, world, bg, serving, fuset>>

\* Seeded bug: the goroutine is only seen to its end for a Mount that succeeded.
StopServingIfOk(m) ==
    /\ serving[m] = "running" /\ Broken(m) /\ result[m] = "ok"
    /\ serving' = [serving EXCEPT ![m] = "joined"]
    /\ Close(dev[m], {"conn"})
    /\ UNCHANGED <<platform, config, call, helper, mounted, bg, fuset>>

\* ServeOps returns at the end of the device; the connection is closed and
\* the join status becomes available.
StopServing(m) ==
    /\ serving[m] = "running" /\ Broken(m)
    /\ serving' = [serving EXCEPT ![m] = "joined"]
    /\ Close(dev[m], {"conn"})
    /\ UNCHANGED <<platform, config, call, helper, mounted, bg, fuset>>

(***************************************************************************)
(* The environment: the helpers that run beside Mount, the users, and the  *)
(* garbage collector.                                                      *)
(***************************************************************************)

\* mount_macfuse opens a device and sends it.
HelperSends(m) ==
    /\ platform = "macfuse" /\ helper[m].state = "running" /\ holders[m] = {} /\ pc[m] = "receive"
    /\ \E n \in FdCounts : helper' = [helper EXCEPT ![m].fds = n]
    /\ Open(m, {"socket", "helper"})
    /\ UNCHANGED <<platform, config, call, mounted, bg, serving, fuset>>

\* A running helper mounts the file system: FUSE-T's once it is asked to.
HelperMounts(m) ==
    /\ helper[m].state = "running" /\ "helper" \in holders[m] /\ mounted[m] = "no"
    /\ mounted' = [mounted EXCEPT ![m] = "yes"]
    /\ IF platform = "fuset"
       THEN helper[m].mon # 0 /\ asked[helper[m].mon] = "yes" /\ asked' = [asked EXCEPT ![helper[m].mon] = "done"]
       ELSE UNCHANGED asked
    /\ UNCHANGED <<platform, config, call, holders, helper, bg, serving, local, local_mon>>

\* The OS X helpers end when the mount is complete, which takes an answer to INIT.
HelperExits(m) ==
    /\ platform \in {"osxfuse", "macfuse"} /\ helper[m].state = "running"
    /\ mounted[m] = "yes" /\ serving[m] # "none"
    /\ helper' = [helper EXCEPT ![m].state = "exited"]
    /\ holders' = [holders EXCEPT ![m] = @ \ {"helper"}]
    /\ UNCHANGED <<platform, config, call, mounted, bg, serving, fuset>>

\* A helper fails; a FUSE-T server takes its mount with it.
HelperFails(m) ==
    /\ helper[m].state = "running"
    /\ helper' = [helper EXCEPT ![m].state = "failed"]
    /\ holders' = [holders EXCEPT ![m] = @ \ {"helper"}]
    /\ mounted' = [mounted EXCEPT ![m] = IF @ = "yes" /\ platform = "fuset" THEN "unmounted" ELSE @]
    /\ UNCHANGED <<platform, config, call, bg, serving, fuset>>

\* Somebody unmounts the file system.
Unmount(m) ==
    /\ mounted[m] = "yes" /\ pc[m] = "returned"
    /\ mounted' = [mounted EXCEPT ![m] = "unmounted"]
    /\ UNCHANGED <<platform, config, call, holders, helper, bg, serving, fuset>>

\* The collector closes the files that nothing refers to any more, if it
\* comes to run: an unused device, and the sockets of FUSE-T once a later
\* call has put its own in their place. Received descriptors are no files.
Collect(m) ==
    /\ \E end \in holders[m] :
          /\ \/ end = "unused"
             \/ end = "monitor" /\ local_mon # m /\ \A n \in Mounts : bg[n] # "read"
             \/ end = "conn" /\ platform = "fuset" /\ local # m /\ \A n \in Mounts : dev[n] # m
          /\ Close(m, {end})
    /\ UNCHANGED <<platform, config, call, helper, mounted, bg, serving, fuset>>

MountSteps(m) ==
    \/ MountLinux(m) \/ DirectMount(m) \/ FindFusermount(m) \/ Fusermount(m) \/ Receive(m)
    \/ MountOsxFuse(m) \/ CallMount(m) \/ MountFuset(m) \/ PairMonitor(m) \/ StartServer(m)
    \/ ReturnLocal(m) \/ NewConnection(m) \/ StartServing(m) \/ AwaitReady(m)
BackgroundSteps(m) == WaitForHelper(m) \/ AskToMount(m) \/ ReadReply(m)
HelperSteps(m) == HelperSends(m) \/ HelperMounts(m) \/ HelperExits(m) \/ HelperFails(m)

Next == \E m \in Mounts : \/ Mount(m) \/ MountSteps(m) \/ BackgroundSteps(m) \/ StopServing(m)
                          \/ HelperSteps(m) \/ Unmount(m) \/ Collect(m)

\* The goroutines are scheduled, and a helper does something in the end.
Fairness == \A m \in Mounts : /\ WF_vars(MountSteps(m))
                              /\ WF_vars(BackgroundSteps(m))
                              /\ WF_vars(StopServing(m))
                              /\ WF_vars(HelperSteps(m))

Spec == Init /\ [][Next]_vars /\ Fairness

(***************************************************************************)
(* Properties.                                                             *)
(***************************************************************************)
\* Once Mount has returned, whatever it returned, this process holds the
\* device only through the goroutine that serves it: a failed handshake
\* closes the device (newConnection), a failed fusermount the socket with the
\* descriptor in it, so that a directory left mounted refuses requests
\* instead of blocking whoever uses it.  There is one exception: the
\* descriptors of a message with more than one are received, refused and
\* never closed.  What else stays open has nobody at the other end: the
\* device with which mount(2) failed, the local socket of FUSE-T whose server
\* was not started for want of a monitor socket; or it is not the device: the
\* monitor socket.
DeviceHasReader ==
    \A m \in Mounts : pc[m] = "returned" =>
        /\ "socket" \notin holders[m]
        /\ "conn" \in holders[m] => serving[m] = "running" \/ (platform = "fuset" /\ helper[m].state = "none")
        /\ "received" \in holders[m] => helper[m].fds > 1

\* "It blocks until the file system is successfully mounted": when Mount
\* returns a MountedFileSystem the kernel has mounted the directory, and a
\* helper that Mount waited for in the background did not fail.
OkMeansMounted ==
    \A m \in Mounts : result[m] = "ok" =>
        /\ mounted[m] # "no"
        /\ platform = "osxfuse" => helper[m].state = "exited"

\* opts as a reader that knows no escaping finds them: a backslash in a key
\* is doubled.
Unescaped(opts) ==
    [e \in {escapeOptionsKey(k) : k \in DOMAIN opts} |->
        opts[CHOOSE k \in DOMAIN opts : escapeOptionsKey(k) = e]]

\* The flags of mount(2) do not depend on the order in which directmount
\* ranges over the options: an option that no other contradicts has its
\* effect, and NODEV and NOSUID stand unless the user lifts them.
FlagsArrive(opts, flags) ==
    LET on(f) == \E w \in DOMAIN Enables : Key(w) \in opts /\ Enables[w] = f
        off(f) == \E w \in DOMAIN Disables : Key(w) \in opts /\ Disables[w] = f
    IN  \A f \in {Enables[w] : w \in DOMAIN Enables} :
            /\ on(f) /\ ~off(f) => f \in flags
            /\ off(f) /\ ~on(f) => f \notin flags
            /\ ~on(f) /\ ~off(f) => (f \in flags <=> f \in {"NODEV", "NOSUID"})

\* What the configuration asks for arrives.  The options of toMap that are no
\* flags, FSName and Subtype are read back from the string or the arguments:
\* by mount(2), if there is no comma in them, since the kernel knows no
\* escaping; by fusermount, if no value holds a comma or a backslash, since
\* escapeOptionsKey protects the keys alone; by the helpers of OS X always,
\* since convertMountArgs refuses commas.  Those that know no escaping find
\* the backslashes of a key doubled.  FUSE-T's server is given the volume
\* name, with commas and all, and ReadOnly, and nothing else.
ConfigurationArrives ==
    \A m \in Mounts :
        LET g == given[m]
            Has(s, tokens) == \E i \in DOMAIN s : s[i] \in tokens
        IN  /\ g.kind = "mount" =>
                LET opts == toMap(config, FALSE)
                    rest == DataOptions(opts)
                IN  /\ FlagsArrive(DOMAIN opts, g.args.flags)
                    /\ config.FSName # <<>> /\ Key("fsname") \notin DOMAIN config.Options =>
                         g.args.source = config.FSName
                    /\ config.Subtype # <<>> /\ Key("subtype") \notin DOMAIN config.Options =>
                         g.args.fstype = <<"fuse", ".">> \o config.Subtype
                    /\ (\A k \in DOMAIN rest : ~Has(k, {","}) /\ ~Has(rest[k], {","})) =>
                         ParseOptions(FALSE, g.args.data) = Unescaped(rest) @@ DirectOption
            /\ g.kind = "options" /\ platform = "linux" =>
                (\E k \in DOMAIN g.of : Has(g.of[k], {",", "\\"})) \/ ParseOptions(TRUE, g.string) = g.of
            /\ g.kind = "options" /\ platform # "linux" => ParseOptions(FALSE, g.string) = Unescaped(g.of)
            /\ g.kind = "argv" =>
                ReadArgs(g.argv) = [VolumeName |-> config.VolumeName, ReadOnly |-> config.ReadOnly]

\* The session Init agrees on is one both sides speak: a version in the
\* range of the package and not above the kernel's, and of the features that
\* need the kernel's support only those it offered.
SessionAgreed ==
    \A m \in Mounts : given[m].kind = "session" =>
        LET k == given[m].of
            r == given[m].reply
        IN  /\ ~LT(r.protocol, ProtoVersionMin) /\ ~LT(ProtoVersionMax, r.protocol)
            /\ ~LT(k.version, r.protocol)
            /\ r.flags \cap IfOffered \subseteq config.features \cap k.flags
            /\ config.features \cap k.flags \subseteq r.flags

\* A helper that died before it sent the device: Mount, which holds the
\* sending end of the socket itself, waits for the message for ever.
Stranded(m) == platform = "macfuse" /\ pc[m] = "receive" /\ helper[m].state = "failed"

\* Every call of Mount ends, whatever fails underneath (with the exception of
\* Stranded), and so does the goroutine that waits for the helper, even when
\* Mount has returned early and nobody will receive from ready.  After an
\* unmount the goroutine that serves ends and the join status is available.
MountEnds ==
    \A m \in Mounts :
        /\ pc[m] = "mount" ~> (pc[m] \in {"returned", "panicked"} \/ Stranded(m))
        /\ bg[m] \in {"wait", "write", "read"} ~> bg[m] \in {"done", "none"}
        /\ serving[m] = "running" /\ mounted[m] = "unmounted" ~> serving[m] # "running"

\* "Mount attempts to mount a file system on the given directory, using the
\* supplied Server to serve connection requests": the device the call serves
\* is the one behind its own directory.
ServesOwnDirectory == \A m \in Mounts : result[m] = "ok" => helper[m].sock = dev[m]

====
