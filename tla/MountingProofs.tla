--------------------------- MODULE MountingProofs ---------------------------
(***************************************************************************)
(* What Mount promises, for any number of calls, configurations and        *)
(* kernels, on every platform: the session is one both sides speak, and,   *)
(* where calls on FUSE-T do not overlap, no device is left without a       *)
(* reader and success means that the call's own directory is mounted.      *)
(***************************************************************************)
EXTENDS Mounting, TLAPS

Labels == {"idle", "mount", "direct", "find", "fusermount", "receive", "callMount", "pair", "start",
           "started", "init", "serve", "ready", "returned", "panicked"}
Ends == {"conn", "socket", "helper", "received", "unused", "monitor"}
States == {"none", "running", "exited", "failed"}
HelperRecords == [state : States, sock : Mounts \cup {0}, mon : Mounts \cup {0}, fds : FdCounts]

\* The types of what the proofs are about.
MountTypes ==
    /\ config \in Configs
    /\ pc \in [Mounts -> Labels] /\ result \in [Mounts -> {"none", "ok", "error"}]
    /\ ready \in [Mounts -> {<< >>, <<"nil">>, <<"error">>}]
    /\ dev \in [Mounts -> Mounts \cup {0}] /\ holders \in [Mounts -> SUBSET Ends]
    /\ helper \in [Mounts -> HelperRecords]
    /\ bg \in [Mounts -> {"none", "wait", "write", "read", "done"}]
    /\ mounted \in [Mounts -> {"no", "yes", "unmounted"}]
    /\ serving \in [Mounts -> {"none", "running", "joined"}]
    /\ local \in Mounts \cup {0} /\ local_mon \in Mounts \cup {0}
    /\ DOMAIN given = Mounts

\* The helper of call m is now in state s and that of connection m; it has sent so many
\* descriptors, which is of interest once they are received.
HelperIs(m, s) ==
    /\ helper' \in [Mounts -> HelperRecords]
    /\ helper'[m].state = s /\ helper'[m].sock = m
    /\ \A n \in Mounts : n # m => helper'[n] = helper[n]

\* What SetHelper does.
LEMMA HelperSet ==
    ASSUME MountTypes, NEW m \in Mounts, NEW s \in States, SetHelper(m, s)
    PROVE  HelperIs(m, s)
<1>0. PICK h \in HelperRecords : h = helper[m]
  BY Zenon DEF MountTypes
<1> DEFINE new == [h EXCEPT !.state = s, !.sock = m]
<1>1. new \in HelperRecords /\ new.state = s /\ new.sock = m
  BY Zenon DEF HelperRecords
<1>2. helper' = [helper EXCEPT ![m] = new]
  BY <1>0, Zenon DEF SetHelper, MountTypes
<1> HIDE DEF new
<1> QED
  BY <1>1, <1>2, Zenon DEF MountTypes, HelperIs

\* What fusermount has done when it exits.
LEMMA HelperDone ==
    ASSUME MountTypes, NEW m \in Mounts, NEW k \in FdCounts,
           helper' = [helper EXCEPT ![m].state = "exited", ![m].sock = m, ![m].fds = k]
    PROVE  HelperIs(m, "exited")
<1>0. PICK h \in HelperRecords : h = helper[m]
  BY Zenon DEF MountTypes
<1> DEFINE new == [h EXCEPT !.state = "exited", !.sock = m, !.fds = k]
<1>1. new \in HelperRecords /\ new.state = "exited" /\ new.sock = m
  BY Zenon DEF HelperRecords, States
<1>2. helper' = [helper EXCEPT ![m] = new]
  BY <1>0, Zenon DEF MountTypes
<1>3. helper \in [Mounts -> HelperRecords]
  BY Zenon DEF MountTypes
<1> HIDE DEF new
<1>4. helper'[m] = new /\ \A n \in Mounts : n # m => helper'[n] = helper[n]
  BY <1>2, <1>3, Zenon
<1>5. helper' \in [Mounts -> HelperRecords]
  BY <1>1, <1>2, <1>3, ZenonT(40)
<1> QED
  BY <1>1, <1>4, <1>5, Zenon DEF HelperIs

\* What a message does to the helper that sends it.
LEMMA HelperSent ==
    ASSUME MountTypes, NEW m \in Mounts, NEW k \in FdCounts, helper' = [helper EXCEPT ![m].fds = k]
    PROVE  /\ helper' \in [Mounts -> HelperRecords]
           /\ helper'[m].state = helper[m].state /\ helper'[m].sock = helper[m].sock
           /\ \A n \in Mounts : n # m => helper'[n] = helper[n]
<1>0. PICK h \in HelperRecords : h = helper[m]
  BY Zenon DEF MountTypes
<1> DEFINE new == [h EXCEPT !.fds = k]
<1>1. new \in HelperRecords /\ new.state = helper[m].state /\ new.sock = helper[m].sock
  BY <1>0, Zenon DEF HelperRecords
<1>2. helper' = [helper EXCEPT ![m] = new]
  BY <1>0, Zenon DEF MountTypes
<1>3. helper \in [Mounts -> HelperRecords]
  BY Zenon DEF MountTypes
<1> HIDE DEF new
<1> QED
  BY <1>1, <1>2, <1>3, Zenon

\* What HelperExits and HelperFails do to the helper.
LEMMA HelperEnds ==
    ASSUME MountTypes, NEW m \in Mounts, NEW s \in {"exited", "failed"},
           helper' = [helper EXCEPT ![m].state = s]
    PROVE  /\ helper' \in [Mounts -> HelperRecords]
           /\ helper'[m].state = s /\ helper'[m].sock = helper[m].sock /\ helper'[m].fds = helper[m].fds
           /\ \A n \in Mounts : n # m => helper'[n] = helper[n]
<1>0. PICK h \in HelperRecords : h = helper[m]
  BY Zenon DEF MountTypes
<1> DEFINE new == [h EXCEPT !.state = s]
<1>1. new \in HelperRecords /\ new.state = s /\ new.sock = helper[m].sock /\ new.fds = helper[m].fds
  BY <1>0, Zenon DEF HelperRecords, States
<1>2. helper' = [helper EXCEPT ![m] = new]
  BY <1>0, Zenon DEF MountTypes
<1> HIDE DEF new
<1> QED
  BY <1>1, <1>2 DEF MountTypes

\* What call m has open is now its old descriptors and ends.
Opened(m, ends) ==
    /\ holders' \in [Mounts -> SUBSET Ends]
    /\ holders'[m] = holders[m] \cup ends
    /\ \A n \in Mounts : n # m => holders'[n] = holders[n]

\* What Open does.
LEMMA Opens ==
    ASSUME MountTypes, NEW m \in Mounts, NEW ends \in SUBSET Ends, Open(m, ends)
    PROVE  Opened(m, ends)
BY Zenon DEF Open, Opened, MountTypes

\* The descriptors ends of connection c are closed, and nothing else is.
Closed(c, ends) ==
    /\ holders' \in [Mounts -> SUBSET Ends]
    /\ \A n \in Mounts : holders'[n] = IF n = c THEN holders[n] \ ends ELSE holders[n]

\* What Close does.
LEMMA Closes ==
    ASSUME MountTypes, NEW c, NEW ends, Close(c, ends)
    PROVE  Closed(c, ends)
BY Zenon DEF Close, Closed, MountTypes

\* Sending on ready, which holds one result at most.
LEMMA Sends ==
    ASSUME MountTypes, NEW m \in Mounts, NEW e \in {"nil", "error"}, CanSend(m), SendReady(m, e)
    PROVE  /\ ready[m] = << >> /\ ready'[m] = <<e>>
           /\ ready' \in [Mounts -> {<< >>, <<"nil">>, <<"error">>}]
           /\ \A n \in Mounts : n # m => ready'[n] = ready[n]
<1>1. ready[m] = << >>
  BY DEF MountTypes, CanSend, ReadyCapacity
<1>2. ready' = [ready EXCEPT ![m] = Append(<< >>, e)]
  BY <1>1, Zenon DEF SendReady
<1>3. Append(<< >>, e) = <<e>>
  OBVIOUS
<1> QED
  BY <1>1, <1>2, <1>3, Zenon DEF MountTypes

\* What a direct mount(2) comes to, its arguments apart.
LEMMA MountsDirectly ==
    ASSUME MountTypes, NEW m \in Mounts, DirectMount(m)
    PROVE  /\ pc[m] = "direct" /\ UNCHANGED <<platform, config, ready, bg, serving, local>>
           /\ \/ /\ dev' = [dev EXCEPT ![m] = m] /\ Opened(m, {"conn"})
                 /\ mounted' = [mounted EXCEPT ![m] = "yes"] /\ HelperIs(m, "exited")
                 /\ GoTo(m, "init") /\ UNCHANGED result
              \/ GoTo(m, "find") /\ UNCHANGED <<result, dev, holders, helper, mounted>>
              \/ GoTo(m, "find") /\ Opened(m, {"unused"}) /\ UNCHANGED <<result, dev, helper, mounted>>
              \/ /\ GoTo(m, "returned") /\ result' = [result EXCEPT ![m] = "error"]
                 /\ Opened(m, {"unused"}) /\ UNCHANGED <<dev, helper, mounted>>
<1>1. {"conn"} \in SUBSET Ends /\ {"unused"} \in SUBSET Ends /\ "exited" \in States
  BY Zenon DEF Ends, States
<1>2. (Open(m, {"conn"}) => Opened(m, {"conn"})) /\ (Open(m, {"unused"}) => Opened(m, {"unused"}))
  BY <1>1, Opens, Zenon
<1>3. SetHelper(m, "exited") => HelperIs(m, "exited")
  BY <1>1, HelperSet, Zenon
<1> QED
  BY <1>2, <1>3, Zenon DEF DirectMount, Return, world, fuset

\* What fusermount comes to, its options apart.
LEMMA MountsWithHelper ==
    ASSUME MountTypes, NEW m \in Mounts, Fusermount(m)
    PROVE  /\ pc[m] = "fusermount" /\ UNCHANGED <<platform, config, ready, dev, bg, serving, local>>
           /\ \/ /\ platform = "linux" /\ HelperIs(m, "exited") /\ mounted' = [mounted EXCEPT ![m] = "yes"]
                 /\ Opened(m, {"socket"}) /\ GoTo(m, "receive") /\ UNCHANGED result
              \/ /\ platform # "linux" /\ HelperIs(m, "running") /\ UNCHANGED <<mounted, holders>>
                 /\ GoTo(m, "receive") /\ UNCHANGED result
              \/ /\ GoTo(m, "returned") /\ result' = [result EXCEPT ![m] = "error"]
                 /\ UNCHANGED <<holders, helper, mounted>>
<1>1. {"socket"} \in SUBSET Ends /\ "running" \in States
  BY Zenon DEF Ends, States
<1>2. Open(m, {"socket"}) => Opened(m, {"socket"})
  BY <1>1, Opens, Zenon
<1>3. SetHelper(m, "running") => HelperIs(m, "running")
  BY <1>1, HelperSet, Zenon
<1>4. ASSUME NEW k \in FdCounts, helper' = [helper EXCEPT ![m].state = "exited", ![m].sock = m, ![m].fds = k]
      PROVE  HelperIs(m, "exited")
  BY <1>4, HelperDone, Zenon
<1> QED
  BY <1>2, <1>3, <1>4, Zenon DEF Fusermount, Return, world, fuset

\* The initial state satisfies the type invariant.
LEMMA TypesStart == Init => MountTypes
BY DEF Init, MountTypes, Labels, HelperRecords, States, FdCounts

\* Every step keeps the types.
LEMMA TypesStep == MountTypes /\ [Next]_vars => MountTypes'
<1> SUFFICES ASSUME MountTypes, [Next]_vars PROVE MountTypes'
  BY Zenon
<1> USE DEF Labels
<1>1. ASSUME NEW m \in Mounts, Mount(m) PROVE MountTypes'
  BY <1>1
  DEF Mount, Return, GoTo, call, world, fuset, MountTypes, Ends
<1>2. ASSUME NEW m \in Mounts, MountLinux(m) PROVE MountTypes'
  <2>1. ready' \in [Mounts -> {<< >>, <<"nil">>, <<"error">>}]
    BY <1>2, Sends, Zenon DEF MountLinux
  <2>2. helper' \in [Mounts -> HelperRecords]
    BY <1>2, HelperSet, Zenon DEF MountLinux, world, MountTypes, HelperIs, States
  <2>3. dev' \in [Mounts -> Mounts \cup {0}] /\ holders' \in [Mounts -> SUBSET Ends]
    BY <1>2 DEF MountLinux, Open, world, MountTypes, Ends
  <2>4. pc' \in [Mounts -> Labels] /\ mounted' \in [Mounts -> {"no", "yes", "unmounted"}]
    BY <1>2 DEF MountLinux, GoTo, world, MountTypes
  <2> QED
    BY <1>2, <2>1, <2>2, <2>3, <2>4, Zenon DEF MountLinux, fuset, MountTypes
<1>3. ASSUME NEW m \in Mounts, DirectMount(m) PROVE MountTypes'
  <2>1. DOMAIN given' = Mounts
    BY <1>3, Zenon DEF DirectMount, Return, MountTypes
  <2>2. helper' \in [Mounts -> HelperRecords]
    BY <1>3, MountsDirectly, Zenon DEF MountTypes, HelperIs
  <2>3. dev' \in [Mounts -> Mounts \cup {0}] /\ holders' \in [Mounts -> SUBSET Ends]
    <3>1. dev' = [dev EXCEPT ![m] = m] \/ dev' = dev
      BY <1>3, MountsDirectly, Zenon
    <3>2. holders' \in [Mounts -> SUBSET Ends]
      BY <1>3, MountsDirectly, Zenon DEF MountTypes, Opened
    <3> QED
      BY <3>1, <3>2, Zenon DEF MountTypes
  <2>4. pc' \in [Mounts -> Labels]
    BY <1>3, MountsDirectly DEF GoTo, MountTypes
  <2>5. mounted' \in [Mounts -> {"no", "yes", "unmounted"}]
    BY <1>3, MountsDirectly, ZenonT(40) DEF MountTypes
  <2>6. result' \in [Mounts -> {"none", "ok", "error"}]
    BY <1>3, MountsDirectly, ZenonT(40) DEF MountTypes
  <2> QED
    BY <1>3, <2>1, <2>2, <2>3, <2>4, <2>5, <2>6, Zenon DEF DirectMount, fuset, MountTypes
<1>4. ASSUME NEW m \in Mounts, FindFusermount(m) PROVE MountTypes'
  BY <1>4
  DEF FindFusermount, Return, GoTo, call, world, fuset, MountTypes, Ends
<1>5. ASSUME NEW m \in Mounts, Fusermount(m) PROVE MountTypes'
  <2>1. DOMAIN given' = Mounts
    BY <1>5, Zenon DEF Fusermount, GiveOptions, Return, MountTypes
  <2>2. helper' \in [Mounts -> HelperRecords]
    BY <1>5, MountsWithHelper, Zenon DEF MountTypes, HelperIs
  <2>3. holders' \in [Mounts -> SUBSET Ends]
    BY <1>5, MountsWithHelper, Zenon DEF MountTypes, Opened
  <2>4. pc' \in [Mounts -> Labels]
    BY <1>5, MountsWithHelper DEF GoTo, MountTypes
  <2>5. mounted' \in [Mounts -> {"no", "yes", "unmounted"}]
    BY <1>5, MountsWithHelper, ZenonT(40) DEF MountTypes
  <2>6. result' \in [Mounts -> {"none", "ok", "error"}]
    BY <1>5, MountsWithHelper, ZenonT(40) DEF MountTypes
  <2> QED
    BY <1>5, <2>1, <2>2, <2>3, <2>4, <2>5, <2>6, ZenonT(40) DEF Fusermount, fuset, MountTypes
<1>6. ASSUME NEW m \in Mounts, Receive(m) PROVE MountTypes'
  BY <1>6
  DEF Receive, Close, Return, GoTo, call, world, fuset, MountTypes, Ends
<1>7. ASSUME NEW m \in Mounts, MountOsxFuse(m) PROVE MountTypes'
  <2>1. ready' \in [Mounts -> {<< >>, <<"nil">>, <<"error">>}]
    BY <1>7, Sends, Zenon DEF MountOsxFuse, MountTypes
  <2>2. pc' \in [Mounts -> Labels] /\ result' \in [Mounts -> {"none", "ok", "error"}]
    BY <1>7 DEF MountOsxFuse, Return, GoTo, MountTypes
  <2>3. DOMAIN given' = Mounts
    BY <1>7, Zenon DEF MountOsxFuse, Return, MountTypes
  <2>4. dev' \in [Mounts -> Mounts \cup {0}] /\ holders' \in [Mounts -> SUBSET Ends]
    BY <1>7 DEF MountOsxFuse, Open, MountTypes, Ends
  <2> QED
    BY <1>7, <2>1, <2>2, <2>3, <2>4, Zenon DEF MountOsxFuse, fuset, MountTypes
<1>8. ASSUME NEW m \in Mounts, CallMount(m) PROVE MountTypes'
  <2>1. helper' \in [Mounts -> HelperRecords]
    BY <1>8, HelperSet, Zenon DEF CallMount, MountTypes, HelperIs, States
  <2>2. pc' \in [Mounts -> Labels] /\ result' \in [Mounts -> {"none", "ok", "error"}]
    <3>1. pc' \in [Mounts -> Labels]
      BY <1>8 DEF CallMount, Return, GoTo, MountTypes
    <3>2. result' \in [Mounts -> {"none", "ok", "error"}]
      BY <1>8, Zenon DEF CallMount, Return, MountTypes
    <3> QED
      BY <3>1, <3>2, Zenon
  <2>3. DOMAIN given' = Mounts
    BY <1>8, Zenon DEF CallMount, GiveOptions, Return, MountTypes
  <2>4. /\ bg' \in [Mounts -> {"none", "wait", "write", "read", "done"}]
        /\ holders' \in [Mounts -> SUBSET Ends]
    <3>1. holders[m] \cup {"helper"} \in SUBSET Ends /\ holders[m] \in SUBSET Ends
      BY Zenon DEF MountTypes, Ends
    <3>2. holders' \in [Mounts -> SUBSET Ends]
      BY <1>8, <3>1 DEF CallMount, Close, MountTypes
    <3> QED
      BY <1>8, <3>2 DEF CallMount, MountTypes
  <2> QED
    BY <1>8, <2>1, <2>2, <2>3, <2>4, Zenon DEF CallMount, fuset, MountTypes
<1>9. ASSUME NEW m \in Mounts, MountFuset(m) PROVE MountTypes'
  BY <1>9
  DEF MountFuset, Open, Return, GoTo, call, world, fuset, MountTypes, Ends
<1>10. ASSUME NEW m \in Mounts, PairMonitor(m) PROVE MountTypes'
  BY <1>10
  DEF PairMonitor, Open, Return, GoTo, call, world, fuset, MountTypes, Ends
<1>11. ASSUME NEW m \in Mounts, StartServer(m) PROVE MountTypes'
  <2>1. helper' \in [Mounts -> HelperRecords]
    BY <1>11 DEF StartServer, HelperRecords, States, FdCounts, MountTypes
  <2>2. holders' \in [Mounts -> SUBSET Ends]
    BY <1>11 DEF StartServer, Open, Panic, MountTypes, Ends
  <2>3. /\ pc' \in [Mounts -> Labels] /\ bg' \in [Mounts -> {"none", "wait", "write", "read", "done"}]
        /\ serving' \in [Mounts -> {"none", "running", "joined"}]
    BY <1>11 DEF StartServer, Panic, GoTo, MountTypes
  <2> QED
    BY <1>11, <2>1, <2>2, <2>3, Zenon DEF StartServer, fuset, MountTypes
<1>12. ASSUME NEW m \in Mounts, ReturnLocal(m) PROVE MountTypes'
  BY <1>12, Zenon
  DEF ReturnLocal, Return, GoTo, call, world, fuset, MountTypes, Ends
<1>13. ASSUME NEW m \in Mounts, NewConnection(m) PROVE MountTypes'
  <2>1. pc' \in [Mounts -> Labels] /\ result' \in [Mounts -> {"none", "ok", "error"}]
    <3>1. pc' \in [Mounts -> Labels]
      BY <1>13 DEF NewConnection, Return, GoTo, MountTypes
    <3>2. result' \in [Mounts -> {"none", "ok", "error"}]
      BY <1>13, Zenon DEF NewConnection, Return, MountTypes
    <3> QED
      BY <3>1, <3>2, Zenon
  <2>2. DOMAIN given' = Mounts
    BY <1>13, Zenon DEF NewConnection, Return, MountTypes
  <2>3. holders' \in [Mounts -> SUBSET Ends]
    BY <1>13, Closes, Zenon DEF NewConnection, Closed, MountTypes
  <2> QED
    BY <1>13, <2>1, <2>2, <2>3, Zenon DEF NewConnection, fuset, MountTypes
<1>14. ASSUME NEW m \in Mounts, StartServing(m) PROVE MountTypes'
  BY <1>14, Zenon
  DEF StartServing, Return, GoTo, call, world, fuset, MountTypes, Ends
<1>15. ASSUME NEW m \in Mounts, AwaitReady(m) PROVE MountTypes'
  <2>1. ready' \in [Mounts -> {<< >>, <<"nil">>, <<"error">>}]
    <3>1. Tail(<<"nil">>) = << >> /\ Tail(<<"error">>) = << >>
      OBVIOUS
    <3>2. ready[m] \in {<<"nil">>, <<"error">>} /\ ready' = [ready EXCEPT ![m] = Tail(ready[m])]
      BY <1>15, Zenon DEF AwaitReady, MountTypes
    <3> QED
      BY <3>1, <3>2, Zenon DEF MountTypes
  <2>2. /\ pc' \in [Mounts -> Labels] /\ result' \in [Mounts -> {"none", "ok", "error"}]
        /\ DOMAIN given' = Mounts
    BY <1>15, Zenon DEF AwaitReady, Return, GoTo, MountTypes
  <2> QED
    BY <1>15, <2>1, <2>2, Zenon DEF AwaitReady, world, fuset, MountTypes
<1>16. ASSUME NEW m \in Mounts, WaitForHelper(m) PROVE MountTypes'
  BY <1>16, Sends, Zenon
  DEF WaitForHelper, Return, GoTo, call, world, fuset, MountTypes, Ends
<1>17. ASSUME NEW m \in Mounts, AskToMount(m) PROVE MountTypes'
  BY <1>17, Zenon
  DEF AskToMount, Return, GoTo, call, world, fuset, MountTypes, Ends
<1>18. ASSUME NEW m \in Mounts, ReadReply(m) PROVE MountTypes'
  BY <1>18, Sends, Zenon
  DEF ReadReply, Return, GoTo, call, world, fuset, MountTypes, Ends
<1>19. ASSUME NEW m \in Mounts, StopServing(m) PROVE MountTypes'
  BY <1>19, Closes, Zenon
  DEF Closed, StopServing, Return, GoTo, call, world, fuset, MountTypes, Ends
<1>20. ASSUME NEW m \in Mounts, HelperSends(m) PROVE MountTypes'
  <2>1. helper' \in [Mounts -> HelperRecords]
    BY <1>20, HelperSent, Zenon DEF HelperSends
  <2>2. holders' \in [Mounts -> SUBSET Ends]
    BY <1>20, Zenon DEF HelperSends, Open, MountTypes, Ends
  <2> QED
    BY <1>20, <2>1, <2>2, Zenon DEF HelperSends, call, fuset, MountTypes
<1>21. ASSUME NEW m \in Mounts, HelperMounts(m) PROVE MountTypes'
  BY <1>21, Zenon
  DEF HelperMounts, Return, GoTo, call, world, fuset, MountTypes, Ends
<1>22. ASSUME NEW m \in Mounts, HelperExits(m) PROVE MountTypes'
  <2>1. helper' \in [Mounts -> HelperRecords]
    BY <1>22, HelperEnds, Zenon DEF HelperExits
  <2>2. holders' \in [Mounts -> SUBSET Ends]
    BY <1>22, Zenon DEF HelperExits, MountTypes
  <2> QED
    BY <1>22, <2>1, <2>2, Zenon DEF HelperExits, call, fuset, MountTypes
<1>23. ASSUME NEW m \in Mounts, HelperFails(m) PROVE MountTypes'
  <2>1. helper' \in [Mounts -> HelperRecords]
    BY <1>23, HelperEnds, Zenon DEF HelperFails
  <2>2. holders' \in [Mounts -> SUBSET Ends]
    BY <1>23, Zenon DEF HelperFails, MountTypes
  <2>3. mounted' \in [Mounts -> {"no", "yes", "unmounted"}]
    BY <1>23, Zenon DEF HelperFails, MountTypes
  <2> QED
    BY <1>23, <2>1, <2>2, <2>3, Zenon DEF HelperFails, call, fuset, MountTypes
<1>24. ASSUME NEW m \in Mounts, Unmount(m) PROVE MountTypes'
  BY <1>24, Zenon
  DEF Unmount, Return, GoTo, call, world, fuset, MountTypes, Ends
<1>25. ASSUME NEW m \in Mounts, Collect(m) PROVE MountTypes'
  <2>1. holders' \in [Mounts -> SUBSET Ends]
    BY <1>25, Closes, Zenon DEF Collect, Closed
  <2> QED
    BY <1>25, <2>1, Zenon DEF Collect, call, fuset, MountTypes
<1>26. CASE UNCHANGED vars
  BY <1>26, Zenon DEF vars, call, world, fuset, MountTypes
<1> QED
  BY <1>1, <1>2, <1>3, <1>4, <1>5, <1>6, <1>7, <1>8, <1>9, <1>10, <1>11, <1>12, <1>13, <1>14, <1>15, <1>16, <1>17, <1>18, <1>19, <1>20, <1>21, <1>22, <1>23, <1>24, <1>25, <1>26, ZenonT(40) DEF Next, MountSteps, BackgroundSteps, HelperSteps

-----------------------------------------------------------------------------
(* Success *)

Under == {"pair", "start", "started"}
After == {"init", "serve", "ready", "returned", "panicked"}
InProgress(m) == pc[m] \notin {"idle", "returned", "panicked"}

\* What makes OkMeansMounted and ServesOwnDirectory inductive: the device of call m is
\* its own, and so is what the helper holds and what is sent on ready.
Own(m) ==
    /\ dev[m] \in {0, m} /\ helper[m].sock \in {0, m}
    /\ pc[m] \in Under => platform = "fuset" /\ local = m
    /\ bg[m] \in {"write", "read"} => platform = "fuset"
    /\ bg[m] = "wait" => pc[m] \in After
    /\ result[m] = "ok" => pc[m] \in {"returned", "panicked"}
    /\ pc[m] \in {"serve", "ready"} \/ result[m] = "ok" => mounted[m] # "no" /\ helper[m].sock = dev[m]
    /\ platform = "osxfuse" /\ (ready[m] = <<"nil">> \/ result[m] = "ok") =>
         pc[m] \in After /\ helper[m].state = "exited"

\* The package variables of FUSE-T are those of one call at a time.
OneAtATime == platform = "fuset" => \A m, n \in Mounts : InProgress(m) /\ InProgress(n) => m = n

OwnInv == MountTypes /\ OneAtATime /\ \A m \in Mounts : Own(m)

\* No step changes the platform or the configuration.
LEMMA PlatformStays == [Next]_vars => UNCHANGED <<platform, config>>
<1> SUFFICES ASSUME [Next]_vars PROVE UNCHANGED <<platform, config>>
  BY Zenon
<1>1. CASE UNCHANGED vars
  BY <1>1, Zenon DEF vars
<1>2. ASSUME NEW m \in Mounts, MountSteps(m) PROVE UNCHANGED <<platform, config>>
  <2>1. CASE MountLinux(m) \/ DirectMount(m) \/ FindFusermount(m)
    BY <2>1, Zenon DEF MountLinux, DirectMount, FindFusermount
  <2>2. CASE Fusermount(m) \/ Receive(m)
    BY <2>2, Zenon DEF Fusermount, Receive
  <2>3. CASE MountOsxFuse(m) \/ CallMount(m) \/ MountFuset(m)
    BY <2>3, Zenon DEF MountOsxFuse, CallMount, MountFuset
  <2>4. CASE PairMonitor(m) \/ StartServer(m) \/ ReturnLocal(m)
    BY <2>4, Zenon DEF PairMonitor, StartServer, ReturnLocal
  <2>5. CASE NewConnection(m) \/ StartServing(m) \/ AwaitReady(m)
    BY <2>5, Zenon DEF NewConnection, StartServing, AwaitReady
  <2> QED
    BY <1>2, <2>1, <2>2, <2>3, <2>4, <2>5, Zenon DEF MountSteps
<1>3. ASSUME NEW m \in Mounts, Mount(m) \/ BackgroundSteps(m) \/ StopServing(m) PROVE UNCHANGED <<platform, config>>
  BY <1>3, Zenon DEF Mount, BackgroundSteps, WaitForHelper, AskToMount, ReadReply, StopServing
<1>4. ASSUME NEW m \in Mounts, HelperSteps(m) \/ Unmount(m) PROVE UNCHANGED <<platform, config>>
  BY <1>4, Zenon DEF HelperSteps, HelperSends, HelperMounts, HelperExits, HelperFails, Unmount
<1>5. ASSUME NEW m \in Mounts, Collect(m) PROVE UNCHANGED <<platform, config>>
  BY <1>5, Zenon DEF Collect
<1> QED
  BY <1>1, <1>2, <1>3, <1>4, <1>5, Zenon DEF Next

\* A call goes on, or ends; only Mount begins one.
LEMMA OnlyMountBegins ==
    ASSUME MountTypes, NEW m \in Mounts, NEW n \in Mounts,
           MountSteps(m) \/ BackgroundSteps(m) \/ StopServing(m) \/ HelperSteps(m) \/ Unmount(m) \/ Collect(m),
           InProgress(n)'
    PROVE  InProgress(n)
<1>1. pc \in [Mounts -> Labels]
  BY Zenon DEF MountTypes
<1>2. ASSUME NEW l, GoTo(m, l), InProgress(m) PROVE InProgress(n)
  BY <1>1, <1>2, Zenon DEF GoTo, InProgress
<1>3. CASE pc' = pc
  BY <1>3, Zenon DEF InProgress
<1>4. CASE MountSteps(m)
  <2>1. InProgress(m)
    BY <1>4, Zenon DEF InProgress, MountSteps, MountLinux, DirectMount, FindFusermount, Fusermount, Receive,
                MountOsxFuse, CallMount, MountFuset, PairMonitor, StartServer, ReturnLocal, NewConnection,
                StartServing, AwaitReady
  <2>2. (\E l : GoTo(m, l)) \/ pc' = [k \in Mounts |-> "panicked"]
    <3>1. CASE DirectMount(m)
      BY <3>1, MountsDirectly, Zenon
    <3>2. CASE Fusermount(m)
      BY <3>2, MountsWithHelper, Zenon
    <3>3. CASE MountLinux(m) \/ FindFusermount(m) \/ Receive(m)
      BY <3>3, Zenon DEF MountLinux, FindFusermount, Receive, Return
    <3>4. CASE MountOsxFuse(m)
      BY <3>4, Zenon DEF MountOsxFuse, Return
    <3>5. CASE CallMount(m) \/ MountFuset(m) \/ PairMonitor(m)
      BY <3>5, Zenon DEF CallMount, MountFuset, PairMonitor, Return
    <3>6. CASE StartServer(m) \/ ReturnLocal(m)
      BY <3>6, Zenon DEF StartServer, ReturnLocal, Panic
    <3>7. CASE NewConnection(m) \/ StartServing(m) \/ AwaitReady(m)
      BY <3>7, Zenon DEF NewConnection, StartServing, AwaitReady, Return
    <3> QED
      BY <1>4, <3>1, <3>2, <3>3, <3>4, <3>5, <3>6, <3>7, Zenon DEF MountSteps
  <2> QED
    BY <1>2, <2>1, <2>2, Zenon DEF InProgress
<1>5. CASE BackgroundSteps(m) \/ StopServing(m)
  BY <1>3, <1>5, Zenon DEF BackgroundSteps, WaitForHelper, AskToMount, ReadReply, StopServing, call
<1>6. CASE HelperSteps(m) \/ Unmount(m) \/ Collect(m)
  BY <1>3, <1>6, Zenon DEF HelperSteps, HelperSends, HelperMounts, HelperExits, HelperFails, Unmount, Collect, call
<1> QED
  BY <1>4, <1>5, <1>6, Zenon

\* Where calls on FUSE-T may not overlap, there is one at a time.
LEMMA OneAtATimeStep ==
    ASSUME "fuset" \notin Overlapping, MountTypes, OneAtATime, [Next]_vars
    PROVE  OneAtATime'
<1>1. UNCHANGED platform
  BY PlatformStays, Zenon
<1> SUFFICES ASSUME platform = "fuset", NEW a \in Mounts, NEW b \in Mounts, InProgress(a)', InProgress(b)'
             PROVE  a = b
  BY <1>1, Zenon DEF OneAtATime, InProgress
<1>2. ASSUME NEW m \in Mounts, Mount(m) PROVE a = b
  <2>1. Alone(m) /\ pc \in [Mounts -> Labels]
    BY <1>2, Zenon DEF Mount, MountTypes
  <2>2. \A k \in Mounts \ {m} : pc'[k] \in {"idle", "returned"}
    BY <1>2, <2>1, Zenon DEF Mount, Return, GoTo, Alone
  <2> QED
    BY <2>2, Zenon DEF InProgress
<1>3. ASSUME InProgress(a), InProgress(b) PROVE a = b
  BY <1>3, Zenon DEF OneAtATime
<1>4. CASE UNCHANGED vars
  BY <1>3, <1>4, Zenon DEF vars, call, InProgress
<1> QED
  BY <1>2, <1>3, <1>4, OnlyMountBegins, Zenon DEF Next

\* Every step keeps what a call has its own, where calls on FUSE-T may not overlap.
LEMMA OwnStep ==
    ASSUME "fuset" \notin Overlapping, OwnInv, [Next]_vars
    PROVE  OwnInv'
<1> SUFFICES ASSUME NEW n \in Mounts PROVE Own(n)'
  BY TypesStep, OneAtATimeStep, Zenon DEF OwnInv
<1>a. /\ MountTypes /\ Own(n)
      /\ pc \in [Mounts -> Labels] /\ dev \in [Mounts -> Mounts \cup {0}]
      /\ result \in [Mounts -> {"none", "ok", "error"}]
      /\ bg \in [Mounts -> {"none", "wait", "write", "read", "done"}]
      /\ mounted \in [Mounts -> {"no", "yes", "unmounted"}]
  BY ZenonT(40) DEF OwnInv, MountTypes
<1>1. ASSUME NEW m \in Mounts, Mount(m) PROVE Own(n)'
  BY <1>a, <1>1 DEF Mount, Own, After, Under, GoTo, Return, call, world, fuset
<1>2. ASSUME NEW m \in Mounts, MountLinux(m) PROVE Own(n)'
  BY <1>a, <1>2, HelperSet, Sends DEF MountLinux, HelperIs, States, Own, After, Under, GoTo, Return, call, world, fuset
<1>3. ASSUME NEW m \in Mounts, DirectMount(m) PROVE Own(n)'
  BY <1>a, <1>3, MountsDirectly DEF HelperIs, Own, After, Under, GoTo
<1>4. ASSUME NEW m \in Mounts, FindFusermount(m) PROVE Own(n)'
  BY <1>a, <1>4 DEF FindFusermount, Own, After, Under, GoTo, Return, call, world, fuset
<1>5. ASSUME NEW m \in Mounts, Fusermount(m) PROVE Own(n)'
  BY <1>a, <1>5, MountsWithHelper DEF HelperIs, Own, After, Under, GoTo
<1>6. ASSUME NEW m \in Mounts, Receive(m) PROVE Own(n)'
  BY <1>a, <1>6 DEF Receive, Own, After, Under, GoTo, Return, call, world, fuset
<1>7. ASSUME NEW m \in Mounts, MountOsxFuse(m) PROVE Own(n)'
  BY <1>a, <1>7, Sends DEF MountOsxFuse, Own, After, Under, GoTo, Return, call, world, fuset
<1>8. ASSUME NEW m \in Mounts, CallMount(m) PROVE Own(n)'
  BY <1>a, <1>8, HelperSet DEF CallMount, HelperIs, States, Own, After, Under, GoTo, Return, call, world, fuset
<1>9. ASSUME NEW m \in Mounts, MountFuset(m) PROVE Own(n)'
  <2>1. n # m => pc[n] \notin Under
    BY <1>9, Zenon DEF OwnInv, OneAtATime, InProgress, MountFuset, Under
  <2> QED
    BY <1>a, <1>9, <2>1 DEF MountFuset, Own, After, Under, GoTo, Return, world, fuset
<1>10. ASSUME NEW m \in Mounts, PairMonitor(m) PROVE Own(n)'
  BY <1>a, <1>10 DEF PairMonitor, Own, After, Under, GoTo, Return, call, world, fuset
<1>11. ASSUME NEW m \in Mounts, StartServer(m) PROVE Own(n)'
  <2>1. local = m /\ platform = "fuset" /\ platform' = platform
    BY <1>11, Zenon DEF OwnInv, Own, Under, StartServer
  <2>2. CASE Panic
    <3>1. /\ pc'[n] = "panicked" /\ bg'[n] = "none"
          /\ UNCHANGED <<dev, helper, result, mounted, ready>>
      BY <1>11, <2>2 DEF StartServer, Panic, fuset, GoTo
    <3> QED
      BY <1>a, <2>1, <3>1, ZenonT(40) DEF Own, After, Under
  <2>3. CASE ~Panic
    <3>1. /\ helper' = [helper EXCEPT ![m] = [state |-> "running", sock |-> m, mon |-> local_mon, fds |-> 0]]
          /\ bg' = [bg EXCEPT ![m] = "write"] /\ pc' = [pc EXCEPT ![m] = "started"] /\ pc[m] = "start"
          /\ UNCHANGED <<dev, result, mounted, ready, local>>
      BY <1>11, <2>1, <2>3, Zenon DEF StartServer, GoTo, fuset
    <3>2. helper \in [Mounts -> HelperRecords]
      BY <1>a, Zenon DEF MountTypes
    <3>3. helper'[m].sock = m /\ (n # m => helper'[n] = helper[n])
      BY <3>1, <3>2, Zenon
    <3> QED
      BY <1>a, <2>1, <3>1, <3>3, ZenonT(40) DEF Own, After, Under
  <2> QED
    BY <2>2, <2>3, Zenon
<1>12. ASSUME NEW m \in Mounts, ReturnLocal(m) PROVE Own(n)'
  BY <1>a, <1>12, ZenonT(40) DEF ReturnLocal, Own, After, Under, GoTo, Return, call, world, fuset
<1>13. ASSUME NEW m \in Mounts, NewConnection(m) PROVE Own(n)'
  <2>1. UNCHANGED <<platform, dev, helper, mounted, bg, ready, local>> /\ pc[m] = "init"
    BY <1>13, ZenonT(40) DEF NewConnection, fuset
  <2>2. CASE GoTo(m, "serve") /\ UNCHANGED result /\ \E k \in Peers(m) : mounted[k] = "yes"
    <3>1. PICK k \in Peers(m) : mounted[k] = "yes"
      BY <2>2, ZenonT(40)
    <3>2. k = m /\ helper[m].sock = dev[m]
      BY <3>1, MountingAssumption DEF Peers, OwnInv, Own
    <3> QED
      BY <1>a, <2>1, <2>2, <3>1, <3>2, Zenon DEF Own, After, Under, GoTo
  <2>3. CASE Return(m, "error")
    BY <1>a, <2>1, <2>3, Zenon DEF Own, After, Under, GoTo, Return
  <2> QED
    BY <1>13, <2>2, <2>3, Zenon DEF NewConnection
<1>14. ASSUME NEW m \in Mounts, StartServing(m) PROVE Own(n)'
  BY <1>a, <1>14, ZenonT(40) DEF StartServing, Own, After, Under, GoTo, Return, call, world, fuset
<1>15. ASSUME NEW m \in Mounts, AwaitReady(m) PROVE Own(n)'
  <2>1. /\ UNCHANGED <<platform, dev, helper, mounted, bg, local>> /\ pc[m] = "ready"
        /\ Return(m, IF Head(ready[m]) = "nil" THEN "ok" ELSE "error")
        /\ ready' = [ready EXCEPT ![m] = Tail(ready[m])] /\ ready[m] # << >>
    BY <1>15, ZenonT(40) DEF AwaitReady, world, fuset
  <2>2. ready[m] = <<"nil">> \/ ready[m] = <<"error">>
    BY <1>a, <2>1, Zenon DEF MountTypes
  <2>3. Tail(ready[m]) = << >> /\ (Head(ready[m]) = "nil" => ready[m] = <<"nil">>)
    <3>1. Tail(<<"nil">>) = << >> /\ Tail(<<"error">>) = << >> /\ Head(<<"error">>) = "error"
      OBVIOUS
    <3> QED
      BY <2>2, <3>1, Zenon
  <2>4. /\ ready' = [ready EXCEPT ![m] = << >>]
        /\ ready \in [Mounts -> {<< >>, <<"nil">>, <<"error">>}]
    BY <1>a, <2>1, <2>3, Zenon DEF MountTypes
  <2>5. ready'[m] # <<"nil">> /\ (n # m => ready'[n] = ready[n])
    BY <2>4, Zenon
  <2>6. \E r \in {"ok", "error"} : Return(m, r) /\ (r = "ok" => ready[m] = <<"nil">>)
    BY <2>1, <2>3, Zenon
  <2>7. PICK r \in {"ok", "error"} :
          /\ pc' = [pc EXCEPT ![m] = "returned"] /\ result' = [result EXCEPT ![m] = r]
          /\ r = "ok" => ready[m] = <<"nil">>
    BY <2>6, ZenonT(40) DEF Return, GoTo
  <2>8. CASE n # m
    <3>1. pc'[n] = pc[n] /\ result'[n] = result[n]
      BY <1>a, <2>7, <2>8, Zenon
    <3> QED
      BY <1>a, <2>1, <2>5, <2>8, <3>1, Zenon DEF Own
  <2>9. CASE n = m
    <3>1. pc'[n] = "returned" /\ result'[n] = r
      BY <1>a, <2>7, <2>9, ZenonT(40)
    <3> QED
      BY <1>a, <2>1, <2>5, <2>7, <2>9, <3>1, Zenon DEF Own, After, Under
  <2> QED
    BY <2>8, <2>9, Zenon
<1>16. ASSUME NEW m \in Mounts, WaitForHelper(m) PROVE Own(n)'
  <2>1. UNCHANGED <<platform, pc, result, dev, helper, mounted, local>>
    BY <1>16, Zenon DEF WaitForHelper, world, fuset
  <2>2. pc[m] \in After
    BY <1>16, Zenon DEF WaitForHelper, OwnInv, Own
  <2>3. ready'[m] = <<"nil">> => helper[m].state = "exited"
    BY <1>16, <1>a, Sends DEF WaitForHelper
  <2>4. bg'[n] = bg[n] \/ bg'[n] = "done"
    BY <1>16, <1>a, Zenon DEF WaitForHelper
  <2>5. n # m => ready'[n] = ready[n]
    BY <1>16, <1>a, Sends, ZenonT(40) DEF WaitForHelper
  <2> QED
    BY <1>a, <2>1, <2>2, <2>3, <2>4, <2>5, ZenonT(40) DEF Own
<1>17. ASSUME NEW m \in Mounts, AskToMount(m) PROVE Own(n)'
  BY <1>a, <1>17, Zenon DEF AskToMount, Own, After, Under, GoTo, Return, call, world, fuset
<1>18. ASSUME NEW m \in Mounts, ReadReply(m) PROVE Own(n)'
  BY <1>a, <1>18, Sends DEF ReadReply, Own, After, Under, GoTo, Return, call, world, fuset
<1>19. ASSUME NEW m \in Mounts, StopServing(m) PROVE Own(n)'
  BY <1>a, <1>19, ZenonT(40) DEF StopServing, Own, After, Under, GoTo, Return, call, world, fuset
<1>20. ASSUME NEW m \in Mounts, HelperSends(m) PROVE Own(n)'
  <2>1. /\ helper'[m].state = helper[m].state /\ helper'[m].sock = helper[m].sock
        /\ n # m => helper'[n] = helper[n]
    BY <1>a, <1>20, HelperSent, ZenonT(40) DEF HelperSends
  <2> QED
    BY <1>a, <1>20, <2>1, Zenon DEF HelperSends, Own, call, fuset
<1>21. ASSUME NEW m \in Mounts, HelperMounts(m) PROVE Own(n)'
  BY <1>a, <1>21, ZenonT(40) DEF HelperMounts, Own, After, Under, GoTo, Return, call, world, fuset
<1>22. ASSUME NEW m \in Mounts, HelperExits(m) PROVE Own(n)'
  BY <1>a, <1>22, HelperEnds DEF HelperExits, Own, After, Under, GoTo, Return, call, world, fuset
<1>23. ASSUME NEW m \in Mounts, HelperFails(m) PROVE Own(n)'
  BY <1>a, <1>23, HelperEnds DEF HelperFails, Own, After, Under, GoTo, Return, call, world, fuset
<1>24. ASSUME NEW m \in Mounts, Unmount(m) PROVE Own(n)'
  BY <1>a, <1>24, Zenon DEF Unmount, Own, After, Under, GoTo, Return, call, world, fuset
<1>25. ASSUME NEW m \in Mounts, Collect(m) PROVE Own(n)'
  BY <1>a, <1>25, Zenon DEF Collect, Own, call, fuset
<1>26. CASE UNCHANGED vars
  BY <1>a, <1>26, Zenon DEF Own, vars, call, world, fuset
<1> QED
  BY <1>1, <1>2, <1>3, <1>4, <1>5, <1>6, <1>7, <1>8, <1>9, <1>10, <1>11, <1>12, <1>13, <1>14, <1>15, <1>16, <1>17, <1>18, <1>19, <1>20, <1>21, <1>22, <1>23, <1>24, <1>25, <1>26, ZenonT(40) DEF Next, MountSteps, BackgroundSteps, HelperSteps

\* At the start no call has anything.
LEMMA OwnStart == Init => OwnInv
<1> SUFFICES ASSUME Init PROVE OwnInv
  BY Zenon
<1>1. OneAtATime
  BY Zenon DEF Init, OneAtATime, InProgress
<1>2. ASSUME NEW m \in Mounts PROVE Own(m)
  BY Zenon DEF Init, Own, Under, After
<1> QED
  BY <1>1, <1>2, TypesStart, Zenon DEF OwnInv

-----------------------------------------------------------------------------
(* The device *)

\* What makes DeviceHasReader inductive: a descriptor is in the socket only while Mount
\* waits for it, and in Mount's hands only until the connection is served; it is call m's
\* own. The received ones and the local socket of FUSE-T are the exceptions that
\* DeviceHasReader names.
Attended(m) ==
    /\ "socket" \in holders[m] => pc[m] = "receive"
    /\ "received" \in holders[m] => pc[m] = "returned" /\ helper[m].fds > 1
    /\ "conn" \in holders[m] =>
         \/ pc[m] \in Under
         \/ pc[m] \in {"callMount", "init", "serve"} /\ dev[m] = m
         \/ pc[m] \in {"ready", "returned"} /\ serving[m] = "running" /\ dev[m] = m
         \/ pc[m] = "returned" /\ platform = "fuset" /\ helper[m].state = "none"
    /\ pc[m] \in {"idle", "mount", "direct", "find", "fusermount", "callMount", "pair", "start"} =>
         helper[m].state = "none"

DeviceInv == OwnInv /\ \A m \in Mounts : Attended(m)

\* At the start nothing is open.
LEMMA DeviceStart == Init => DeviceInv
<1> SUFFICES ASSUME Init, NEW m \in Mounts PROVE Attended(m)
  BY OwnStart, Zenon DEF DeviceInv
<1>1. pc[m] = "idle" /\ holders[m] = {} /\ helper[m].state = "none"
  BY Zenon DEF Init
<1> QED
  BY <1>1, Zenon DEF Attended

\* A call that takes no step stays attended, whatever is closed for it.
LEMMA StaysAttended ==
    ASSUME NEW n, Attended(n), pc'[n] = pc[n], holders'[n] \subseteq holders[n], dev'[n] = dev[n],
           serving'[n] = serving[n], helper'[n] = helper[n], platform' = platform
    PROVE  Attended(n)'
BY ZenonT(40) DEF Attended

\* Every step keeps the descriptors attended, where calls on FUSE-T may not overlap.
LEMMA DeviceStep ==
    ASSUME "fuset" \notin Overlapping, DeviceInv, [Next]_vars
    PROVE  DeviceInv'
<1> SUFFICES ASSUME NEW n \in Mounts PROVE Attended(n)'
  BY OwnStep, Zenon DEF DeviceInv
<1>a. /\ MountTypes /\ pc \in [Mounts -> Labels] /\ holders \in [Mounts -> SUBSET Ends]
      /\ dev \in [Mounts -> Mounts \cup {0}] /\ helper \in [Mounts -> HelperRecords]
      /\ serving \in [Mounts -> {"none", "running", "joined"}]
  BY Zenon DEF DeviceInv, OwnInv, MountTypes
<1>b. Attended(n) /\ Own(n) /\ platform' = platform
  BY PlatformStays, Zenon DEF DeviceInv, OwnInv
<1>1. ASSUME NEW m \in Mounts, Mount(m) PROVE Attended(n)'
  BY <1>a, <1>b, <1>1, Zenon DEF Mount, Attended, Under, GoTo, Return, call, world
<1>2. ASSUME NEW m \in Mounts, MountLinux(m) PROVE Attended(n)'
  BY <1>a, <1>b, <1>2, HelperSet, Opens DEF MountLinux, Attended, HelperIs, States, Ends, Opened, Under, GoTo, world
<1>3. ASSUME NEW m \in Mounts, DirectMount(m) PROVE Attended(n)'
  BY <1>a, <1>b, <1>3, MountsDirectly DEF Attended, HelperIs, Opened, Under, GoTo
<1>4. ASSUME NEW m \in Mounts, FindFusermount(m) PROVE Attended(n)'
  BY <1>a, <1>b, <1>4, Zenon DEF FindFusermount, Attended, Under, GoTo, Return, call, world
<1>5. ASSUME NEW m \in Mounts, Fusermount(m) PROVE Attended(n)'
  BY <1>a, <1>b, <1>5, MountsWithHelper DEF Attended, HelperIs, Opened, Under, GoTo
<1>6. ASSUME NEW m \in Mounts, Receive(m) PROVE Attended(n)'
  <2>1. pc[m] = "receive" /\ UNCHANGED <<helper, serving>>
    BY <1>6, Zenon DEF Receive
  <2>2. CASE n # m
    <3>1. pc'[n] = pc[n] /\ dev'[n] = dev[n]
      BY <1>a, <1>6, <2>2, Zenon DEF Receive, Return, GoTo
    <3>2. holders'[n] = holders[n]
      BY <1>a, <1>6, <2>2, Closes, Zenon DEF Receive, Closed
    <3> QED
      BY <1>b, <2>1, <3>1, <3>2, StaysAttended, Zenon
  <2>3. CASE n = m
    <3>1. "conn" \notin holders[m] /\ "received" \notin holders[m]
      BY <1>b, <2>1, <2>3, Zenon DEF Attended, Under
    <3>2. CASE dev' = [dev EXCEPT ![m] = m] /\ GoTo(m, "init")
               /\ holders' = [holders EXCEPT ![m] = (@ \ {"socket"}) \cup {"conn"}]
      <4>1. pc'[n] = "init" /\ dev'[n] = n /\ holders'[n] = (holders[m] \ {"socket"}) \cup {"conn"}
        BY <1>a, <2>3, <3>2, Zenon DEF GoTo
      <4> QED
        BY <3>1, <4>1, Zenon DEF Attended
    <3>3. CASE Return(m, "error")
      <4>1. pc'[n] = "returned"
        BY <1>a, <2>3, <3>3, Zenon DEF Return, GoTo
      <4>2. \/ holders'[n] = holders[m] \ {"socket"}
            \/ holders'[n] = (holders[m] \ {"socket"}) \cup (IF helper[m].fds > 1 THEN {"received"} ELSE {})
            \/ pc'[n] = "init"
        BY <1>a, <1>6, <2>3, Closes, ZenonT(40) DEF Receive, Closed, GoTo
      <4> QED
        BY <2>1, <2>3, <3>1, <4>1, <4>2, ZenonT(40) DEF Attended
    <3> QED
      BY <1>6, <3>2, <3>3, Zenon DEF Receive
  <2> QED
    BY <2>2, <2>3, Zenon
<1>7. ASSUME NEW m \in Mounts, MountOsxFuse(m) PROVE Attended(n)'
  BY <1>a, <1>b, <1>7, Opens DEF MountOsxFuse, Attended, Opened, Ends, Under, GoTo, Return
<1>8. ASSUME NEW m \in Mounts, CallMount(m) PROVE Attended(n)'
  <2>1. pc[m] = "callMount" /\ UNCHANGED <<dev, serving>>
    BY <1>8, Zenon DEF CallMount
  <2>2. CASE GoTo(m, "init") /\ SetHelper(m, "running")
             /\ holders' = [holders EXCEPT ![m] = IF dev[m] = m THEN @ \cup {"helper"} ELSE @]
    <3>1. HelperIs(m, "running")
      BY <1>a, <2>2, HelperSet, Zenon DEF States
    <3>2. n # m => pc'[n] = pc[n] /\ holders'[n] = holders[n] /\ helper'[n] = helper[n]
      BY <1>a, <2>2, <3>1, Zenon DEF GoTo, HelperIs
    <3>3. n = m => pc'[n] = "init" /\ holders'[n] \subseteq holders[n] \cup {"helper"}
      BY <1>a, <2>2, Zenon DEF GoTo
    <3> QED
      BY <1>b, <2>1, <3>2, <3>3, ZenonT(40) DEF Attended, Under
  <2>3. CASE Return(m, "error") /\ Close(m, {"conn"}) /\ UNCHANGED helper
    <3>1. n # m => pc'[n] = pc[n] /\ holders'[n] = holders[n]
      BY <1>a, <2>3, Closes, Zenon DEF Return, GoTo, Closed
    <3>2. n = m => pc'[n] = "returned" /\ holders'[n] = holders[n] \ {"conn"}
      BY <1>a, <2>3, Closes, Zenon DEF Return, GoTo, Closed
    <3> QED
      BY <1>b, <2>1, <2>3, <3>1, <3>2, ZenonT(40) DEF Attended, Under
  <2> QED
    BY <1>8, <2>2, <2>3, Zenon DEF CallMount
<1>9. ASSUME NEW m \in Mounts, MountFuset(m) PROVE Attended(n)'
  BY <1>a, <1>b, <1>9, Opens DEF MountFuset, Attended, Opened, Ends, Under, GoTo, Return
<1>10. ASSUME NEW m \in Mounts, PairMonitor(m) PROVE Attended(n)'
  <2>1. pc[m] = "pair" /\ platform = "fuset"
    BY <1>10, Zenon DEF PairMonitor, DeviceInv, OwnInv, Own, Under
  <2> QED
    BY <1>a, <1>b, <1>10, <2>1, Opens DEF PairMonitor, Attended, Opened, Ends, Under, GoTo, Return
<1>11. ASSUME NEW m \in Mounts, StartServer(m) PROVE Attended(n)'
  BY <1>a, <1>b, <1>11, Opens DEF StartServer, Panic, Attended, Opened, Ends, Under, GoTo
<1>12. ASSUME NEW m \in Mounts, ReturnLocal(m) PROVE Attended(n)'
  <2>1. pc[m] = "started" /\ local = m
    BY <1>12, Zenon DEF ReturnLocal, DeviceInv, OwnInv, Own, Under
  <2> QED
    BY <1>a, <1>b, <1>12, <2>1, Zenon DEF ReturnLocal, Attended, Under, GoTo, world
<1>13. ASSUME NEW m \in Mounts, NewConnection(m) PROVE Attended(n)'
  <2>1. pc[m] = "init" /\ UNCHANGED <<dev, serving, helper>>
    BY <1>13, Zenon DEF NewConnection
  <2>2. CASE GoTo(m, "serve") /\ UNCHANGED holders
    BY <1>a, <1>b, <2>1, <2>2, Zenon DEF Attended, Under, GoTo
  <2>3. CASE Return(m, "error") /\ Close(dev[m], {"conn"})
    <3>1. n # m => pc'[n] = pc[n] /\ holders'[n] \subseteq holders[n]
      BY <1>a, <2>3, Closes, Zenon DEF Return, GoTo, Closed
    <3>2. n = m => pc'[n] = "returned"
      BY <1>a, <2>3, Zenon DEF Return, GoTo
    <3>3. holders'[n] = IF n = dev[m] THEN holders[n] \ {"conn"} ELSE holders[n]
      BY <1>a, <2>3, Closes, Zenon DEF Closed
    <3> QED
      BY <1>b, <2>1, <3>1, <3>2, <3>3, StaysAttended, ZenonT(40) DEF Attended, Under
  <2> QED
    BY <1>13, <2>2, <2>3, Zenon DEF NewConnection
<1>14. ASSUME NEW m \in Mounts, StartServing(m) PROVE Attended(n)'
  BY <1>a, <1>b, <1>14, Zenon DEF StartServing, Attended, Under, GoTo, Return, call, world
<1>15. ASSUME NEW m \in Mounts, AwaitReady(m) PROVE Attended(n)'
  BY <1>a, <1>b, <1>15, Zenon DEF AwaitReady, Attended, Under, GoTo, Return, call, world
<1>16. ASSUME NEW m \in Mounts, WaitForHelper(m) PROVE Attended(n)'
  BY <1>a, <1>b, <1>16, Zenon DEF WaitForHelper, Attended, Under, GoTo, Return, call, world
<1>17. ASSUME NEW m \in Mounts, AskToMount(m) PROVE Attended(n)'
  BY <1>a, <1>b, <1>17, Zenon DEF AskToMount, Attended, Under, GoTo, Return, call, world
<1>18. ASSUME NEW m \in Mounts, ReadReply(m) PROVE Attended(n)'
  BY <1>a, <1>b, <1>18, Zenon DEF ReadReply, Attended, Under, GoTo, Return, call, world
<1>19. ASSUME NEW m \in Mounts, StopServing(m) PROVE Attended(n)'
  <2>1. serving[m] = "running" /\ UNCHANGED <<dev, pc, helper>>
    BY <1>19, Zenon DEF StopServing, call
  <2>2. holders'[n] = IF n = dev[m] THEN holders[n] \ {"conn"} ELSE holders[n]
    BY <1>a, <1>19, Closes, Zenon DEF StopServing, Closed
  <2>3. n # m => serving'[n] = serving[n]
    BY <1>a, <1>19, Zenon DEF StopServing
  <2>4. CASE n # m
    BY <1>b, <2>1, <2>2, <2>3, <2>4, StaysAttended, Zenon
  <2>5. CASE n = m
    BY <1>b, <2>1, <2>2, <2>5, ZenonT(40) DEF Attended
  <2> QED
    BY <2>4, <2>5, Zenon
<1>20. ASSUME NEW m \in Mounts, HelperSends(m) PROVE Attended(n)'
  BY <1>a, <1>b, <1>20, HelperSent, Opens DEF HelperSends, Attended, Opened, Ends, call
<1>21. ASSUME NEW m \in Mounts, HelperMounts(m) PROVE Attended(n)'
  BY <1>a, <1>b, <1>21, Zenon DEF HelperMounts, Attended, Under, GoTo, Return, call, world
<1>22. ASSUME NEW m \in Mounts, HelperExits(m) PROVE Attended(n)'
  BY <1>a, <1>b, <1>22, HelperEnds, Zenon DEF HelperExits, Attended, call
<1>23. ASSUME NEW m \in Mounts, HelperFails(m) PROVE Attended(n)'
  BY <1>a, <1>b, <1>23, HelperEnds DEF HelperFails, Attended, call
<1>24. ASSUME NEW m \in Mounts, Unmount(m) PROVE Attended(n)'
  BY <1>a, <1>b, <1>24, Zenon DEF Unmount, Attended, Under, GoTo, Return, call, world
<1>25. ASSUME NEW m \in Mounts, Collect(m) PROVE Attended(n)'
  BY <1>a, <1>b, <1>25, Closes, StaysAttended, ZenonT(40) DEF Collect, Closed, call
<1>26. CASE UNCHANGED vars
  BY <1>b, <1>26, Zenon DEF Attended, vars, call, world
<1> QED
  BY <1>1, <1>2, <1>3, <1>4, <1>5, <1>6, <1>7, <1>8, <1>9, <1>10, <1>11, <1>12, <1>13, <1>14, <1>15, <1>16, <1>17, <1>18, <1>19, <1>20, <1>21, <1>22, <1>23, <1>24, <1>25, <1>26, ZenonT(40) DEF Next, MountSteps, BackgroundSteps, HelperSteps

-----------------------------------------------------------------------------
(* The session *)

\* The session that call m has agreed on, if it has, is one both sides speak.
Agreed(m) ==
    given[m].kind = "session" =>
        LET k == given[m].of
            r == given[m].reply
        IN  /\ ~LT(r.protocol, ProtoVersionMin) /\ ~LT(ProtoVersionMax, r.protocol)
            /\ ~LT(k.version, r.protocol)
            /\ r.flags \cap IfOffered \subseteq config.features \cap k.flags
            /\ config.features \cap k.flags \subseteq r.flags

\* What Init answers to a kernel that is not too old.
LEMMA ReplyAgrees ==
    ASSUME NEW c \in Configs, NEW k \in Kernels, ~LT(k.version, ProtoVersionMin),
           NEW r, r = InitReply(c, k)
    PROVE  /\ ~LT(r.protocol, ProtoVersionMin) /\ ~LT(ProtoVersionMax, r.protocol)
           /\ ~LT(k.version, r.protocol)
           /\ r.flags \cap IfOffered \subseteq c.features \cap k.flags
           /\ c.features \cap k.flags \subseteq r.flags
<1>1. PICK a \in Nat, b \in Nat : k.version = <<a, b>>
  BY MountingAssumption
<1>2. /\ r.protocol = IF LT(k.version, ProtoVersionMax) THEN k.version ELSE ProtoVersionMax
      /\ r.flags = {"BigWrites", "MaxPages"} \cup (c.features \cap Unconditional)
                   \cup (c.features \cap IfOffered \cap k.flags)
  BY Zenon DEF InitReply
<1>3. /\ ~LT(r.protocol, ProtoVersionMin) /\ ~LT(ProtoVersionMax, r.protocol)
      /\ ~LT(k.version, r.protocol)
  <2>1. CASE LT(k.version, ProtoVersionMax)
    <3>1. r.protocol = <<a, b>>
      BY <1>1, <1>2, <2>1, Zenon
    <3> QED
      BY <1>1, <2>1, <3>1 DEF LT, ProtoVersionMin, ProtoVersionMax
  <2>2. CASE ~LT(k.version, ProtoVersionMax)
    <3>1. r.protocol = <<7, 34>>
      BY <1>2, <2>2, Zenon DEF ProtoVersionMax
    <3> QED
      BY <1>1, <2>2, <3>1 DEF LT, ProtoVersionMin, ProtoVersionMax
  <2> QED
    BY <2>1, <2>2, Zenon
<1>4. c.features \subseteq Unconditional \cup IfOffered
  BY MountingAssumption, Zenon
<1>5. IfOffered \cap ({"BigWrites", "MaxPages"} \cup Unconditional) = {}
  BY ZenonT(40) DEF IfOffered, Unconditional
<1> QED
  BY <1>2, <1>3, <1>4, <1>5, Zenon

SessionInv == MountTypes /\ \A m \in Mounts : Agreed(m)

\* What call n has been given is as before, or is not a session.
Quiet(n) == given'[n] = given[n] \/ given'[n].kind # "session"

\* At the start no session has been agreed on.
LEMMA SessionStart == Init => SessionInv
BY TypesStart DEF Init, SessionInv, Agreed, Nothing

\* Every step that gives or takes something leaves the sessions both sides speak.
LEMMA SessionStep == SessionInv /\ [Next]_vars => SessionInv'
<1> SUFFICES ASSUME SessionInv, [Next]_vars, NEW n \in Mounts PROVE Agreed(n)'
  BY TypesStep, Zenon DEF SessionInv
<1>a. DOMAIN given = Mounts /\ config \in Configs /\ Agreed(n) /\ config' = config
  BY PlatformStays, Zenon DEF SessionInv, MountTypes
<1>b. ASSUME Quiet(n) PROVE Agreed(n)'
  BY <1>a, <1>b, Zenon DEF Quiet, Agreed
<1>c. CASE UNCHANGED given
  BY <1>b, <1>c, Zenon DEF Quiet
<1>d. ASSUME NEW m \in Mounts, NEW r, Return(m, r) PROVE Agreed(n)'
  BY <1>a, <1>b, <1>d, Zenon DEF Quiet, Return, Nothing
<1>1. ASSUME NEW m \in Mounts, DirectMount(m) PROVE Agreed(n)'
  <2>1. ASSUME NEW x, given' = [given EXCEPT ![m] = [kind |-> "mount", args |-> x]] PROVE Agreed(n)'
    BY <1>a, <1>b, <2>1, Zenon DEF Quiet
  <2> QED
    BY <1>1, <1>c, <1>d, <2>1, Zenon DEF DirectMount
<1>e. ASSUME NEW m \in Mounts, GiveOptions(m) PROVE Agreed(n)'
  <2>1. ASSUME NEW x, NEW y, given' = [given EXCEPT ![m] = [kind |-> "options", of |-> x, string |-> y]] PROVE Agreed(n)'
    BY <1>a, <1>b, <2>1, Zenon DEF Quiet
  <2> QED
    BY <1>e, <2>1, Zenon DEF GiveOptions
<1>2. ASSUME NEW m \in Mounts, Fusermount(m) PROVE Agreed(n)'
  BY <1>2, <1>d, <1>e, Zenon DEF Fusermount
<1>3. ASSUME NEW m \in Mounts, NewConnection(m) PROVE Agreed(n)'
  <2>1. ASSUME NEW k \in Kernels, ~LT(k.version, ProtoVersionMin),
               given' = [given EXCEPT ![m] = [kind |-> "session", of |-> k, reply |-> InitReply(config, k)]]
        PROVE  Agreed(n)'
    <3>1. CASE n # m
      BY <1>a, <1>b, <2>1, <3>1, Zenon DEF Quiet
    <3>2. CASE n = m
      <4>0. PICK c \in Configs : c = config
        BY <1>a, Zenon
      <4>1. PICK r : r = InitReply(c, k)
        BY Zenon
      <4>2. given'[n].kind = "session" /\ given'[n].of = k /\ given'[n].reply = r /\ config' = c
        BY <1>a, <2>1, <3>2, <4>0, <4>1, Zenon
      <4> QED
        BY <2>1, <4>1, <4>2, ReplyAgrees, ZenonT(40) DEF Agreed
    <3> QED
      BY <3>1, <3>2, Zenon
  <2> QED
    BY <1>3, <1>d, <2>1, Zenon DEF NewConnection
<1>4. ASSUME NEW m \in Mounts, StartServing(m) PROVE Agreed(n)'
  BY <1>a, <1>b, <1>4, Zenon DEF StartServing, Quiet, Nothing
<1>5. ASSUME NEW m \in Mounts, Mount(m) \/ MountLinux(m) \/ FindFusermount(m) \/ Receive(m) PROVE Agreed(n)'
  BY <1>5, <1>c, <1>d, Zenon DEF Mount, MountLinux, FindFusermount, Receive
<1>6. ASSUME NEW m \in Mounts, MountOsxFuse(m) PROVE Agreed(n)'
  BY <1>6, <1>c, <1>d, Zenon DEF MountOsxFuse
<1>7. ASSUME NEW m \in Mounts, CallMount(m) \/ MountFuset(m) \/ PairMonitor(m) PROVE Agreed(n)'
  <2>1. CASE CallMount(m) \/ PairMonitor(m)
    BY <2>1, <1>c, <1>d, <1>e, Zenon DEF CallMount, PairMonitor
  <2>2. ASSUME NEW x, given' = [given EXCEPT ![m] = [kind |-> "argv", argv |-> x]] PROVE Agreed(n)'
    BY <1>a, <1>b, <2>2, Zenon DEF Quiet
  <2>3. CASE MountFuset(m)
    BY <2>2, <2>3, <1>d, Zenon DEF MountFuset
  <2> QED
    BY <1>7, <2>1, <2>3, Zenon
<1>8. ASSUME NEW m \in Mounts, StartServer(m) \/ ReturnLocal(m) \/ AwaitReady(m) PROVE Agreed(n)'
  BY <1>8, <1>c, <1>d, Zenon DEF StartServer, ReturnLocal, AwaitReady
<1>9. ASSUME NEW m \in Mounts, BackgroundSteps(m) \/ StopServing(m) PROVE Agreed(n)'
  BY <1>9, <1>c, Zenon DEF BackgroundSteps, WaitForHelper, AskToMount, ReadReply, StopServing, call
<1>10. ASSUME NEW m \in Mounts, HelperSteps(m) \/ Unmount(m) \/ Collect(m) PROVE Agreed(n)'
  BY <1>10, <1>c, Zenon DEF HelperSteps, HelperSends, HelperMounts, HelperExits, HelperFails, Unmount, Collect, call
<1>11. CASE UNCHANGED vars
  BY <1>11, <1>c, Zenon DEF vars, call
<1> QED
  BY <1>1, <1>2, <1>3, <1>4, <1>5, <1>6, <1>7, <1>8, <1>9, <1>10, <1>11, ZenonT(40) DEF Next, MountSteps

-----------------------------------------------------------------------------
(* What Mount promises *)

\* However Mount returns, on whichever platform, and whatever else is being mounted where
\* calls on FUSE-T do not overlap, no device is open that nobody reads from: newConnection
\* closes the one it gives up, and fusermount the socket with the descriptor in it. The
\* descriptors of a message with too many, and a local socket of FUSE-T without a server,
\* stay open.
THEOREM NoDeviceUnattended ==
    ASSUME "fuset" \notin Overlapping
    PROVE  Spec => []DeviceHasReader
<1>1. DeviceInv => DeviceHasReader
  BY ZenonT(40) DEF DeviceInv, Attended, Under, DeviceHasReader
<1>2. DeviceInv /\ [Next]_vars => DeviceInv'
  BY DeviceStep, Zenon
<1> QED
  BY <1>1, <1>2, DeviceStart, PTL DEF Spec

\* Init agrees on a session both sides speak, for every configuration and every kernel.
THEOREM SessionsAgreed == Spec => []SessionAgreed
<1>1. SessionInv => SessionAgreed
  BY Zenon DEF SessionInv, Agreed, SessionAgreed
<1> QED
  BY <1>1, SessionStart, SessionStep, PTL DEF Spec

\* Where calls of Mount on FUSE-T do not overlap, a call that succeeds has its directory
\* mounted, and the helper it waited for has not failed.
THEOREM SuccessMeansMounted ==
    ASSUME "fuset" \notin Overlapping
    PROVE  Spec => []OkMeansMounted
<1>1. OwnInv => OkMeansMounted
  BY Zenon DEF OwnInv, Own, OkMeansMounted
<1>2. OwnInv /\ [Next]_vars => OwnInv'
  BY OwnStep, Zenon
<1> QED
  BY <1>1, <1>2, OwnStart, PTL DEF Spec

\* Under the same condition, the device it serves is that of its own directory.
THEOREM OwnDirectoryServed ==
    ASSUME "fuset" \notin Overlapping
    PROVE  Spec => []ServesOwnDirectory
<1>1. OwnInv => ServesOwnDirectory
  BY Zenon DEF OwnInv, Own, ServesOwnDirectory
<1>2. OwnInv /\ [Next]_vars => OwnInv'
  BY OwnStep, Zenon
<1> QED
  BY <1>1, <1>2, OwnStart, PTL DEF Spec
=============================================================================
