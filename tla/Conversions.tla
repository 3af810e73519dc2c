---------------------------- MODULE Conversions ----------------------------
(***************************************************************************)
(* The general conversions of conversions.go: modes, times and attributes  *)
(* between Go's types and the kernel's.  A Go mode is its permissions and  *)
(* the set of its other bits; a Go time is a number of ticks since the     *)
(* epoch, positive or negative, TicksPerSecond of them to a second.  The   *)
(* kernel's is two fields: seconds and the ticks after them.               *)
(***************************************************************************)
EXTENDS Integers

TicksPerSecond == 2
SecondsWidth == 2 ^ 16       \* the range of the uint64 for the seconds
NsecWidth == 2 ^ 8           \* of the uint32 for the fraction
NanoWidth == 2 ^ 9           \* of the int64 for the nanoseconds since 1970

\* The signed integer of width w that n wraps to.
Signed(n, w) == LET u == n % w IN IF u < w \div 2 THEN u ELSE u - w

S_IFIFO == 1
S_IFCHR == 2
S_IFDIR == 4
S_IFBLK == 6
S_IFREG == 8
S_IFLNK == 10
S_IFSOCK == 12
TypeOf(mode) == (mode \div 4096) % 16
SpecialOf(mode) == (mode \div 512) % 8
HasBit(n, b) == (n \div b) % 2 = 1

ConvertFileMode(mode) ==
    [perm |-> mode % 512,
     bits |-> (CASE TypeOf(mode) = S_IFREG -> {}
                 [] TypeOf(mode) = S_IFDIR -> {"Dir"}
                 [] TypeOf(mode) = S_IFCHR -> {"CharDevice", "Device"}
                 [] TypeOf(mode) = S_IFBLK -> {"Device"}
                 [] TypeOf(mode) = S_IFIFO -> {"NamedPipe"}
                 [] TypeOf(mode) = S_IFLNK -> {"Symlink"}
                 [] TypeOf(mode) = S_IFSOCK -> {"Socket"}
                 [] OTHER -> {"Device"})
              \cup (IF HasBit(SpecialOf(mode), 4) THEN {"Setuid"} ELSE {})
              \cup (IF HasBit(SpecialOf(mode), 2) THEN {"Setgid"} ELSE {})
              \cup (IF HasBit(SpecialOf(mode), 1) THEN {"Sticky"} ELSE {})]

\* Seeded bug: devices are looked at before directories.
ConvertGoModeDeviceFirst(g) ==
    LET type == CASE "Device" \in g.bits -> IF "CharDevice" \in g.bits THEN S_IFCHR ELSE S_IFBLK
                  [] "Dir" \in g.bits -> S_IFDIR
                  [] "NamedPipe" \in g.bits -> S_IFIFO
                  [] "Symlink" \in g.bits -> S_IFLNK
                  [] "Socket" \in g.bits -> S_IFSOCK
                  [] OTHER -> S_IFREG
        bit(b, v) == IF b \in g.bits THEN v ELSE 0
    IN  g.perm + 4096 * type + 512 * (bit("Setuid", 4) + bit("Setgid", 2) + bit("Sticky", 1))

\* The cases of the switch are tried in this order.
ConvertGoMode(g) ==
    LET type == IF "Dir" \in g.bits THEN S_IFDIR
                ELSE IF "Device" \in g.bits
                     THEN IF "CharDevice" \in g.bits THEN S_IFCHR ELSE S_IFBLK
                ELSE IF "NamedPipe" \in g.bits THEN S_IFIFO
                ELSE IF "Symlink" \in g.bits THEN S_IFLNK
                ELSE IF "Socket" \in g.bits THEN S_IFSOCK
                ELSE S_IFREG
        bit(b, v) == IF b \in g.bits THEN v ELSE 0
    IN  g.perm + 4096 * type + 512 * (bit("Setuid", 4) + bit("Setgid", 2) + bit("Sticky", 1))

\* time.Unix (external), of the fields of a Setattr request.
timeUnix(secs, ticks) == TicksPerSecond * Signed(secs, SecondsWidth) + ticks

\* UnixNano is an int64.  Go's division truncates towards zero, so the remainder has
\* the sign of the time; both counts become unsigned.
convertTime(t) ==
    LET nano == Signed(t, NanoWidth)
        secs == IF nano >= 0 THEN nano \div TicksPerSecond ELSE -((-nano) \div TicksPerSecond)
    IN  [secs |-> secs % SecondsWidth, ticks |-> (nano - TicksPerSecond * secs) % NsecWidth]

\* Rdev is set if the mode has a bit of S_IFCHR or S_IFBLK.
convertAttributes(a) ==
    LET mode == ConvertGoMode(a.mode)
    IN  [mode |-> mode, mtime |-> convertTime(a.mtime),
         rdev |-> IF HasBit(TypeOf(mode), 2) \/ HasBit(TypeOf(mode), 4) THEN a.rdev ELSE 0]

\* An absolute time becomes a duration, and one that is past becomes zero.
convertExpirationTime(t, now) == IF t > now THEN t - now ELSE 0
=============================================================================
