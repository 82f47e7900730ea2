------------------------------ MODULE FuseCaps ------------------------------
(***************************************************************************)
(* The capability-gated vnops of fuse4x (src/fuse_vnops.c) on one regular  *)
(* vnode: getxattr, listxattr, setxattr, removexattr, ioctl, fsync and     *)
(* exchange, with the session's capability bits (fuse_implemented), its    *)
(* mount data flags and its dead flag.  Each vnop checks its bit before    *)
(* dispatch; an ENOSYS answer clears the bit for the life of the session   *)
(* (spec 4.1) and is translated before it reaches the VFS.                 *)
(*                                                                         *)
(* As in FuseHandles, a vnop is one action up to its dispatcher wait and   *)
(* one action per answer; other threads interleave at the waits.  The      *)
(* file-handle slots are FuseHandles' state: here the slots fsync and      *)
(* ioctl find valid are inputs of the call.                                *)
(***************************************************************************)
EXTENDS Naturals, Bitwise, FiniteSetsExt

CONSTANTS
  Threads,          \* host threads issuing vnops
  DaemonImpls,      \* possible sets of optional requests the daemon implements
  MountFlagSets,    \* possible sets of mount data flags (fuse_data->dataflags)
  ExchangeBuilds,   \* is FUSE4X_ENABLE_EXCHANGE defined in the build?
  IovCounts,        \* numbers of iovecs the uio of a setxattr may carry
  UioBackupMax,     \* FUSE_UIO_BACKUP_MAX
  CanDie            \* may the daemon die, marking the session dead?

(* The optional requests with a FSESS_NOIMPLBIT each. *)
CapOps == {"GETXATTR", "LISTXATTR", "SETXATTR", "REMOVEXATTR", "IOCTL",
           "FSYNC", "EXCHANGE"}
XattrOps   == {"GETXATTR", "LISTXATTR", "SETXATTR", "REMOVEXATTR"}
MountFlags == {"AUTO_XATTR", "NO_APPLEXATTR", "NOSYNCWRITES"}

ASSUME /\ Threads # {}
       /\ DaemonImpls \subseteq SUBSET CapOps /\ DaemonImpls # {}
       /\ MountFlagSets \subseteq SUBSET MountFlags /\ MountFlagSets # {}
       /\ ExchangeBuilds \subseteq BOOLEAN /\ ExchangeBuilds # {}
       /\ IovCounts \subseteq Nat \ {0} /\ IovCounts # {}
       /\ UioBackupMax \in Nat \ {0} /\ CanDie \in BOOLEAN

(* Attribute names as the xattr vnops tell them apart: NULL or "", one   *)
(* starting with "com.apple.", any other.                                *)
Names == {"empty", "apple", "user"}

(* sys/ioccom.h: the direction bits and the size field of a command,    *)
(* taken by the upper half of the 32-bit word (bits 16..31, so that TLC's *)
(* 32-bit signed integers hold IOC_IN); the group and number in the lower *)
(* half play no part here.                                                *)
IOC_OUT   == 16384          \* 0x40000000 >> 16
IOC_IN    == 32768          \* 0x80000000 >> 16
IOC_INOUT == IOC_IN + IOC_OUT
ParmLen   == 4              \* IOCPARM_LEN 4, bits 16..28
IoctlCmds == {IOC_OUT + ParmLen, IOC_IN + ParmLen, IOC_INOUT + ParmLen}

(* FUFH_MAXTYPE: the slots fsync walks. *)
MaxSlots == 3

VARIABLES
  impl,      \* capability bits still set (fuse_implemented)
  flags,     \* mount data flags
  dead,      \* fuse_isdeadfs
  exchange,  \* the build's FUSE4X_ENABLE_EXCHANGE (fixed for a behaviour)
  th,        \* [Threads -> record]: where each thread is in its vnop
  dImpl      \* optional requests the daemon implements

vars == <<impl, flags, dead, exchange, th, dImpl>>

(* The per-thread record: program counter, the vnop, the value it        *)
(* returned (or "none"), whether the daemon answered ENOSYS, the         *)
(* caller's uio of a setxattr (its iovec count, the count it has now,    *)
(* whether its data was moved), an ioctl's command and whether its       *)
(* a_data buffer was overwritten, and fsync's slots left and error.      *)
Idle == [pc |-> "idle", op |-> "none", ret |-> "none", enosys |-> FALSE,
         iov |-> 0, cnt |-> 0, moved |-> FALSE, cmd |-> IOC_OUT + ParmLen,
         data |-> FALSE, left |-> 0, err |-> "OK"]

Pcs == {"idle", "wait", "fsync_wait"}

(* Errors an implementing daemon may answer with, besides success. *)
DaemonErrs == {"EIO", "ENOTSUP"}

(* The answer to request o: ENOTCONN once the session is dead, ENOSYS    *)
(* from a daemon without o, else success or an error.                    *)
Answers(o) ==
  IF dead THEN {"ENOTCONN"}
  ELSE IF o \in dImpl THEN {"OK"} \cup DaemonErrs ELSE {"ENOSYS"}

Start(t, o, r) == th' = [th EXCEPT ![t] = [r EXCEPT !.pc = "wait", !.op = o]]
Finish(t, v)   == th' = [th EXCEPT ![t].pc = "idle", ![t].ret = v]

(* Mutant: the bit is cleared on "not supported" as well as on ENOSYS. *)
ClearIfNotSupported(o, a) ==
  impl' = IF a \in {"ENOSYS", "ENOTSUP"} THEN impl \ {o} ELSE impl

(* fuse_clear_implemented on an ENOSYS answer. *)
ClearIf(o, a) == impl' = IF a = "ENOSYS" THEN impl \ {o} ELSE impl

(* Mutant: ENOSYS is returned as it came. *)
XattrErrNoTranslate(a) == a

(* An xattr vnop's answer as returned: ENOSYS becomes ENOTSUP. *)
XattrErr(a) == IF a = "ENOSYS" THEN "ENOTSUP" ELSE a

(* fuse_skip_apple_xattr_mp *)
SkipAppleXattr(name) == name = "apple" /\ "NO_APPLEXATTR" \in flags

(* The early returns of getxattr, setxattr and removexattr, in the order *)
(* the code tests them (BLANKET_DENIAL is a no-op hook): "SEND" if none. *)
XattrEarly(o, name) ==
  CASE dead                      -> "ENXIO"
    [] name = "empty"            -> "EINVAL"
    [] SkipAppleXattr(name)      -> "EPERM"
    [] "AUTO_XATTR" \in flags    -> "ENOTSUP"
    [] o \notin impl             -> "ENOTSUP"
    [] OTHER                     -> "SEND"

-----------------------------------------------------------------------------
(* fuse_vnop_getxattr, fuse_vnop_removexattr and fuse_vnop_listxattr up to *)
(* the wait.  listxattr has no name, so no name checks.                    *)
VnopXattr(t, o, name) ==
  LET e == XattrEarly(o, IF o = "LISTXATTR" THEN "user" ELSE name) IN
  /\ th[t].pc = "idle" /\ o \in XattrOps \ {"SETXATTR"}
  /\ \/ e # "SEND" /\ th' = [th EXCEPT ![t] = [Idle EXCEPT !.op = o, !.ret = e]]
     \/ e = "SEND" /\ Start(t, o, Idle)
  /\ UNCHANGED <<impl, flags, dead, exchange, dImpl>>

(* Their answers.  ENOSYS clears the bit and gives ENOTSUP; any other     *)
(* error is returned.  On success getxattr and listxattr copy the value   *)
(* out, or fail ERANGE when it is larger than the caller's buffer;        *)
(* removexattr invalidates the cached attributes (FuseAttrCache's).       *)
XattrReply(t) ==
  LET o == th[t].op IN
  /\ th[t].pc = "wait" /\ o \in XattrOps \ {"SETXATTR"}
  /\ \E a \in Answers(o) :
       /\ ClearIf(o, a)
       /\ \/ a # "OK" /\ th' = [th EXCEPT ![t].pc = "idle", ![t].ret = XattrErr(a),
                                           ![t].enosys = (a = "ENOSYS")]
          \/ a = "OK" /\ \E r \in IF o = "REMOVEXATTR" THEN {"OK"}
                                  ELSE {"OK", "ERANGE"} : Finish(t, r)
  /\ UNCHANGED <<flags, dead, exchange, dImpl>>

VnopGetxattr(t, name)    == VnopXattr(t, "GETXATTR", name)
VnopListxattr(t)         == VnopXattr(t, "LISTXATTR", "user")
VnopRemovexattr(t, name) == VnopXattr(t, "REMOVEXATTR", name)
GetxattrReply(t)         == th[t].op = "GETXATTR" /\ XattrReply(t)
ListxattrReply(t)        == th[t].op = "LISTXATTR" /\ XattrReply(t)
RemovexattrReply(t)      == th[t].op = "REMOVEXATTR" /\ XattrReply(t)

(* fuse_vnop_setxattr up to the wait.  After the common checks it saves   *)
(* the offset and at most FUSE_UIO_BACKUP_MAX iovecs of the uio; a value  *)
(* over the session's buffer gives E2BIG and a failed ticket ERANGE; the  *)
(* value is then moved out of the uio (uiomove, which may fail EFAULT)    *)
(* and SETXATTR is sent.                                                  *)
VnopSetxattr(t, name) ==
  LET e == XattrEarly("SETXATTR", name) IN
  /\ th[t].pc = "idle"
  /\ \E n \in IovCounts :
       LET r == [Idle EXCEPT !.op = "SETXATTR", !.iov = n, !.cnt = n] IN
       \/ e # "SEND" /\ th' = [th EXCEPT ![t] = [r EXCEPT !.ret = e]]
       \/ e = "SEND" /\ \E v \in {"E2BIG", "ERANGE", "EFAULT"} :
            th' = [th EXCEPT ![t] = [r EXCEPT !.ret = v, !.moved = (v = "EFAULT")]]
       \/ e = "SEND" /\ Start(t, "SETXATTR", [r EXCEPT !.moved = TRUE])
  /\ UNCHANGED <<impl, flags, dead, exchange, dImpl>>

(* Mutant: the uio is restored only after ENOSYS, not after ENOTSUP. *)
RestoreUioOnEnosys(t, a) ==
  th' = [th EXCEPT ![t].pc = "idle", ![t].ret = "ENOTSUP",
                   ![t].enosys = (a = "ENOSYS"),
                   ![t].cnt = IF a = "ENOSYS" THEN Min({@, UioBackupMax}) ELSE @,
                   ![t].moved = IF a = "ENOSYS" THEN FALSE ELSE @]

(* uio_reset to the saved offset, then uio_addiov of the saved iovecs:   *)
(* the caller gets its uio back to retry through the host's fallback,    *)
(* with at most FUSE_UIO_BACKUP_MAX iovecs.                               *)
RestoreUio(t, a) ==
  th' = [th EXCEPT ![t].pc = "idle", ![t].ret = "ENOTSUP",
                   ![t].enosys = (a = "ENOSYS"),
                   ![t].cnt = Min({th[t].iov, UioBackupMax}), ![t].moved = FALSE]

(* The SETXATTR answer: success; ENOSYS (which clears the bit) or ENOTSUP *)
(* restores the uio and returns ENOTSUP; any other error is returned.     *)
(* (uio_getiov cannot fail for an index below uio_iovcnt, so the EAGAIN   *)
(* return is never taken.)                                                *)
SetxattrReply(t) ==
  /\ th[t].pc = "wait" /\ th[t].op = "SETXATTR"
  /\ \E a \in Answers("SETXATTR") :
       /\ ClearIf("SETXATTR", a)
       /\ \/ a \in {"ENOSYS", "ENOTSUP"} /\ RestoreUio(t, a)
          \/ a \notin {"ENOSYS", "ENOTSUP"} /\ Finish(t, a)
  /\ UNCHANGED <<flags, dead, exchange, dImpl>>
(* Mutant: an ioctl answered ENOSYS returns ENOSYS. *)
IoctlErrNoTranslate(a) == a

(* What ioctl returns for an error answer: ENOSYS becomes 0. *)
IoctlErr(a) == IF a = "ENOSYS" THEN "OK" ELSE a

(* fuse_vnop_ioctl with command cmd on a file whose slot of the caller's *)
(* open mode is valid or not: ENXIO, ENOTSUP without the bit, EIO with   *)
(* no valid slot; else IOCTL goes out with the slot's fh.                *)
VnopIoctl(t, cmd, slotValid) ==
  LET r == [Idle EXCEPT !.op = "IOCTL", !.cmd = cmd] IN
  /\ th[t].pc = "idle"
  /\ \/ dead /\ th' = [th EXCEPT ![t] = [r EXCEPT !.ret = "ENXIO"]]
     \/ ~dead /\ "IOCTL" \notin impl /\ th' = [th EXCEPT ![t] = [r EXCEPT !.ret = "ENOTSUP"]]
     \/ ~dead /\ "IOCTL" \in impl /\ ~slotValid
        /\ th' = [th EXCEPT ![t] = [r EXCEPT !.ret = "EIO"]]
     \/ ~dead /\ "IOCTL" \in impl /\ slotValid /\ Start(t, "IOCTL", r)
  /\ UNCHANGED <<impl, flags, dead, exchange, dImpl>>

(* The IOCTL answer.  On success the answer is copied into a_data when   *)
(* "a_command | IOC_OUT" is non-zero; ENOSYS clears the bit and returns  *)
(* 0; any other error is returned.                                        *)
IoctlReply(t) ==
  /\ th[t].pc = "wait" /\ th[t].op = "IOCTL"
  /\ \E a \in Answers("IOCTL") :
       /\ ClearIf("IOCTL", a)
       /\ \/ a = "OK"
             /\ th' = [th EXCEPT ![t].pc = "idle", ![t].ret = "OK",
                                 ![t].data = ((th[t].cmd | IOC_OUT) # 0)]
          \/ a # "OK"
             /\ th' = [th EXCEPT ![t].pc = "idle", ![t].ret = IoctlErr(a),
                                 ![t].enosys = (a = "ENOSYS")]
  /\ UNCHANGED <<flags, dead, exchange, dImpl>>

(* fsync's "out:": ENOSYS is returned only on a NOSYNCWRITES mount. *)
FsyncOut(err) ==
  IF err = "ENOSYS" /\ "NOSYNCWRITES" \notin flags THEN "OK" ELSE err

(* Mutant: the slot loop runs one slot too far ("<=" FUFH_MAXTYPE). *)
VnopFsyncOffByOne(t, n) ==
  LET r == [Idle EXCEPT !.op = "FSYNC"] IN
  /\ th[t].pc = "idle"
  /\ \/ dead /\ th' = [th EXCEPT ![t] = [r EXCEPT !.ret = "OK"]]
     \/ ~dead /\ "FSYNC" \notin impl
        /\ th' = [th EXCEPT ![t] = [r EXCEPT !.ret = FsyncOut("ENOSYS")]]
     \/ ~dead /\ "FSYNC" \in impl
        /\ th' = [th EXCEPT ![t] = [r EXCEPT !.pc = "fsync_wait", !.left = n + 1]]
  /\ UNCHANGED <<impl, flags, dead, exchange, dImpl>>

(* fuse_vnop_fsync on a file with n valid slots: 0 on a dead session;    *)
(* ENOSYS to "out:" without the FSYNC bit; else one fuse_internal_fsync  *)
(* per valid slot, each a FSYNC request and its wait.                    *)
VnopFsync(t, n) ==
  LET r == [Idle EXCEPT !.op = "FSYNC"] IN
  /\ th[t].pc = "idle"
  /\ \/ dead /\ th' = [th EXCEPT ![t] = [r EXCEPT !.ret = "OK"]]
     \/ ~dead /\ "FSYNC" \notin impl
        /\ th' = [th EXCEPT ![t] = [r EXCEPT !.ret = FsyncOut("ENOSYS")]]
     \/ ~dead /\ "FSYNC" \in impl /\ n = 0
        /\ th' = [th EXCEPT ![t] = [r EXCEPT !.ret = FsyncOut("OK")]]
     \/ ~dead /\ "FSYNC" \in impl /\ n > 0
        /\ th' = [th EXCEPT ![t] = [r EXCEPT !.pc = "fsync_wait", !.left = n]]
  /\ UNCHANGED <<impl, flags, dead, exchange, dImpl>>

(* The answer to one slot's FSYNC, taken by fuse_internal_fsync: ENOSYS  *)
(* clears the bit; a non-zero result becomes fsync's err.  The loop      *)
(* goes on to the next valid slot, or to "out:" after the last.          *)
FsyncReply(t) ==
  /\ th[t].pc = "fsync_wait"
  /\ \E a \in Answers("FSYNC") :
       LET err == IF a # "OK" THEN a ELSE th[t].err IN
       /\ ClearIf("FSYNC", a)
       /\ \/ th[t].left > 1
             /\ th' = [th EXCEPT ![t].left = @ - 1, ![t].err = err,
                                 ![t].enosys = @ \/ a = "ENOSYS"]
          \/ th[t].left = 1
             /\ th' = [th EXCEPT ![t].pc = "idle", ![t].left = 0, ![t].err = err,
                                 ![t].ret = FsyncOut(err),
                                 ![t].enosys = @ \/ a = "ENOSYS"]
  /\ UNCHANGED <<flags, dead, exchange, dImpl>>

(* fuse_vnop_exchange.  Without FUSE4X_ENABLE_EXCHANGE it returns        *)
(* ENOTSUP.  Otherwise the checks in the code's order: EXDEV, ENOTSUP    *)
(* without the bit or on a NO_VNCACHE vnode, EINVAL, ENXIO on a dead     *)
(* session, EIO or EINVAL on the names; then fuse_internal_exchange.     *)
VnopExchange(t) ==
  LET r == [Idle EXCEPT !.op = "EXCHANGE"]
      Ret(v) == th' = [th EXCEPT ![t] = [r EXCEPT !.ret = v]]
  IN
  /\ th[t].pc = "idle"
  /\ \/ ~exchange /\ Ret("ENOTSUP")
     \/ exchange /\ Ret("EXDEV")
     \/ exchange /\ "EXCHANGE" \notin impl /\ Ret("ENOTSUP")
     \/ exchange /\ "EXCHANGE" \in impl /\ \E v \in {"ENOTSUP", "EINVAL"} : Ret(v)
     \/ exchange /\ "EXCHANGE" \in impl /\ dead /\ Ret("ENXIO")
     \/ exchange /\ "EXCHANGE" \in impl /\ ~dead /\ \E v \in {"EIO", "EINVAL"} : Ret(v)
     \/ exchange /\ "EXCHANGE" \in impl /\ ~dead /\ Start(t, "EXCHANGE", r)
  /\ UNCHANGED <<impl, flags, dead, exchange, dImpl>>

(* The EXCHANGE answer: ENOSYS clears the bit and gives ENOTSUP. *)
ExchangeReply(t) ==
  /\ th[t].pc = "wait" /\ th[t].op = "EXCHANGE"
  /\ \E a \in Answers("EXCHANGE") :
       /\ ClearIf("EXCHANGE", a)
       /\ th' = [th EXCEPT ![t].pc = "idle", ![t].enosys = (a = "ENOSYS"),
                           ![t].ret = IF a = "ENOSYS" THEN "ENOTSUP" ELSE a]
  /\ UNCHANGED <<flags, dead, exchange, dImpl>>

(* An open of a vnode with FOPEN_DIRECT_IO or FN_DIRECT_IO turns          *)
(* NOSYNCWRITES off for the whole mount (fuse_clearnosyncwrites_mp).      *)
OpenDirectIO ==
  /\ ~dead /\ flags' = flags \ {"NOSYNCWRITES"}
  /\ UNCHANGED <<impl, dead, exchange, th, dImpl>>

(* The daemon dies or the device is closed: the session is marked dead. *)
Die ==
  /\ CanDie /\ ~dead /\ dead' = TRUE
  /\ UNCHANGED <<impl, flags, exchange, th, dImpl>>

-----------------------------------------------------------------------------
Init ==
  /\ impl = CapOps /\ flags \in MountFlagSets /\ dead = FALSE
  /\ exchange \in ExchangeBuilds
  /\ th = [t \in Threads |-> Idle]
  /\ dImpl \in DaemonImpls

ThreadStep(t) ==
  \/ VnopListxattr(t)
  \/ \E name \in Names : VnopGetxattr(t, name) \/ VnopRemovexattr(t, name)
  \/ \E name \in Names : VnopSetxattr(t, name)
  \/ \E cmd \in IoctlCmds, v \in BOOLEAN : VnopIoctl(t, cmd, v)
  \/ \E n \in 0..MaxSlots : VnopFsync(t, n)
  \/ VnopExchange(t)
  \/ GetxattrReply(t) \/ ListxattrReply(t) \/ RemovexattrReply(t)
  \/ SetxattrReply(t) \/ IoctlReply(t) \/ FsyncReply(t)
  \/ ExchangeReply(t)

Next == (\E t \in Threads : ThreadStep(t)) \/ OpenDirectIO \/ Die

Spec == Init /\ [][Next]_vars
-----------------------------------------------------------------------------
RetVals == {"none", "OK", "ENXIO", "EINVAL", "EPERM", "ENOTSUP", "ENOSYS",
            "EIO", "ERANGE", "E2BIG", "EFAULT", "EXDEV", "ENOTCONN"}

(* Type invariant. *)
TypeOK ==
  /\ impl \subseteq CapOps /\ flags \subseteq MountFlags
  /\ dead \in BOOLEAN /\ exchange \in BOOLEAN /\ dImpl \subseteq CapOps
  /\ th \in [Threads -> [pc : Pcs, op : CapOps \cup {"none"}, ret : RetVals,
                         enosys : BOOLEAN, iov : {0} \cup IovCounts,
                         cnt : 0..Max(IovCounts), moved : BOOLEAN,
                         cmd : IoctlCmds, data : BOOLEAN, left : 0..MaxSlots,
                         err : RetVals]]

(* A capability bit is cleared only for a request the daemon does not    *)
(* implement (spec 4.1: cleared on "function not implemented" only):     *)
(* no answer of a daemon that serves a request, such as a "not           *)
(* supported" for one attribute, makes every later vnop of that kind     *)
(* fail without asking it, for the rest of the session.                   *)
CapClearedOnlyIfUnimplemented == dImpl \subseteq impl

(* ENOSYS never reaches the VFS (spec 7): every vnop that gets it from    *)
(* the daemon, or finds the bit cleared by an earlier ENOSYS, returns     *)
(* "not supported" or falls back.                                          *)
NoEnosysToVfs == \A t \in Threads : th[t].ret # "ENOSYS"

(* A setxattr that returns ENOTSUP hands the caller its uio back as it    *)
(* was given, every iovec and no data consumed (spec 4.6 xattr: "set      *)
(* preserves and restores the iov descriptor across the not-supported     *)
(* fallback so the caller can retry via host").                           *)
UioRestoredForRetry ==
  \A t \in Threads :
    (th[t].pc = "idle" /\ th[t].op = "SETXATTR" /\ th[t].ret = "ENOTSUP")
      => th[t].cnt = th[t].iov /\ ~th[t].moved

(* The xattr vnops, ioctl and exchange answered ENOSYS return "not        *)
(* supported" (spec 4.1), so the VFS falls back to its own handling.      *)
EnosysMeansNotSupported ==
  \A t \in Threads :
    (th[t].pc = "idle" /\ th[t].enosys /\ th[t].op \in CapOps \ {"FSYNC"})
      => th[t].ret = "ENOTSUP"

(* An ioctl writes the caller's a_data buffer only for a command with    *)
(* IOC_OUT (spec 4.6 ioctl: output "when IOC_OUT").                      *)
IoctlOutOnlyWhenIocOut ==
  \A t \in Threads : (th[t].op = "IOCTL" /\ th[t].data) => (th[t].cmd & IOC_OUT) # 0
====
