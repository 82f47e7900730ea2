----------------------------- MODULE FuseHandles -----------------------------
(***************************************************************************)
(* One vnode of a fuse4x mount as the vnode-operations layer sees it       *)
(* (src/fuse_vnops.c, src/fuse_file.h): its three file-handle slots        *)
(* fufh[], its lookup count nlookup and FN_DIRECT_IO flag, the open files  *)
(* the host processes hold on it, and the user-space daemon that issues    *)
(* file handles and lookup references.                                     *)
(*                                                                         *)
(* The session lock compiles away (FUSE4X_ENABLE_BIGLOCK is not defined); *)
(* as spec 5 states, vnops interleave only where a thread waits for the    *)
(* daemon's answer (wait_answer).  A vnop is                               *)
(* therefore one action per stretch of code between two waits: the action  *)
(* that sends a request ends in a "..._wait" program counter, and the      *)
(* action that takes the answer runs the code up to the next wait or the   *)
(* return.  Other threads' actions interleave at the waits only.           *)
(***************************************************************************)
EXTENDS Naturals, FiniteSets

CONSTANTS
  Threads,      \* host threads issuing vnops
  Fds,          \* open-file objects (struct fileproc) that refer to the vnode
  NoFd,         \* model value: the fd of a thread that is in no syscall
  FdModes,      \* [Fds -> SUBSET SUBSET FFlags]: modes each fd may be opened with
  CreatFds,     \* fds whose open(2) may carry O_CREAT
  MaxFh,        \* number of file handles the daemon issues in one behaviour
  MaxLookups,   \* bound on the lookup references the daemon has outstanding
  MaxChunks,    \* largest direct I/O request, in chunks of the session iosize
  DaemonImpls,  \* possible sets of optional requests the daemon implements
  DioReplies,   \* values of FOPEN_DIRECT_IO the daemon may put in an open reply
  BadEntry,     \* may the daemon answer CREATE/MKNOD with an entry of another type?
  VgetFails,    \* may instantiating the vnode after an entry reply fail?
  ShortWrites,  \* may the daemon answer a WRITE with fewer bytes than sent?
  CanDie        \* may the daemon die, marking the session dead?

FFlags      == {"FREAD", "FWRITE"}
OptionalOps == {"CREATE", "FLUSH"}

ASSUME /\ Threads # {} /\ Fds # {} /\ NoFd \notin Fds
       /\ FdModes \in [Fds -> SUBSET SUBSET FFlags]
       /\ CreatFds \subseteq Fds
       /\ MaxFh \in Nat /\ MaxLookups \in Nat /\ MaxChunks \in Nat \ {0}
       /\ DaemonImpls \subseteq SUBSET OptionalOps /\ DaemonImpls # {}
       /\ DioReplies \subseteq BOOLEAN /\ DioReplies # {}
       /\ {BadEntry, VgetFails, ShortWrites, CanDie} \subseteq BOOLEAN

(* fufh_type_t (fuse_file.h): the access class a slot serves. *)
Classes == {"RDONLY", "WRONLY", "RDWR"}

(* fuse_filehandle_xlate_from_fflags: open flags to slot type; a zero mode *)
(* is taken as a read.                                                     *)
XlateFromFflags(m) ==
  IF m = FFlags THEN "RDWR" ELSE IF "FWRITE" \in m THEN "WRONLY" ELSE "RDONLY"

VARIABLES
  fufh,      \* [Classes -> [id, count, dio]]: fh_id, open_count, FOPEN_DIRECT_IO
  alive,     \* the vnode and its fuse_vnode_data exist
  nlookup,   \* fvdat->nlookup
  directio,  \* FN_DIRECT_IO in fvdat->flag
  impl,      \* capability bits of the session still set (fuse_implemented)
  dead,      \* fuse_isdeadfs
  mapped,    \* the VM holds a mapping of the vnode (between mmap and munmap)
  isOpen,    \* open files on the vnode
  fmode,     \* [Fds -> SUBSET FFlags]: the mode each open file was opened with
  th,        \* [Threads -> record]: where each thread is in its vnop
  dImpl,     \* optional requests the daemon implements
  dExists,   \* the daemon has a file under the looked-up name
  dOpen,     \* file handles the daemon holds open (OPEN/CREATE minus RELEASE)
  dLookup,   \* lookup references the daemon counts for the node
  dDio,      \* handles the daemon opened with FOPEN_DIRECT_IO
  nextFh     \* the next file handle the daemon will issue

node   == <<fufh, alive, nlookup, directio>>
sess   == <<impl, dead>>
env    == <<mapped, isOpen, fmode>>
daemon == <<dImpl, dExists, dOpen, dLookup, dDio, nextFh>>
vars   == <<node, sess, env, th, daemon>>

FreshSlot == [id |-> 0, count |-> 0, dio |-> FALSE]

(* The per-thread record: program counter, the fd of the syscall, its     *)
(* mode, O_CREAT, the slot type it uses, chunks left of a direct I/O, the *)
(* handle named by the request it waits on, and the parity of that        *)
(* request (each chunk goes out on a new ticket, even when it resends     *)
(* the same bytes).                                                       *)
Idle == [pc |-> "idle", fd |-> NoFd, mode |-> {}, creat |-> FALSE,
         cls |-> "RDONLY", resid |-> 0, fh |-> 0, tick |-> FALSE]

Pcs == {"idle", "lookup_wait", "create", "create_wait", "mknod_wait", "open",
        "open_wait", "close_wait", "read_wait", "write_wait"}

(* Program counters at which a thread holds an iocount on the vnode. *)
HoldPcs == {"open", "open_wait", "close_wait", "read_wait", "write_wait"}

(* FUFH_IS_VALID *)
Valid(c) == fufh[c].count > 0

ValidIds == {fufh[c].id : c \in {c2 \in Classes : Valid(c2)}}

(* The daemon answers with an entry only below the lookup bound; past it *)
(* it answers with an error, which every reply action allows.            *)
EntryAllowed == dLookup < MaxLookups

FdFree(f) == \A t \in Threads : th[t].fd # f

Goto(t, p) == th' = [th EXCEPT ![t].pc = p]
Return(t)  == th' = [th EXCEPT ![t] = Idle]

-----------------------------------------------------------------------------
(* Mutant: an existing vnode does not count the new lookup reference. *)
VgetNodeNoInc ==
  /\ alive' = TRUE
  /\ nlookup' = IF alive THEN nlookup ELSE 1
  /\ directio' = (alive /\ directio)

(* FSNodeGetOrCreateFileVNodeByID / fuse_vget_i after an entry reply: the  *)
(* existing vnode gains a lookup reference, or a fresh one is made.        *)
VgetNode ==
  /\ alive' = TRUE
  /\ nlookup' = (IF alive THEN nlookup ELSE 0) + 1
  /\ directio' = (alive /\ directio)

(* The slots of the vnode VgetNode yields. *)
BaseSlots == IF alive THEN fufh ELSE [c \in Classes |-> FreshSlot]

(* Mutant: the slot is decremented twice on one close. *)
DecPutTwice(c) ==
  LET n == fufh[c].count - 2 IN
  /\ fufh' = [fufh EXCEPT ![c].count = n]
  /\ dOpen' = IF n > 0 THEN dOpen ELSE dOpen \ {fufh[c].id}

(* FUFH_USE_DEC, then fuse_filehandle_put (RELEASE) if the slot is no    *)
(* longer valid.                                                         *)
DecPut(c) ==
  LET n == fufh[c].count - 1 IN
  /\ fufh' = [fufh EXCEPT ![c].count = n]
  /\ dOpen' = IF n > 0 THEN dOpen ELSE dOpen \ {fufh[c].id}

(* The "ok:" tail of fuse_vnop_open: a direct_io handle or vnode turns   *)
(* FN_DIRECT_IO on; the VFS then records the open file.                  *)
OpenOk(t, slotDio) ==
  /\ directio' = (slotDio \/ directio)
  /\ isOpen' = isOpen \cup {th[t].fd}
  /\ fmode' = [fmode EXCEPT ![th[t].fd] = th[t].mode]
  /\ Return(t)
  /\ UNCHANGED mapped

(* The VFS drops open file f once its close returns, whatever the result. *)
CloseFd(f) ==
  /\ isOpen' = isOpen \ {f}
  /\ fmode' = [fmode EXCEPT ![f] = {}]

-----------------------------------------------------------------------------
(* open(2) of fd f with mode m resolves the name: fuse_vnop_lookup. On a  *)
(* live vnode the name cache may answer; otherwise LOOKUP is sent.  On a  *)
(* dead session lookup returns ENXIO without a state change.              *)
VnopLookup(t, f) ==
  /\ th[t].pc = "idle" /\ f \notin isOpen /\ FdFree(f) /\ ~dead
  /\ \E m \in FdModes[f], cr \in IF f \in CreatFds THEN BOOLEAN ELSE {FALSE} :
       LET r == [Idle EXCEPT !.fd = f, !.mode = m, !.creat = cr,
                             !.cls = XlateFromFflags(m)]
       IN  \/ alive /\ th' = [th EXCEPT ![t] = [r EXCEPT !.pc = "open"]]
           \/ th' = [th EXCEPT ![t] = [r EXCEPT !.pc = "lookup_wait"]]
  /\ UNCHANGED <<node, sess, env, daemon>>

(* The LOOKUP answer.  An error ends the lookup.  No entry gives          *)
(* EJUSTRETURN to an O_CREAT open, which goes on to VNOP_CREATE, and      *)
(* ENOENT otherwise.  An entry is a lookup reference; if no vnode can be  *)
(* made for it the reference is sent back with FORGET(1).                 *)
LookupReply(t) ==
  /\ th[t].pc = "lookup_wait"
  /\ \/ /\ Return(t)
        /\ UNCHANGED <<node, daemon>>
     \/ /\ ~dead /\ ~dExists
        /\ IF th[t].creat THEN Goto(t, "create") ELSE Return(t)
        /\ UNCHANGED <<node, daemon>>
     \/ /\ ~dead /\ dExists /\ VgetFails /\ EntryAllowed
        /\ Return(t)
        /\ UNCHANGED <<node, daemon>>
     \/ /\ ~dead /\ dExists /\ EntryAllowed
        /\ dLookup' = dLookup + 1
        /\ VgetNode /\ fufh' = BaseSlots
        /\ Goto(t, "open")
        /\ UNCHANGED <<dImpl, dExists, dOpen, dDio, nextFh>>
  /\ UNCHANGED <<sess, env>>

(* fuse_vnop_create: CREATE if the capability bit is set, else MKNOD.    *)
VnopCreate(t) ==
  /\ th[t].pc = "create"
  /\ \/ dead /\ Return(t)
     \/ ~dead /\ "CREATE" \in impl /\ Goto(t, "create_wait")
     \/ ~dead /\ "CREATE" \notin impl /\ Goto(t, "mknod_wait")
  /\ UNCHANGED <<node, sess, env, daemon>>

(* The CREATE answer.  ENOSYS clears the capability bit and falls back to *)
(* MKNOD.  A created (or, O_CREAT without O_EXCL, opened) file carries a  *)
(* lookup reference and an open handle.  fuse_internal_checkentry may     *)
(* refuse the entry: the ticket is dropped and the error returned.  If    *)
(* the vnode cannot be made, RELEASE goes out with the forget callback.   *)
(* Otherwise the handle is stashed in the RDWR slot with open_count 1 for *)
(* the open that follows; the open reply flags are stored in open_flags,  *)
(* so the slot's fuse_open_flags keep their previous value.               *)
CreateReply(t) ==
  /\ th[t].pc = "create_wait"
  /\ \/ /\ Return(t)
        /\ UNCHANGED <<node, impl, daemon>>
     \/ /\ ~dead /\ "CREATE" \notin dImpl
        /\ impl' = impl \ {"CREATE"}
        /\ Goto(t, "mknod_wait")
        /\ UNCHANGED <<node, daemon>>
     \/ /\ ~dead /\ "CREATE" \in dImpl /\ nextFh <= MaxFh
        /\ EntryAllowed
        /\ \E dio \in DioReplies :
             /\ dExists' = TRUE
             /\ nextFh' = nextFh + 1
             /\ dDio' = IF dio THEN dDio \cup {nextFh} ELSE dDio
        /\ \/ /\ BadEntry
              /\ dOpen' = dOpen \cup {nextFh} /\ dLookup' = dLookup + 1
              /\ Return(t)
              /\ UNCHANGED node
           \/ /\ VgetFails
              /\ Return(t)
              /\ UNCHANGED <<node, dOpen, dLookup>>
           \/ /\ dOpen' = dOpen \cup {nextFh} /\ dLookup' = dLookup + 1
              /\ VgetNode
              /\ fufh' = [BaseSlots EXCEPT !["RDWR"] =
                            [id |-> nextFh, count |-> 1,
                             dio |-> BaseSlots["RDWR"].dio]]
              /\ Goto(t, "open")
        /\ UNCHANGED <<impl, dImpl>>
  /\ UNCHANGED <<dead, env>>

(* The MKNOD answer (create's fallback): EEXIST or another error ends    *)
(* the create; an entry is a lookup reference, checked and instantiated  *)
(* as for CREATE, with FORGET(1) if the vnode cannot be made.            *)
MknodReply(t) ==
  /\ th[t].pc = "mknod_wait"
  /\ \/ /\ Return(t)
        /\ UNCHANGED <<node, daemon>>
     \/ /\ ~dead /\ ~dExists /\ EntryAllowed
        /\ dExists' = TRUE
        /\ \/ /\ BadEntry
              /\ dLookup' = dLookup + 1
              /\ Return(t)
              /\ UNCHANGED node
           \/ /\ VgetFails
              /\ Return(t)
              /\ UNCHANGED <<node, dLookup>>
           \/ /\ dLookup' = dLookup + 1
              /\ VgetNode /\ fufh' = BaseSlots
              /\ Goto(t, "open")
        /\ UNCHANGED <<dImpl, dOpen, dDio, nextFh>>
  /\ UNCHANGED <<sess, env>>

(* Mutant: a reused slot is not incremented. *)
VnopOpenNoInc(t) ==
  LET c == th[t].cls IN
  /\ th[t].pc = "open"
  /\ \/ /\ dead /\ Return(t)
        /\ UNCHANGED <<node, env>>
     \/ /\ ~dead /\ Valid(c)
        /\ OpenOk(t, fufh[c].dio)
        /\ UNCHANGED <<fufh, alive, nlookup>>
     \/ /\ ~dead /\ ~Valid(c)
        /\ Goto(t, "open_wait")
        /\ UNCHANGED <<node, env>>
  /\ UNCHANGED <<sess, daemon>>

(* fuse_vnop_open: ENXIO on a dead session; a valid slot of the open's   *)
(* type is reused (FUFH_USE_INC); otherwise fuse_filehandle_get sends    *)
(* OPEN and waits.                                                       *)
VnopOpen(t) ==
  LET c == th[t].cls IN
  /\ th[t].pc = "open"
  /\ \/ /\ dead /\ Return(t)
        /\ UNCHANGED <<node, env>>
     \/ /\ ~dead /\ Valid(c)
        /\ fufh' = [fufh EXCEPT ![c].count = @ + 1]
        /\ OpenOk(t, fufh[c].dio)
        /\ UNCHANGED <<alive, nlookup>>
     \/ /\ ~dead /\ ~Valid(c)
        /\ Goto(t, "open_wait")
        /\ UNCHANGED <<node, env>>
  /\ UNCHANGED <<sess, daemon>>

(* The OPEN answer, taken by fuse_filehandle_get: an error leaves the     *)
(* slot invalid and fails the open; a handle is installed with           *)
(* open_count 1 and its FOPEN_ flags, whatever the slot holds by now.    *)
OpenReply(t) ==
  LET c == th[t].cls IN
  /\ th[t].pc = "open_wait"
  /\ \/ /\ Return(t)
        /\ UNCHANGED <<node, env, daemon>>
     \/ /\ ~dead /\ nextFh <= MaxFh
        /\ \E dio \in DioReplies :
             /\ fufh' = [fufh EXCEPT ![c] = [id |-> nextFh, count |-> 1, dio |-> dio]]
             /\ dDio' = IF dio THEN dDio \cup {nextFh} ELSE dDio
             /\ OpenOk(t, dio)
        /\ dOpen' = dOpen \cup {nextFh}
        /\ nextFh' = nextFh + 1
        /\ UNCHANGED <<alive, nlookup, dImpl, dExists, dLookup>>
  /\ UNCHANGED sess

(* Mutant: the slot is decremented and put before FLUSH is sent. *)
VnopCloseDecFirst(t, f) ==
  LET c == XlateFromFflags(fmode[f]) IN
  /\ th[t].pc = "idle" /\ f \in isOpen /\ FdFree(f)
  /\ \/ /\ dead \/ ~Valid(c)
        /\ CloseFd(f)
        /\ UNCHANGED <<fufh, th, impl, daemon>>
     \/ /\ ~dead /\ Valid(c) /\ "FLUSH" \in impl
        /\ DecPut(c)
        /\ th' = [th EXCEPT ![t] = [Idle EXCEPT !.pc = "close_wait", !.fd = f,
                                      !.cls = c, !.fh = fufh[c].id]]
        /\ UNCHANGED <<isOpen, fmode, impl, dImpl, dExists, dLookup, dDio, nextFh>>
     \/ /\ ~dead /\ Valid(c) /\ "FLUSH" \notin impl
        /\ DecPut(c)
        /\ CloseFd(f)
        /\ UNCHANGED <<th, impl, dImpl, dExists, dLookup, dDio, nextFh>>
  /\ UNCHANGED <<alive, nlookup, directio, dead, mapped>>

(* fuse_vnop_close on the last close of fd f.  A dead session or an       *)
(* invalid slot returns 0 at once.  FLUSH is sent if the capability bit   *)
(* is set; without it the slot is decremented and put at once.            *)
VnopClose(t, f) ==
  LET c == XlateFromFflags(fmode[f]) IN
  /\ th[t].pc = "idle" /\ f \in isOpen /\ FdFree(f)
  /\ \/ /\ dead \/ ~Valid(c)
        /\ CloseFd(f)
        /\ UNCHANGED <<fufh, th, impl, daemon>>
     \/ /\ ~dead /\ Valid(c) /\ "FLUSH" \in impl
        /\ th' = [th EXCEPT ![t] = [Idle EXCEPT !.pc = "close_wait", !.fd = f,
                                      !.cls = c, !.fh = fufh[c].id]]
        /\ UNCHANGED <<fufh, isOpen, fmode, impl, daemon>>
     \/ /\ ~dead /\ Valid(c) /\ "FLUSH" \notin impl
        /\ DecPut(c)
        /\ CloseFd(f)
        /\ UNCHANGED <<th, impl, dImpl, dExists, dLookup, dDio, nextFh>>
  /\ UNCHANGED <<alive, nlookup, directio, dead, mapped>>

(* The FLUSH answer: ENOSYS clears the capability bit, any other error is *)
(* returned; in every case the slot the close checked before the wait is  *)
(* decremented now and put if it is no longer valid.                      *)
CloseReply(t) ==
  /\ th[t].pc = "close_wait"
  /\ impl' = IF ~dead /\ "FLUSH" \notin dImpl THEN impl \ {"FLUSH"} ELSE impl
  /\ DecPut(th[t].cls)
  /\ CloseFd(th[t].fd)
  /\ Return(t)
  /\ UNCHANGED <<alive, nlookup, directio, dead, mapped,
                 dImpl, dExists, dLookup, dDio, nextFh>>

(* The slot fuse_vnop_read (resp. _write) uses for direct I/O: RDONLY     *)
(* (WRONLY) if valid, else RDWR; with neither valid the call fails EIO.   *)
ReadSlot  == IF Valid("RDONLY") THEN "RDONLY" ELSE "RDWR"
WriteSlot == IF Valid("WRONLY") THEN "WRONLY" ELSE "RDWR"

(* Direct I/O read(2) or write(2) of n chunks on open fd f: the first     *)
(* READ/WRITE goes out with the chosen slot's fh_id.  (Page-cache I/O of  *)
(* a vnode without FN_DIRECT_IO goes to cluster_read/write, not modelled; *)
(* ENXIO, EIO and a zero resid return without a state change.)            *)
DirectIO(t, f, need, slot, waitPc) ==
  /\ th[t].pc = "idle" /\ f \in isOpen /\ FdFree(f) /\ need \in fmode[f]
  /\ ~dead /\ directio /\ Valid(slot)
  /\ \E n \in 1..MaxChunks :
       th' = [th EXCEPT ![t] = [Idle EXCEPT !.pc = waitPc, !.fd = f,
                                  !.cls = slot, !.resid = n, !.fh = fufh[slot].id]]
  /\ UNCHANGED <<node, sess, env, daemon>>

VnopRead(t, f)  == DirectIO(t, f, "FREAD", ReadSlot, "read_wait")
VnopWrite(t, f) == DirectIO(t, f, "FWRITE", WriteSlot, "write_wait")

(* Mutant: the uio is not advanced past the chunk just answered. *)
NextChunkNoAdvance(t, left) ==
  th' = [th EXCEPT ![t].resid = th[t].resid, ![t].fh = fufh[th[t].cls].id,
                   ![t].tick = ~@]

(* Send the next chunk: the loop re-reads fufh->fh_id from the slot it    *)
(* chose before the first wait, without checking the slot is still valid.*)
NextChunk(t, left) ==
  th' = [th EXCEPT ![t].resid = left, ![t].fh = fufh[th[t].cls].id,
                   ![t].tick = ~@]

(* A READ answer: an error, a short read or the last chunk ends the loop; *)
(* a full chunk with more to read sends the next READ.                    *)
ReadReply(t) ==
  /\ th[t].pc = "read_wait"
  /\ \/ Return(t)
     \/ ~dead /\ th[t].resid > 1 /\ NextChunk(t, th[t].resid - 1)
  /\ UNCHANGED <<node, sess, env, daemon>>

(* A WRITE answer: an error, a size larger than the chunk (EINVAL) or the *)
(* last chunk written ends the loop; a full chunk goes on to the next; a  *)
(* short write moves uio back by the unwritten part and sends it again.   *)
WriteReply(t) ==
  /\ th[t].pc = "write_wait"
  /\ \/ Return(t)
     \/ ~dead /\ th[t].resid > 1 /\ NextChunk(t, th[t].resid - 1)
     \/ ~dead /\ ShortWrites /\ NextChunk(t, th[t].resid)
  /\ UNCHANGED <<node, sess, env, daemon>>

(* fuse_vnop_mmap of open fd f.  ENXIO on a dead session and EPERM on a   *)
(* direct_io vnode; any of PROT_READ, PROT_WRITE, PROT_EXEC makes it      *)
(* return 0 before a handle is looked at, so the mapping is made with no  *)
(* handle taken.  (With no protection bit, xlate_from_mmap panics.)       *)
VnopMmap(t, f) ==
  /\ th[t].pc = "idle" /\ f \in isOpen /\ FdFree(f)
  /\ ~dead /\ ~directio /\ ~mapped
  /\ mapped' = TRUE
  /\ UNCHANGED <<node, sess, isOpen, fmode, th, daemon>>

(* munmap: fuse_vnop_mnomap does nothing; the VM drops its mapping.       *)
Munmap ==
  /\ mapped /\ mapped' = FALSE
  /\ UNCHANGED <<node, sess, isOpen, fmode, th, daemon>>

(* The VFS calls inactive and reclaim only on a vnode nobody uses.        *)
Unused == isOpen = {} /\ ~mapped /\ \A t \in Threads : th[t].pc \notin HoldPcs

(* Mutant: the reset loop stops one slot short and skips RDWR. *)
ResetPutAllSkipRdwr ==
  LET S == {c \in Classes \ {"RDWR"} : Valid(c)} IN
  /\ fufh' = [c \in Classes |-> IF c \in S THEN [fufh[c] EXCEPT !.count = 0]
                                          ELSE fufh[c]]
  /\ dOpen' = dOpen \ {fufh[c].id : c \in S}

(* FUFH_USE_RESET then fuse_filehandle_put on every valid slot.           *)
ResetPutAll ==
  /\ fufh' = [c \in Classes |-> IF Valid(c) THEN [fufh[c] EXCEPT !.count = 0]
                                            ELSE fufh[c]]
  /\ dOpen' = dOpen \ ValidIds

(* fuse_vnop_inactive: drain the slots; no early return on a dead mount.  *)
VnopInactive ==
  /\ alive /\ Unused /\ ValidIds # {}
  /\ ResetPutAll
  /\ UNCHANGED <<alive, nlookup, directio, sess, env, th,
                 dImpl, dExists, dLookup, dDio, nextFh>>

(* Mutant: reclaim sends FORGET but does not drain the slots. *)
VnopReclaimNoPut ==
  /\ alive /\ Unused
  /\ \/ /\ dead
        /\ UNCHANGED dLookup
     \/ /\ ~dead
        /\ dLookup' = dLookup - nlookup
  /\ fufh' = [c \in Classes |-> FreshSlot]
  /\ alive' = FALSE /\ nlookup' = 0 /\ directio' = FALSE
  /\ UNCHANGED <<sess, env, th, dImpl, dExists, dOpen, dDio, nextFh>>

(* fuse_vnop_reclaim: unless the session is dead, drain the slots and     *)
(* FORGET(nlookup); then leave the registry and destroy fvdat.            *)
VnopReclaim ==
  /\ alive /\ Unused
  /\ \/ /\ dead
        /\ UNCHANGED <<dOpen, dLookup>>
     \/ /\ ~dead
        /\ dOpen' = dOpen \ ValidIds
        /\ dLookup' = dLookup - nlookup
  /\ fufh' = [c \in Classes |-> FreshSlot]
  /\ alive' = FALSE /\ nlookup' = 0 /\ directio' = FALSE
  /\ UNCHANGED <<sess, env, th, dImpl, dExists, dDio, nextFh>>

(* The daemon dies or the device is closed: the session is marked dead.   *)
Die ==
  /\ CanDie /\ ~dead /\ dead' = TRUE
  /\ UNCHANGED <<node, impl, env, th, daemon>>

(* A dead session with nothing left to reclaim is where the mount stops.  *)
Stopped ==
  /\ dead /\ ~alive /\ \A t \in Threads : th[t].pc = "idle"
  /\ UNCHANGED vars

-----------------------------------------------------------------------------
Init ==
  /\ fufh = [c \in Classes |-> FreshSlot]
  /\ alive = FALSE /\ nlookup = 0 /\ directio = FALSE
  /\ impl = OptionalOps /\ dead = FALSE
  /\ mapped = FALSE /\ isOpen = {} /\ fmode = [f \in Fds |-> {}]
  /\ th = [t \in Threads |-> Idle]
  /\ dImpl \in DaemonImpls /\ dExists \in BOOLEAN
  /\ dOpen = {} /\ dLookup = 0 /\ dDio = {} /\ nextFh = 1

ThreadStep(t) ==
  \/ \E f \in Fds : VnopLookup(t, f) \/ VnopClose(t, f) \/ VnopRead(t, f)
                    \/ VnopWrite(t, f) \/ VnopMmap(t, f)
  \/ LookupReply(t) \/ VnopCreate(t) \/ CreateReply(t) \/ MknodReply(t)
  \/ VnopOpen(t) \/ OpenReply(t) \/ CloseReply(t) \/ ReadReply(t)
  \/ WriteReply(t)

Next ==
  \/ \E t \in Threads : ThreadStep(t)
  \/ Munmap \/ VnopInactive \/ VnopReclaim \/ Die \/ Stopped

Spec == Init /\ [][Next]_vars

(* The steps a thread takes without a new call from its process: the     *)
(* daemon's answer to each request it waits on, and the kernel code that  *)
(* runs from lookup into create and open.  A live daemon answers every    *)
(* request and a dead session fails every wait at once, so each of these  *)
(* is weakly fair.  New syscalls, munmap, inactive, reclaim and the       *)
(* daemon's death are not.                                                *)
Continue(t) ==
  \/ LookupReply(t) \/ VnopCreate(t) \/ CreateReply(t) \/ MknodReply(t)
  \/ VnopOpen(t) \/ OpenReply(t) \/ CloseReply(t) \/ ReadReply(t)
  \/ WriteReply(t)

FairSpec == Spec /\ \A t \in Threads : WF_vars(Continue(t))

-----------------------------------------------------------------------------
(* Type invariant.                                                         *)
TypeOK ==
  /\ fufh \in [Classes -> [id : 0..MaxFh, count : 0..Cardinality(Fds) + 1,
                           dio : BOOLEAN]]
  /\ alive \in BOOLEAN /\ nlookup \in 0..MaxLookups /\ directio \in BOOLEAN
  /\ impl \subseteq OptionalOps /\ dead \in BOOLEAN /\ mapped \in BOOLEAN
  /\ isOpen \subseteq Fds /\ fmode \in [Fds -> SUBSET FFlags]
  /\ th \in [Threads -> [pc : Pcs, fd : Fds \cup {NoFd}, mode : SUBSET FFlags,
                         creat : BOOLEAN, cls : Classes, resid : 0..MaxChunks,
                         fh : 0..MaxFh, tick : BOOLEAN]]
  /\ dImpl \subseteq OptionalOps /\ dExists \in BOOLEAN
  /\ dOpen \subseteq 1..MaxFh /\ dLookup \in 0..MaxLookups /\ dDio \subseteq 1..MaxFh
  /\ nextFh \in 1..MaxFh + 1

(* No handle leaks (spec 8.2): while the session lives, the handles the   *)
(* daemon holds open are exactly the fh_ids of the valid slots.  Every    *)
(* OPEN or CREATE that succeeded is either in a slot that close,          *)
(* inactive or reclaim will RELEASE, or has been released; none is        *)
(* overwritten by a later install and none is released twice.            *)
HandleAccounting == ~dead => dOpen = ValidIds

(* No lookup reference leaks (spec 8.3): while the session lives, the     *)
(* daemon's lookup count for the node is the vnode's nlookup (0 once the  *)
(* vnode is reclaimed), so reclaim's FORGET(nlookup) gives back every     *)
(* LOOKUP, CREATE and MKNOD entry the kernel received.                    *)
LookupAccounting == ~dead => dLookup = nlookup

(* Each open file of type c is counted in fufh[c].open_count (spec 3):    *)
(* the count never drops below the number of open files of its type, so  *)
(* no close, inactive or overwrite releases a handle an open file still   *)
(* relies on.                                                             *)
SlotCountCoversFds ==
  \A c \in Classes :
    fufh[c].count >= Cardinality({f \in isOpen : XlateFromFflags(fmode[f]) = c})

(* Program counters of a thread waiting on a request that names a handle. *)
HandleWaitPcs == {"read_wait", "write_wait", "close_wait"}

(* Every READ, WRITE or FLUSH the kernel sends names a handle the daemon  *)
(* still holds open: the slot a read or write loop chose before its first *)
(* wait may have been released by another thread's close while it slept,  *)
(* and the fh_id it re-reads for the next chunk must not be a released   *)
(* one.  (A step that sends a request is one that leaves the thread in a  *)
(* wait with a new request record.)                                       *)
RequestsUseOpenHandles ==
  [][\A t \in Threads :
       (~dead' /\ th'[t].pc \in HandleWaitPcs /\ th'[t] # th[t])
          => th'[t].fh \in dOpen']_vars

(* A mapped vnode keeps a valid handle (spec 4.6: mmap acquires a handle; *)
(* mnomap defers cleanup to inactive/reclaim), so pagein and pageout      *)
(* after the file is closed still have a handle to the daemon.            *)
MappedHasHandle == (~dead /\ mapped) => ValidIds # {}

(* A file opened through a handle the daemon returned with               *)
(* FOPEN_DIRECT_IO is a direct_io vnode (spec 4.6 open): its reads and    *)
(* writes bypass the page cache.                                          *)
DirectIOHonoured ==
  \A f \in isOpen : fufh[XlateFromFflags(fmode[f])].id \in dDio => directio

(* Every vnop a thread enters returns (spec 4.6 read/write: a short WRITE *)
(* answer is an error).  The direct-I/O loops must end: each READ or      *)
(* WRITE answer either ends the loop or moves the uio forward.            *)
VnopsReturn == \A t \in Threads : th[t].pc # "idle" ~> th[t].pc = "idle"

(* The slot table as spec 4.2 describes it: the valid slots with their   *)
(* ids and counts, and the handles the daemon has issued.                 *)
Abstract == INSTANCE HandleSlot
  WITH Slots <- Classes, Handles <- 1..MaxFh,
       slot <- [c \in Classes |-> IF Valid(c)
                                  THEN [id |-> fufh[c].id, count |-> fufh[c].count]
                                  ELSE [id |-> 0, count |-> 0]],
       issued <- 1..(nextFh - 1)

(* The vnops implement the slot contract of spec 4.2: every step leaves   *)
(* the slots as one of get's install into an invalid slot with a fresh    *)
(* handle, open's reuse, close's dec and put, or the reset of all slots   *)
(* by inactive or reclaim; no step overwrites a valid slot, moves a count *)
(* by more than one or drains only part of the table.                     *)
HandleSlotRefined == Abstract!Spec
=============================================================================
