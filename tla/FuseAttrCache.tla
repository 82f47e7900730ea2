---------------------------- MODULE FuseAttrCache ----------------------------
(***************************************************************************)
(* The attribute cache and the kernel's size of one regular vnode in      *)
(* fuse4x (src/fuse_vnops.c): getattr, setattr, write through the page    *)
(* cache (cluster_write) and direct I/O, and open's DIRECT_IO, PURGE_UBC   *)
(* and PURGE_ATTR paths.  The node's state is fuse_vnode_data's attr_valid *)
(* deadline, the size in its cached attributes, filesize, FN_DIRECT_IO,    *)
(* and the dirty data of its page cache; the daemon holds the file's size. *)
(*                                                                         *)
(* A vnop is one action up to its blocking call (the dispatcher wait or    *)
(* cluster_write) and one action after it.  The daemon serves a request in *)
(* a step of its own, so its answer reflects the file when it was served   *)
(* and other threads may run between that step and the wake-up.  The      *)
(* VM's pageout of dirty pages and the passing of the attr_valid deadline  *)
(* are steps of the environment.                                           *)
(***************************************************************************)
EXTENDS Naturals

CONSTANTS
  Threads,       \* host threads issuing vnops on the vnode
  Writers,       \* the threads that may write
  MaxSize,       \* file sizes and offsets are 0..MaxSize
  MaxVer,        \* bound on the daemon's count of changes to the file
  DioModes,      \* is FN_DIRECT_IO set when the behaviour starts?
  ErrorReplies   \* may the daemon answer with an error?

ASSUME /\ Threads # {} /\ Writers \subseteq Threads
       /\ MaxSize \in Nat \ {0} /\ MaxVer \in Nat \ {0}
       /\ DioModes \subseteq BOOLEAN /\ DioModes # {}
       /\ ErrorReplies \in BOOLEAN

Sizes == 0 .. MaxSize

(* setattr's size argument when the vnode_attr asks for no size change   *)
(* (fuse_internal_attr_vat2fsai returns sizechanged = 0).                *)
NoSize == MaxSize + 1

VARIABLES
  attr_valid,  \* the attr_valid deadline is still in the future
  va_size,     \* the size in the cached attributes (VTOVA(vp))
  cacheVer,    \* the daemon's version of the file those attributes show
  filesize,    \* fvdat->filesize
  directio,    \* FN_DIRECT_IO in fvdat->flag
  dirty,       \* end of the dirty data in the page cache, 0 when clean
  dSize,       \* the daemon's size of the file
  dVer,        \* the daemon's count of changes to the file
  th,          \* [Threads -> record]: where each thread is in its vnop
  written,     \* history: end of the data writes put in the file or pages
  mutVer       \* history: dVer when the last mutating vnop returned

vars == <<attr_valid, va_size, cacheVer, filesize, directio, dirty, dSize,
          dVer, th, written, mutVer>>

(* The per-thread record: program counter, whether the daemon has served *)
(* its request and with what (kind, size, version), a write's offset,    *)
(* length, IO_UNIT flag and original_size, and setattr's new size.       *)
Idle == [pc |-> "idle", served |-> FALSE, kind |-> "ok", size |-> 0,
         ver |-> 0, off |-> 0, len |-> 0, unit |-> FALSE, orig |-> 0,
         new |-> NoSize]

Pcs == {"idle", "getattr_wait", "lookup_wait", "setattr_wait", "purge_wait",
        "dwrite_wait", "cluster"}
WaitPcs == Pcs \ {"idle", "cluster"}

(* The answers a request may get: "err" stands for every error reply,    *)
(* "mode0" for attributes with no S_IFMT bits, "retype" for attributes   *)
(* of another vnode type.                                                *)
Kinds(pc) ==
  LET errs == IF ErrorReplies THEN {"err"} ELSE {} IN
  CASE pc \in {"getattr_wait", "lookup_wait", "purge_wait"} ->
                                                {"ok", "mode0"} \cup errs
    [] pc = "setattr_wait"                   -> {"ok", "retype"} \cup errs
    [] pc = "dwrite_wait"                    -> {"ok"} \cup errs

MaxOf(a, b) == IF a >= b THEN a ELSE b
MinOf(a, b) == IF a <= b THEN a ELSE b

TypeOK ==
  /\ attr_valid \in BOOLEAN /\ directio \in BOOLEAN
  /\ va_size \in Sizes /\ filesize \in Sizes /\ dirty \in Sizes
  /\ dSize \in Sizes /\ written \in Sizes
  /\ cacheVer \in 0 .. MaxVer /\ dVer \in 0 .. MaxVer /\ mutVer \in 0 .. MaxVer
  /\ th \in [Threads -> [pc : Pcs, served : BOOLEAN,
                         kind : {"ok", "err", "mode0", "retype"},
                         size : Sizes, ver : 0 .. MaxVer, off : Sizes,
                         len : Sizes, unit : BOOLEAN, orig : Sizes,
                         new : Sizes \cup {NoSize}]]

(* fuse_invalidate_attr: the attr_valid deadline is set to the past. *)
Invalidate == attr_valid' = FALSE

(* cache_attrs from an answer served at daemon version v. *)
CacheAttrs(size, v) ==
  /\ attr_valid' = TRUE /\ va_size' = size /\ cacheVer' = v

(* ubc_setsize(vp, n): the pages beyond n are dropped. *)
UbcSetsize(n) == dirty' = MinOf(dirty, n)

(* ubc_msync(UBC_PUSHALL | UBC_INVALIDATE), and the VM's pageout: the     *)
(* dirty pages go to the daemon (cluster_pageout stops at filesize) and   *)
(* the page cache is clean.                                               *)
Push ==
  /\ dirty > 0 => dVer < MaxVer
  /\ IF dirty > 0
     THEN /\ dSize' = MaxOf(dSize, MinOf(dirty, filesize))
          /\ dVer' = dVer + 1 /\ dirty' = 0
     ELSE UNCHANGED <<dSize, dVer, dirty>>

Send(t, pc, r) == th' = [th EXCEPT ![t] = [r EXCEPT !.pc = pc]]
Done(t)        == th' = [th EXCEPT ![t] = Idle]

Init ==
  /\ attr_valid = FALSE /\ va_size = 0 /\ cacheVer = 0
  /\ filesize = 0 /\ directio \in DioModes /\ dirty = 0
  /\ dSize = 0 /\ dVer = 0
  /\ th = [t \in Threads |-> Idle]
  /\ written = 0 /\ mutVer = 0

(***************************************************************************)
(* getattr (fuse_vnop_getattr).  A fresh cache answers without a request  *)
(* and changes nothing; otherwise GETATTR is sent.                        *)
(***************************************************************************)
VnopGetattr(t) ==
  /\ th[t].pc = "idle" /\ ~attr_valid
  /\ Send(t, "getattr_wait", Idle)
  /\ UNCHANGED <<attr_valid, va_size, cacheVer, filesize, directio, dirty,
                 dSize, dVer, written, mutVer>>

(* An error answer is returned (ENOENT purges the name cache), attributes *)
(* with no S_IFMT bits give EIO; otherwise they are cached, and a direct- *)
(* I/O vnode takes filesize from them (ATTR_FUDGE_CASE).  A changed vnode *)
(* type purges the name cache and gives EIO after the attributes are      *)
(* cached.                                                                *)
GetattrReply(t) ==
  /\ th[t].pc = "getattr_wait" /\ th[t].served
  /\ \/ /\ th[t].kind \in {"err", "mode0"}
        /\ UNCHANGED <<attr_valid, va_size, cacheVer, filesize>>
     \/ /\ th[t].kind = "ok"
        /\ CacheAttrs(th[t].size, th[t].ver)
        /\ filesize' = IF directio THEN th[t].size ELSE filesize
  /\ Done(t)
  /\ UNCHANGED <<directio, dirty, dSize, dVer, written, mutVer>>

(***************************************************************************)
(* lookup (fuse_vnop_lookup) of the vnode's name that misses the name     *)
(* cache: LOOKUP is sent whatever attr_valid says.                        *)
(***************************************************************************)
VnopLookup(t) ==
  /\ th[t].pc = "idle"
  /\ Send(t, "lookup_wait", Idle)
  /\ UNCHANGED <<attr_valid, va_size, cacheVer, filesize, directio, dirty,
                 dSize, dVer, written, mutVer>>

(* An error answer (ENOENT enters a negative name) and attributes with no *)
(* S_IFMT bits (EIO) leave the vnode alone.  Otherwise fuse_vget_i finds  *)
(* the vnode, a direct-I/O one takes filesize from the entry's attributes *)
(* (ATTR_FUDGE_CASE), and they are cached.  The DELETE and RENAME last-   *)
(* component paths return before this and are the ok answer without it.  *)
LookupReply(t) ==
  /\ th[t].pc = "lookup_wait" /\ th[t].served
  /\ \/ /\ th[t].kind \in {"err", "mode0"}
        /\ UNCHANGED <<attr_valid, va_size, cacheVer, filesize>>
     \/ /\ th[t].kind = "ok"
        /\ CacheAttrs(th[t].size, th[t].ver)
        /\ filesize' = IF directio THEN th[t].size ELSE filesize
  /\ Done(t)
  /\ UNCHANGED <<directio, dirty, dSize, dVer, written, mutVer>>

(***************************************************************************)
(* setattr (fuse_vnop_setattr) on a regular vnode of a writable mount, so  *)
(* neither EISDIR nor EROFS: SETATTR is sent with or without a new size.   *)
(***************************************************************************)
VnopSetattr(t) ==
  /\ th[t].pc = "idle"
  /\ \E n \in Sizes \cup {NoSize} :
        Send(t, "setattr_wait", [Idle EXCEPT !.new = n])
  /\ UNCHANGED <<attr_valid, va_size, cacheVer, filesize, directio, dirty,
                 dSize, dVer, written, mutVer>>

(* An error answer invalidates the attributes and is returned.  A changed *)
(* type purges the name cache and returns EAGAIN.  Otherwise a size change *)
(* invalidates the attributes and any other change caches the answer; at  *)
(* out, a size change sets filesize and the page cache's size.            *)
SetattrReply(t) ==
  LET n == th[t].new IN
  /\ th[t].pc = "setattr_wait" /\ th[t].served
  /\ \/ /\ th[t].kind = "err"
        /\ Invalidate
        /\ UNCHANGED <<va_size, cacheVer, filesize, dirty, written, mutVer>>
     \/ /\ th[t].kind = "retype"
        /\ UNCHANGED <<attr_valid, va_size, cacheVer, filesize, dirty,
                       written, mutVer>>
     \/ /\ th[t].kind = "ok" /\ n # NoSize
        /\ Invalidate /\ UNCHANGED <<va_size, cacheVer>>
        /\ filesize' = n /\ UbcSetsize(n)
        /\ written' = MinOf(written, n)
        /\ mutVer' = MaxOf(mutVer, th[t].ver)
     \/ /\ th[t].kind = "ok" /\ n = NoSize
        /\ CacheAttrs(th[t].size, th[t].ver)
        /\ UNCHANGED <<filesize, dirty, written>>
        /\ mutVer' = MaxOf(mutVer, th[t].ver)
  /\ Done(t)
  /\ UNCHANGED <<directio, dSize, dVer>>

(***************************************************************************)
(* write through the page cache (fuse_vnop_write without direct I/O).  An *)
(* extending write sets filesize to its end before cluster_write, which   *)
(* blocks.  IO_APPEND takes its offset from filesize in the same step, so *)
(* it is the write whose offset is filesize.  A write of 0 bytes returns  *)
(* at once; a negative offset cannot be formed.                           *)
(***************************************************************************)
(* The size a write of len bytes at off sets before cluster_write. *)
ExtendedSizeFromSize(size, off, len) == MaxOf(size, size + len)
ExtendedSize(size, off, len) == MaxOf(size, off + len)

VnopWrite(t) ==
  /\ t \in Writers /\ th[t].pc = "idle" /\ ~directio
  /\ \E off \in Sizes, len \in 1 .. MaxSize, unit \in BOOLEAN :
       /\ off + len <= MaxSize
       /\ filesize' = ExtendedSize(filesize, off, len)
       /\ Send(t, "cluster", [Idle EXCEPT !.off = off, !.len = len,
                                          !.unit = unit, !.orig = filesize])
  /\ UNCHANGED <<attr_valid, va_size, cacheVer, directio, dirty, dSize, dVer,
                 written, mutVer>>

(* cluster_write returns: it dirtied the pages of the k bytes it moved,   *)
(* all of them on success.  On success filesize becomes the uio's offset  *)
(* if it passed original_size, with ubc_setsize, else original_size, and  *)
(* the attributes are invalidated.  On error an IO_UNIT write gets its    *)
(* uio back and returns the error, and filesize keeps the extended size;  *)
(* any other write that moved some bytes returns 0.                       *)
(* After a successful cluster_write ending at end: filesize, and the     *)
(* dirty pages left by ubc_setsize when the write passed original_size.  *)
SizeAfterWriteOrig(orig, end) == orig
SizeAfterWrite(orig, end) == IF end > orig THEN end ELSE orig
PagesAfterWriteOrig(orig, end, pages) ==
  IF end > orig THEN MinOf(pages, orig) ELSE pages
PagesAfterWrite(orig, end, pages) ==
  IF end > orig THEN MinOf(pages, end) ELSE pages

ClusterWrite(t) ==
  LET r == th[t] IN
  /\ r.pc = "cluster"
  /\ \E k \in 0 .. r.len :
       LET end   == r.off + k
           ok    == k = r.len
           pages == IF k > 0 THEN MaxOf(dirty, end) ELSE dirty
       IN
       /\ dirty' = IF ok THEN PagesAfterWrite(r.orig, end, pages) ELSE pages
       /\ filesize' = IF ok THEN SizeAfterWrite(r.orig, end) ELSE filesize
       /\ IF ok THEN Invalidate ELSE UNCHANGED attr_valid
       /\ written' = IF ok \/ (~r.unit /\ k > 0) THEN MaxOf(written, end)
                                                  ELSE written
  /\ Done(t)
  /\ UNCHANGED <<va_size, cacheVer, directio, dSize, dVer, mutVer>>

(* Direct-I/O write: one WRITE as large as the uio (the chunk loop is     *)
(* FuseHandles'), through a valid WRONLY or RDWR slot.                    *)
VnopDirectWrite(t) ==
  /\ t \in Writers /\ th[t].pc = "idle" /\ directio
  /\ \E off \in Sizes, len \in 1 .. MaxSize :
       /\ off + len <= MaxSize
       /\ Send(t, "dwrite_wait", [Idle EXCEPT !.off = off, !.len = len])
  /\ UNCHANGED <<attr_valid, va_size, cacheVer, filesize, directio, dirty,
                 dSize, dVer, written, mutVer>>

(* An error answer is returned at once; after a full answer the loop ends *)
(* and the attributes are invalidated.  filesize is left as it was.       *)
DirectWriteReplyNoInvalidate(t) ==
  /\ th[t].pc = "dwrite_wait" /\ th[t].served
  /\ \/ /\ th[t].kind = "err"
        /\ UNCHANGED <<mutVer>>
     \/ /\ th[t].kind = "ok"
        /\ mutVer' = MaxOf(mutVer, th[t].ver)
  /\ Done(t)
  /\ UNCHANGED <<attr_valid, va_size, cacheVer, filesize, directio, dirty,
                 dSize, dVer, written>>

DirectWriteReply(t) ==
  /\ th[t].pc = "dwrite_wait" /\ th[t].served
  /\ \/ /\ th[t].kind = "err"
        /\ UNCHANGED <<attr_valid, mutVer>>
     \/ /\ th[t].kind = "ok"
        /\ Invalidate
        /\ mutVer' = MaxOf(mutVer, th[t].ver)
  /\ Done(t)
  /\ UNCHANGED <<va_size, cacheVer, filesize, directio, dirty, dSize, dVer,
                 written>>

(***************************************************************************)
(* open (fuse_vnop_open from its ok: label, once the slot holds a handle)  *)
(* with the open flags of the OPEN answer.  FOPEN_DIRECT_IO pushes and     *)
(* drops the page cache and sets FN_DIRECT_IO; FOPEN_PURGE_UBC does the    *)
(* push; with FOPEN_PURGE_ATTR too, the attributes are invalidated and     *)
(* GETATTR is sent.  Without any, or on a direct-I/O vnode whose page      *)
(* cache is empty, open changes nothing here.                              *)
(***************************************************************************)
VnopOpen(t) ==
  /\ th[t].pc = "idle" /\ ~directio
  /\ Push
  /\ \/ /\ directio' = TRUE
        /\ UNCHANGED <<attr_valid, th>>
     \/ /\ UNCHANGED <<attr_valid, th, directio>>
     \/ /\ Invalidate
        /\ Send(t, "purge_wait", Idle)
        /\ UNCHANGED directio
  /\ UNCHANGED <<va_size, cacheVer, filesize, written, mutVer>>

(* An answer with a file type is cached and its size becomes filesize and *)
(* the page cache's size; an error or a mode without type changes nothing. *)
PurgeReply(t) ==
  /\ th[t].pc = "purge_wait" /\ th[t].served
  /\ \/ /\ th[t].kind \in {"err", "mode0"}
        /\ UNCHANGED <<attr_valid, va_size, cacheVer, filesize, dirty>>
     \/ /\ th[t].kind = "ok"
        /\ CacheAttrs(th[t].size, th[t].ver)
        /\ filesize' = th[t].size /\ UbcSetsize(th[t].size)
  /\ Done(t)
  /\ UNCHANGED <<directio, dSize, dVer, written, mutVer>>

(***************************************************************************)
(* The daemon serves a waiting request.  SETATTR and a successful WRITE   *)
(* change the file; the answer carries its size and version after that.   *)
(* A WRITE's bytes count as written from here.  A truncation cuts written *)
(* here and again when its setattr returns: a write that lands between    *)
(* the two overlaps the truncation and may be ordered before it.          *)
(***************************************************************************)
Serve(t) ==
  LET r == th[t] IN
  /\ r.pc \in WaitPcs /\ ~r.served
  /\ \E k \in Kinds(r.pc) :
       LET changes == k # "err" /\ r.pc \in {"setattr_wait", "dwrite_wait"}
           size    == CASE r.pc = "dwrite_wait" -> MaxOf(dSize, r.off + r.len)
                         [] r.new # NoSize      -> r.new
                         [] OTHER               -> dSize
       IN
       /\ changes => dVer < MaxVer
       /\ dSize' = IF changes THEN size ELSE dSize
       /\ dVer' = IF changes THEN dVer + 1 ELSE dVer
       /\ th' = [th EXCEPT ![t].served = TRUE, ![t].kind = k,
                           ![t].size = dSize', ![t].ver = dVer']
       /\ written' = CASE ~changes              -> written
                        [] r.pc = "setattr_wait" -> MinOf(written, size)
                        [] OTHER                 -> MaxOf(written, r.off + r.len)
  /\ UNCHANGED <<attr_valid, va_size, cacheVer, filesize, directio, dirty,
                 mutVer>>

(* The VM pages out the dirty pages (fuse_vnop_pageout, cluster_pageout).  *)
Pageout ==
  /\ dirty > 0
  /\ Push
  /\ UNCHANGED <<attr_valid, va_size, cacheVer, filesize, directio, th,
                 written, mutVer>>

(* Time passes the attr_valid deadline. *)
Expire ==
  /\ attr_valid /\ attr_valid' = FALSE
  /\ UNCHANGED <<va_size, cacheVer, filesize, directio, dirty, dSize, dVer,
                 th, written, mutVer>>

ThreadStep(t) ==
  \/ VnopGetattr(t) \/ GetattrReply(t)
  \/ VnopLookup(t) \/ LookupReply(t)
  \/ VnopSetattr(t) \/ SetattrReply(t)
  \/ VnopWrite(t) \/ ClusterWrite(t)
  \/ VnopDirectWrite(t) \/ DirectWriteReply(t)
  \/ VnopOpen(t) \/ PurgeReply(t)
  \/ Serve(t)

Next == (\E t \in Threads : ThreadStep(t)) \/ Pageout \/ Expire

Spec == Init /\ [][Next]_vars

-----------------------------------------------------------------------------
(* Every byte a write reported written (write returned 0 for it) and no   *)
(* later truncation removed is in the daemon's file or in the dirty pages *)
(* of the page cache: neither cluster_write's size update nor open's      *)
(* PURGE_ATTR refresh (ubc_setsize) drops it.                             *)
NoLostWrite == written <= MaxOf(dSize, dirty)

(* On a vnode without direct I/O, filesize (the EOF cluster_read and       *)
(* cluster_pageout use) covers every byte a write reported written.        *)
SizeCoversWrites == ~directio => written <= filesize

(* Spec 8, invariant 6: attributes cached and still valid were served at  *)
(* or after the daemon's change by the last setattr or direct write that  *)
(* returned; a mutating vnop leaves no older attributes valid.            *)
CacheNotStale == attr_valid => cacheVer >= mutVer

=============================================================================
