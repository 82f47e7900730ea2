----------------------------- MODULE FuseNodes -----------------------------
(***************************************************************************)
(* The namespace vnops of fuse4x (src/fuse_vnops.c) on the names of one    *)
(* directory: lookup with the name cache, mknod, mkdir, symlink, link,     *)
(* remove, rmdir, rename, getattr and reclaim.  The state is the daemon's  *)
(* directory and per-node counts, the kernel's node registry with each     *)
(* node's nlookup and cached attributes, the name cache, and one record    *)
(* per VFS thread.                                                         *)
(*                                                                         *)
(* A system call is the VFS's namei (one or two component lookups, each    *)
(* through fuse_vnop_lookup) followed by the vnop.  Each dispatcher wait   *)
(* splits a handler in two: the action that sends the request and the      *)
(* action that consumes the answer.  The daemon serves a request in its    *)
(* own step, so an answer reflects the directory when it was served.       *)
(***************************************************************************)
EXTENDS Naturals, Sequences, FiniteSets

CONSTANTS Threads,      \* VFS threads making namespace system calls
          Names,        \* the names of the directory
          Nodes,        \* node ids the daemon hands out, never reused
          LinkMax,      \* FUSE_LINK_MAX (fuse_param.h), scaled down
          MaxLookups,   \* bound on a node's daemon-side lookup count
          ErrorReplies, \* whether the daemon may fail a request with EIO
          Readers       \* threads that only stat names

Dir    == "dvp"      \* the parent directory; the VFS holds its vnode
NoNode == "nonode"   \* no node: a free name, or a NULL vnode pointer
NoName == "noname"
Miss   == "miss"     \* no name-cache entry
Neg    == "neg"      \* a negative name-cache entry
(* Node types: the model tells only directories from the rest.  mknod    *)
(* (a regular file) and symlink both make a non-directory.               *)
Types  == {"VDIR", "VNONDIR"}

(* The component lookups namei makes before each system call's vnop, with *)
(* their nameiop; the last component of each is ISLASTCN.                 *)
Namei == [stat    |-> <<"LOOKUP">>,
          mknod   |-> <<"CREATE">>,  mkdir |-> <<"CREATE">>,
          symlink |-> <<"CREATE">>,
          link    |-> <<"LOOKUP", "CREATE">>,
          unlink  |-> <<"DELETE">>,  rmdir |-> <<"DELETE">>,
          rename  |-> <<"DELETE", "RENAME">>]
NewType == [mknod |-> "VNONDIR", mkdir |-> "VDIR", symlink |-> "VNONDIR"]

VARIABLES dir, dType, dNlink, dLookup,              \* the daemon
          vn, nlookup, ncache, attrValid, vaNlink,  \* the kernel
          vaDir,
          th                                        \* the VFS threads

daemon == <<dir, dType, dNlink, dLookup>>
kernel == <<vn, nlookup, ncache, attrValid, vaNlink, vaDir>>
vars   == <<daemon, kernel, th>>

NoAns == [err |-> "none", node |-> NoNode, nlink |-> 0, ents |-> {}]
Idle  == [pc |-> "idle", call |-> "none", step |-> 0, x |-> NoName,
          y |-> NoName, vp |-> NoNode, tvp |-> NoNode, ans |-> NoAns]
Pcs   == {"idle", "namei", "namei_wait", "vnop", "vnop_wait"}
Errs  == {"none", "ok", "ENOENT", "EEXIST", "ENOTDIR", "EISDIR",
          "EMLINK", "ENOSPC", "EIO"}

Comp(r)    == IF r.step = 1 THEN r.x ELSE r.y
NameiOp(r) == Namei[r.call][r.step]
Served(t)  == th[t].ans.err # "none"

(* The vnodes a thread holds an iocount on: the VFS cannot reclaim them.  *)
Held == UNION {{th[t].vp, th[t].tvp} : t \in Threads}

(* A system call grants at most two lookup references per node (link:    *)
(* the LOOKUP of its source and the LINK), so a call that starts while    *)
(* every count leaves two for it and two for each call under way keeps    *)
(* every daemon count within MaxLookups.                                  *)
LookupBudget(t) ==
  LET busy == {u \in Threads : th[u].pc # "idle"} \cup {t} IN
  \A n \in Nodes : dLookup[n] + 2 * Cardinality(busy) <= MaxLookups

Done(t) == th' = [th EXCEPT ![t] = Idle]

(* fuse_vncache_purge(vp): drop every name-cache entry naming a vnode of  *)
(* S.  Purging the directory drops all of its entries, negative included. *)
PurgeNodes(c, S) == [x \in Names |-> IF c[x] \in S THEN Miss ELSE c[x]]
Purge(c, S) == IF Dir \in S THEN [x \in Names |-> Miss] ELSE PurgeNodes(c, S)

(* fuse_invalidate_attr on each vnode of S. *)
InvalidateAttrs(S) == attrValid' = [v \in DOMAIN attrValid |-> attrValid[v] /\ v \notin S]

(* fuse_vget_i: find node n in the registry or make its vnode, count the  *)
(* lookup reference (a new vnode starts at 1: nlookup of an absent node   *)
(* is 0), and enter name x in the name cache when namei asked MAKEENTRY.  *)
(* A new vnode has no valid attributes.                                   *)
VGet(n, x, makeentry) ==
  /\ vn' = vn \cup {n}
  /\ nlookup' = [nlookup EXCEPT ![n] = @ + 1]
  /\ ncache' = IF makeentry THEN [ncache EXCEPT ![x] = n] ELSE ncache

(* cache_attrs from an entry or attr answer a.  A node's attributes are   *)
(* kept as its link count; the directory's (size, nlink, mtime) as the    *)
(* names it held when the daemon answered.                                *)
CacheAttrs(v, a) ==
  /\ attrValid' = [attrValid EXCEPT ![v] = TRUE]
  /\ IF v = Dir
     THEN vaDir' = a.ents /\ UNCHANGED vaNlink
     ELSE vaNlink' = [vaNlink EXCEPT ![v] = a.nlink] /\ UNCHANGED vaDir

(* namei has resolved the current component to v (NoNode for a name that  *)
(* is free, EJUSTRETURN): go to the next component or to the vnop.        *)
NameiNext(t, v) ==
  LET r == th[t]
      s == IF r.step = 1 THEN [r EXCEPT !.vp = v] ELSE [r EXCEPT !.tvp = v]
  IN th' = [th EXCEPT ![t] =
              IF r.call = "stat" THEN Idle
              ELSE IF r.step < Len(Namei[r.call])
                   THEN [s EXCEPT !.step = @ + 1, !.pc = "namei"]
                   ELSE [s EXCEPT !.pc = "vnop"]]

Send(t, pc) == th' = [th EXCEPT ![t].pc = pc, ![t].ans = NoAns]

-----------------------------------------------------------------------------
(* System calls *)

SysCall(t, c, a, b) ==
  /\ th[t].pc = "idle"
  /\ LookupBudget(t)
  /\ th' = [th EXCEPT ![t] = [Idle EXCEPT !.pc = "namei", !.call = c,
                                          !.step = 1, !.x = a, !.y = b]]
  /\ UNCHANGED <<daemon, kernel>>

(* getattr on the directory or on a vnode the VFS has. *)
SysGetattr(t, v) ==
  /\ th[t].pc = "idle"
  /\ th' = [th EXCEPT ![t] = [Idle EXCEPT !.pc = "vnop", !.call = "getattr",
                                          !.vp = v]]
  /\ UNCHANGED <<daemon, kernel>>

-----------------------------------------------------------------------------
(* fuse_vnop_lookup up to its dispatcher wait, with the VFS's name-cache  *)
(* lookup: a LOOKUP hits a positive or a negative entry; a CREATE hits a  *)
(* positive entry (the VFS then fails with EEXIST) and zaps a negative    *)
(* one; a DELETE or RENAME component has no MAKEENTRY and drops its entry. *)
VnopLookup(t) ==
  LET r == th[t]  x == Comp(r)  op == NameiOp(r) IN
  /\ r.pc = "namei"
  /\ \/ /\ op \in {"LOOKUP", "CREATE"} /\ ncache[x] \in Nodes
        /\ IF op = "LOOKUP" THEN NameiNext(t, ncache[x]) ELSE Done(t)
        /\ UNCHANGED ncache
     \/ /\ op = "LOOKUP" /\ ncache[x] = Neg
        /\ Done(t)
        /\ UNCHANGED ncache
     \/ /\ \/ ncache[x] = Miss
           \/ op = "CREATE" /\ ncache[x] = Neg
           \/ op \in {"DELETE", "RENAME"}
        /\ ncache' = [ncache EXCEPT ![x] = Miss]
        /\ Send(t, "namei_wait")
  /\ UNCHANGED <<daemon, vn, nlookup, attrValid, vaNlink, vaDir>>

(* The answer to LOOKUP.  A node: fuse_vget_i, and for LOOKUP and CREATE  *)
(* cache_attrs; a CREATE that finds the name fails with EEXIST in the VFS. *)
(* ENOENT: EJUSTRETURN for a CREATE or RENAME last component, else a      *)
(* negative entry when MAKEENTRY (LOOKUP only) and ENOENT.                *)
LookupReply(t) ==
  LET r == th[t]  x == Comp(r)  op == NameiOp(r)  a == r.ans IN
  /\ r.pc = "namei_wait" /\ Served(t)
  /\ \/ /\ a.err = "ok"
        /\ VGet(a.node, x, op \in {"LOOKUP", "CREATE"})
        /\ IF op \in {"LOOKUP", "CREATE"}
           THEN CacheAttrs(a.node, a)
           ELSE UNCHANGED <<attrValid, vaNlink, vaDir>>
        /\ IF op = "CREATE" THEN Done(t) ELSE NameiNext(t, a.node)
     \/ /\ a.err = "ENOENT" /\ op \in {"CREATE", "RENAME"}
        /\ NameiNext(t, NoNode)
        /\ UNCHANGED <<vn, nlookup, ncache, attrValid, vaNlink, vaDir>>
     \/ /\ a.err = "ENOENT" /\ op \in {"LOOKUP", "DELETE"}
        /\ ncache' = IF op = "LOOKUP" THEN [ncache EXCEPT ![x] = Neg] ELSE ncache
        /\ Done(t)
        /\ UNCHANGED <<vn, nlookup, attrValid, vaNlink, vaDir>>
     \/ /\ a.err = "EIO"
        /\ Done(t)
        /\ UNCHANGED kernel
  /\ UNCHANGED daemon

-----------------------------------------------------------------------------
(* The vnops.  Each checks fuse_isdeadfs and CHECK_BLANKET_DENIAL first;  *)
(* the session does not die here and the mount grants access, so both    *)
(* pass.  The checks the VFS makes before calling a vnop (a directory     *)
(* cannot be linked, rmdir needs a directory, rename of a name onto       *)
(* another name of the same vnode does nothing, rename between a          *)
(* directory and a non-directory fails) end the call in the VFS.          *)

IsDir(v) == v = Dir \/ dType[v] = "VDIR"

(* fuse_vnop_mknod, fuse_vnop_mkdir, fuse_vnop_symlink up to the wait in  *)
(* fuse_internal_newentry(_core). *)
SendNewEntry(t, c) ==
  /\ th[t].pc = "vnop" /\ th[t].call = c
  /\ Send(t, "vnop_wait")
  /\ UNCHANGED <<daemon, kernel>>
VnopMknod(t)   == SendNewEntry(t, "mknod")
VnopMkdir(t)   == SendNewEntry(t, "mkdir")
VnopSymlink(t) == SendNewEntry(t, "symlink")

(* The answer to MKNOD, MKDIR or SYMLINK: fuse_internal_newentry_core     *)
(* checks the entry, makes the vnode with fuse_vget_i (namei kept         *)
(* MAKEENTRY for the CREATE component) and caches its attributes; then    *)
(* the vnop invalidates the directory's attributes.                       *)
NewEntryReply(t) ==
  LET r == th[t]  a == r.ans IN
  /\ r.pc = "vnop_wait" /\ r.call \in DOMAIN NewType /\ Served(t)
  /\ \/ /\ a.err = "ok"
        /\ VGet(a.node, r.x, TRUE)
        /\ attrValid' = [attrValid EXCEPT ![a.node] = TRUE, ![Dir] = FALSE]
        /\ vaNlink' = [vaNlink EXCEPT ![a.node] = a.nlink]
        /\ UNCHANGED vaDir
     \/ /\ a.err # "ok"
        /\ UNCHANGED kernel
  /\ Done(t)
  /\ UNCHANGED daemon

(* fuse_vnop_link up to its wait: EMLINK when the cached link count of    *)
(* the vnode has reached FUSE_LINK_MAX. *)
VnopLink(t) ==
  LET r == th[t] IN
  /\ r.pc = "vnop" /\ r.call = "link"
  /\ IF IsDir(r.vp) \/ vaNlink[r.vp] >= LinkMax
     THEN Done(t)
     ELSE Send(t, "vnop_wait")
  /\ UNCHANGED <<daemon, kernel>>

(* Mutant: nlookup is not counted for the new name. *)
LinkReplyNoInc(t) ==
  LET r == th[t] IN
  /\ r.pc = "vnop_wait" /\ r.call = "link" /\ Served(t)
  /\ IF r.ans.err = "ok" THEN InvalidateAttrs({Dir}) ELSE UNCHANGED attrValid
  /\ Done(t)
  /\ UNCHANGED <<daemon, vn, nlookup, ncache, vaNlink, vaDir>>

(* The answer to LINK: on an entry, fuse_internal_checkentry, then both   *)
(* the directory's and the vnode's attributes are invalidated and the     *)
(* new name counts one more lookup reference in nlookup. *)
LinkReply(t) ==
  LET r == th[t] IN
  /\ r.pc = "vnop_wait" /\ r.call = "link" /\ Served(t)
  /\ \/ /\ r.ans.err = "ok"
        /\ nlookup' = [nlookup EXCEPT ![r.vp] = @ + 1]
        /\ InvalidateAttrs({Dir, r.vp})
        /\ UNCHANGED <<vn, ncache, vaNlink, vaDir>>
     \/ /\ r.ans.err # "ok"
        /\ UNCHANGED kernel
  /\ Done(t)
  /\ UNCHANGED daemon

(* fuse_vnop_remove up to its wait: EPERM for a directory, else purge the *)
(* vnode's names and send UNLINK. *)
VnopRemove(t) ==
  LET r == th[t] IN
  /\ r.pc = "vnop" /\ r.call = "unlink"
  /\ IF IsDir(r.vp)
     THEN Done(t) /\ UNCHANGED ncache
     ELSE Send(t, "vnop_wait") /\ ncache' = Purge(ncache, {r.vp})
  /\ UNCHANGED <<daemon, vn, nlookup, attrValid, vaNlink, vaDir>>

RemoveReply(t) ==
  LET r == th[t] IN
  /\ r.pc = "vnop_wait" /\ r.call = "unlink" /\ Served(t)
  /\ IF r.ans.err = "ok"
     THEN ncache' = Purge(ncache, {r.vp}) /\ InvalidateAttrs({Dir})
     ELSE UNCHANGED <<ncache, attrValid>>
  /\ Done(t)
  /\ UNCHANGED <<daemon, vn, nlookup, vaNlink, vaDir>>

(* fuse_vnop_rmdir up to its wait (the VFS has refused a non-directory). *)
VnopRmdir(t) ==
  LET r == th[t] IN
  /\ r.pc = "vnop" /\ r.call = "rmdir"
  /\ IF IsDir(r.vp)
     THEN Send(t, "vnop_wait") /\ ncache' = Purge(ncache, {r.vp})
     ELSE Done(t) /\ UNCHANGED ncache
  /\ UNCHANGED <<daemon, vn, nlookup, attrValid, vaNlink, vaDir>>

(* The answer to RMDIR: on success invalidate the directory's attributes. *)
RmdirReply(t) ==
  LET r == th[t] IN
  /\ r.pc = "vnop_wait" /\ r.call = "rmdir" /\ Served(t)
  /\ IF r.ans.err = "ok" THEN InvalidateAttrs({Dir}) ELSE UNCHANGED attrValid
  /\ Done(t)
  /\ UNCHANGED <<daemon, vn, nlookup, ncache, vaNlink, vaDir>>

(* fuse_vnop_rename up to its wait: purge the source vnode's names first. *)
VnopRename(t) ==
  LET r == th[t] IN
  /\ r.pc = "vnop" /\ r.call = "rename"
  /\ IF r.tvp # NoNode /\ (r.tvp = r.vp \/ IsDir(r.vp) # IsDir(r.tvp))
     THEN Done(t) /\ UNCHANGED ncache
     ELSE Send(t, "vnop_wait") /\ ncache' = Purge(ncache, {r.vp})
  /\ UNCHANGED <<daemon, vn, nlookup, attrValid, vaNlink, vaDir>>

(* The answer to RENAME: on success invalidate the directory (source and  *)
(* target parent are the same); whatever the answer, purge a replaced     *)
(* target vnode, and for a directory source purge the parent (which, for  *)
(* a directory target, is also the target parent). *)
RenameReply(t) ==
  LET r == th[t]
      tgt == IF r.tvp # NoNode /\ r.tvp # r.vp THEN {r.tvp} ELSE {}
      par == IF IsDir(r.vp) THEN {Dir} ELSE {}
  IN
  /\ r.pc = "vnop_wait" /\ r.call = "rename" /\ Served(t)
  /\ IF r.ans.err = "ok" THEN InvalidateAttrs({Dir}) ELSE UNCHANGED attrValid
  /\ ncache' = Purge(ncache, tgt \cup par)
  /\ Done(t)
  /\ UNCHANGED <<daemon, vn, nlookup, vaNlink, vaDir>>

(* fuse_vnop_getattr: cached attributes answer at once, else GETATTR. *)
VnopGetattr(t) ==
  LET r == th[t] IN
  /\ r.pc = "vnop" /\ r.call = "getattr"
  /\ IF attrValid[r.vp] THEN Done(t) ELSE Send(t, "vnop_wait")
  /\ UNCHANGED <<daemon, kernel>>

(* The answer to GETATTR: cache_attrs.  (Its ENOENT and type-change       *)
(* branches purge the vnode's names; the daemon here keeps a node while   *)
(* it is counted and types never change, so neither is reached.) *)
GetattrReply(t) ==
  LET r == th[t] IN
  /\ r.pc = "vnop_wait" /\ r.call = "getattr" /\ Served(t)
  /\ IF r.ans.err = "ok"
     THEN CacheAttrs(r.vp, r.ans)
     ELSE UNCHANGED <<attrValid, vaNlink, vaDir>>
  /\ Done(t)
  /\ UNCHANGED <<daemon, vn, nlookup, ncache>>

(* Mutant: reclaim sends FORGET but leaves the count for the next vnode *)
(* of the node. *)
VnopReclaimKeepCount(n) ==
  /\ n \in vn \ Held
  /\ dLookup' = [dLookup EXCEPT ![n] = @ - nlookup[n]]
  /\ ncache' = Purge(ncache, {n})
  /\ vn' = vn \ {n}
  /\ attrValid' = [attrValid EXCEPT ![n] = FALSE]
  /\ vaNlink' = [vaNlink EXCEPT ![n] = 0]
  /\ UNCHANGED vaDir
  /\ UNCHANGED <<dir, dType, dNlink, nlookup, th>>

(* fuse_vnop_reclaim of a vnode no thread holds: FORGET(nlookup) when     *)
(* nlookup is not 0, purge its names, remove it from the node registry    *)
(* and destroy its data. *)
VnopReclaim(n) ==
  /\ n \in vn \ Held
  /\ dLookup' = [dLookup EXCEPT ![n] = @ - nlookup[n]]
  /\ nlookup' = [nlookup EXCEPT ![n] = 0]
  /\ ncache' = Purge(ncache, {n})
  /\ vn' = vn \ {n}
  /\ attrValid' = [attrValid EXCEPT ![n] = FALSE]
  /\ vaNlink' = [vaNlink EXCEPT ![n] = 0]
  /\ UNCHANGED vaDir
  /\ UNCHANGED <<dir, dType, dNlink, th>>

-----------------------------------------------------------------------------
(* The daemon serves a pending request in one step.  It keeps a node's id *)
(* while the node is unlinked and never reuses an id.  It fails a request *)
(* with any error that applies, and with ErrorReplies with EIO.           *)

Answer(t, e, n, k) == th' = [th EXCEPT ![t].ans = [NoAns EXCEPT !.err = e, !.node = n, !.nlink = k]]
(* The names of the directory: what its size, nlink and mtime reflect. *)
Entries == {x \in Names : dir[x] # NoNode}
Pending(t, pc) == th[t].pc = pc /\ ~Served(t)
Grant(n) == dLookup' = [dLookup EXCEPT ![n] = @ + 1]
Err(cond, e) == IF cond THEN {e} ELSE {}
IsDirNode(n) == n # NoNode /\ dType[n] = "VDIR"
Free == {n \in Nodes : dType[n] = "none"}

(* The errors the daemon finds in the vnop request of thread record r. *)
Errors(r) ==
  LET f == dir[r.x]  g == dir[r.y] IN
  CASE r.call \in DOMAIN NewType ->
         Err(f # NoNode, "EEXIST") \cup Err(Free = {}, "ENOSPC")
    [] r.call = "link" ->
         Err(g # NoNode, "EEXIST") \cup Err(dNlink[r.vp] = 0, "ENOENT")
           \cup Err(dNlink[r.vp] >= LinkMax, "EMLINK")
    [] r.call = "unlink" -> Err(f = NoNode, "ENOENT") \cup Err(IsDirNode(f), "EISDIR")
    [] r.call = "rmdir" ->
         Err(f = NoNode, "ENOENT") \cup Err(f # NoNode /\ ~IsDirNode(f), "ENOTDIR")
    [] r.call = "rename" ->
         Err(f = NoNode, "ENOENT")
           \cup Err(f # NoNode /\ g # NoNode /\ IsDirNode(f) # IsDirNode(g), "EISDIR")
    [] r.call = "getattr" -> {}

(* A vnop request that succeeds. *)
Accepts(t, c) == Pending(t, "vnop_wait") /\ th[t].call = c /\ Errors(th[t]) = {}

ServeLookup(t) ==
  LET n == dir[Comp(th[t])] IN
  /\ Pending(t, "namei_wait")
  /\ IF n = NoNode
     THEN Answer(t, "ENOENT", NoNode, 0) /\ UNCHANGED dLookup
     ELSE Answer(t, "ok", n, dNlink[n]) /\ Grant(n)
  /\ UNCHANGED <<dir, dType, dNlink>>

ServeNewEntry(t) ==
  LET r == th[t] IN
  /\ \E c \in DOMAIN NewType : Accepts(t, c)
  /\ \E n \in Free :
       /\ dir' = [dir EXCEPT ![r.x] = n]
       /\ dType' = [dType EXCEPT ![n] = NewType[r.call]]
       /\ dNlink' = [dNlink EXCEPT ![n] = IF r.call = "mkdir" THEN 2 ELSE 1]
       /\ Grant(n)
       /\ Answer(t, "ok", n, dNlink'[n])

ServeLink(t) ==
  LET r == th[t] IN
  /\ Accepts(t, "link")
  /\ dir' = [dir EXCEPT ![r.y] = r.vp]
  /\ dNlink' = [dNlink EXCEPT ![r.vp] = @ + 1]
  /\ Grant(r.vp)
  /\ Answer(t, "ok", r.vp, dNlink'[r.vp])
  /\ UNCHANGED dType

ServeUnlink(t) ==
  LET r == th[t]  n == dir[r.x] IN
  /\ Accepts(t, "unlink")
  /\ dir' = [dir EXCEPT ![r.x] = NoNode]
  /\ dNlink' = [dNlink EXCEPT ![n] = @ - 1]
  /\ Answer(t, "ok", NoNode, 0)
  /\ UNCHANGED <<dType, dLookup>>

ServeRmdir(t) ==
  LET r == th[t]  n == dir[r.x] IN
  /\ Accepts(t, "rmdir")
  /\ dir' = [dir EXCEPT ![r.x] = NoNode]
  /\ dNlink' = [dNlink EXCEPT ![n] = 0]
  /\ Answer(t, "ok", NoNode, 0)
  /\ UNCHANGED <<dType, dLookup>>

(* RENAME of x onto y: a name of the same node is left alone; a replaced *)
(* node loses the name (a directory is gone).                            *)
ServeRename(t) ==
  LET r == th[t]  f == dir[r.x]  g == dir[r.y] IN
  /\ Accepts(t, "rename")
  /\ dir' = IF f = g THEN dir ELSE [dir EXCEPT ![r.y] = f, ![r.x] = NoNode]
  /\ dNlink' = IF g \in {NoNode, f} THEN dNlink
               ELSE [dNlink EXCEPT ![g] = IF IsDirNode(g) THEN 0 ELSE @ - 1]
  /\ Answer(t, "ok", NoNode, 0)
  /\ UNCHANGED <<dType, dLookup>>

ServeGetattr(t) ==
  LET v == th[t].vp IN
  /\ Accepts(t, "getattr")
  /\ IF v = Dir
     THEN th' = [th EXCEPT ![t].ans = [NoAns EXCEPT !.err = "ok", !.ents = Entries]]
     ELSE Answer(t, "ok", NoNode, dNlink[v])
  /\ UNCHANGED daemon

(* The daemon fails a request: with an error it finds, or with EIO. *)
ServeError(t) ==
  /\ \/ Pending(t, "vnop_wait") /\ \E e \in Errors(th[t]) : Answer(t, e, NoNode, 0)
     \/ /\ ErrorReplies
        /\ Pending(t, "namei_wait") \/ Pending(t, "vnop_wait")
        /\ Answer(t, "EIO", NoNode, 0)
  /\ UNCHANGED daemon

Serve(t) ==
  /\ \/ ServeLookup(t) \/ ServeNewEntry(t) \/ ServeLink(t) \/ ServeUnlink(t)
     \/ ServeRmdir(t) \/ ServeRename(t) \/ ServeGetattr(t) \/ ServeError(t)
  /\ UNCHANGED kernel

-----------------------------------------------------------------------------

Init ==
  /\ dir = [x \in Names |-> NoNode]
  /\ dType = [n \in Nodes |-> "none"]
  /\ dNlink = [n \in Nodes |-> 0]
  /\ dLookup = [n \in Nodes |-> 0]
  /\ vn = {}
  /\ nlookup = [n \in Nodes |-> 0]
  /\ ncache = [x \in Names |-> Miss]
  /\ attrValid = [v \in Nodes \cup {Dir} |-> FALSE]
  /\ vaNlink = [n \in Nodes |-> 0]
  /\ vaDir = {}
  /\ th = [t \in Threads |-> Idle]

ThreadStep(t) ==
  \/ \E c \in IF t \in Readers THEN {"stat"} ELSE DOMAIN Namei,
        a \in Names, b \in Names \cup {NoName} :
       /\ (b = NoName) = (Len(Namei[c]) = 1)
       /\ a # b
       /\ SysCall(t, c, a, b)
  \/ t \notin Readers /\ \E v \in vn \cup {Dir} : SysGetattr(t, v)
  \/ VnopLookup(t) \/ LookupReply(t)
  \/ VnopMknod(t) \/ VnopMkdir(t) \/ VnopSymlink(t) \/ NewEntryReply(t)
  \/ VnopLink(t) \/ LinkReply(t)
  \/ VnopRemove(t) \/ RemoveReply(t)
  \/ VnopRmdir(t) \/ RmdirReply(t)
  \/ VnopRename(t) \/ RenameReply(t)
  \/ VnopGetattr(t) \/ GetattrReply(t)
  \/ Serve(t)

Next ==
  \/ \E t \in Threads : ThreadStep(t)
  \/ \E n \in Nodes : VnopReclaim(n)

Spec == Init /\ [][Next]_vars

-----------------------------------------------------------------------------
(* Properties *)

TypeOK ==
  /\ dir \in [Names -> Nodes \cup {NoNode}]
  /\ dType \in [Nodes -> Types \cup {"none"}]
  /\ dNlink \in [Nodes -> 0..LinkMax]
  /\ dLookup \in [Nodes -> 0..MaxLookups]
  /\ vn \subseteq Nodes
  /\ nlookup \in [Nodes -> 0..MaxLookups]
  /\ ncache \in [Names -> Nodes \cup {Miss, Neg}]
  /\ attrValid \in [Nodes \cup {Dir} -> BOOLEAN]
  /\ vaNlink \in [Nodes -> 0..LinkMax]
  /\ vaDir \subseteq Names
  /\ \A t \in Threads :
       /\ th[t].pc \in Pcs
       /\ th[t].ans.err \in Errs
       /\ {th[t].vp, th[t].tvp} \subseteq Nodes \cup {Dir, NoNode}

(* Thread t holds an answer, not yet consumed, by which the daemon granted *)
(* a lookup reference on n: an entry for LOOKUP, MKNOD, MKDIR or SYMLINK, *)
(* or a LINK of n.                                                        *)
Grants(t, n) ==
  /\ Served(t) /\ th[t].ans.err = "ok"
  /\ \/ th[t].pc = "namei_wait" /\ th[t].ans.node = n
     \/ th[t].pc = "vnop_wait" /\ th[t].call \in DOMAIN NewType /\ th[t].ans.node = n
     \/ th[t].pc = "vnop_wait" /\ th[t].call = "link" /\ th[t].vp = n

(* Spec 3 and 8.3: the daemon's lookup count of every node equals the     *)
(* node's nlookup (0 without a vnode) plus the grants still on their way  *)
(* to a thread.  lookup (through fuse_vget_i), link's nlookup++ and       *)
(* reclaim's FORGET(nlookup) must keep it, across threads and reclaims    *)
(* racing an answer.                                                      *)
LookupAccounting ==
  \A n \in Nodes :
    dLookup[n] = nlookup[n] + Cardinality({t \in Threads : Grants(t, n)})

(* Thread t holds a success answer to a vnop that may have changed the    *)
(* directory, and has not yet applied it.                                 *)
Applying(t) ==
  th[t].pc = "vnop_wait" /\ th[t].ans.err = "ok" /\ th[t].call # "getattr"

=============================================================================
