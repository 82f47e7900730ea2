----------------------------- MODULE MCFuseCaps -----------------------------
(* TLC instances of FuseCaps: threads as model values, daemon capability *)
(* sets and mount flags.                                                 *)
EXTENDS FuseCaps, TLC

CONSTANTS t1, t2

MCThreads2 == {t1, t2}

(* A daemon with every optional request, and one with none of them. *)
ImplsAllOrNone == {CapOps, {}}

(* A daemon with every optional request, or lacking one of them: the    *)
(* bits are cleared independently, so one missing request at a time     *)
(* meets every ENOSYS path.                                              *)
ImplsOneMissing == {CapOps} \cup {CapOps \ {o} : o \in CapOps}

(* Mounts as fuse4x mounts them by default, with auto_xattr, or with    *)
(* noapplexattr.                                                         *)
FlagsNoSyncWritesOff == {{}, {"AUTO_XATTR"}, {"NO_APPLEXATTR"}}
FlagsNoSyncWrites    == {{"NOSYNCWRITES"}}

ThreadSymmetry == Permutations(MCThreads2)
====
