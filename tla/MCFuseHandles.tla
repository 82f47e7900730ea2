---------------------------- MODULE MCFuseHandles ----------------------------
(***************************************************************************)
(* Instances of FuseHandles for TLC.  Threads and fds are model values;   *)
(* the .cfg files pick the modes each fd may be opened with.              *)
(***************************************************************************)
EXTENDS FuseHandles, TLC

CONSTANTS t1, t2, f1, f2

MCThreads1 == {t1}
MCThreads2 == {t1, t2}
MCFds      == {f1, f2}

(* Any mode on either fd, including the zero mode taken as a read. *)
ModesAny == [f \in MCFds |-> SUBSET FFlags]
(* f1 read-only, f2 write-only: the two fds never share a slot type. *)
ModesDisjoint == (f1 :> {{"FREAD"}}) @@ (f2 :> {{"FWRITE"}})
(* Both fds read-only. *)
ModesSameRead == [f \in MCFds |-> {{"FREAD"}}]
(* f1 read-write, f2 read-only. *)
ModesRdwrAndRead == (f1 :> {FFlags}) @@ (f2 :> {{"FREAD"}})

CreatF1   == {f1}
ImplsAny  == SUBSET OptionalOps
ImplsAll  == {OptionalOps}
ImplsNone == {{}}
ThreadSymmetry == Permutations(MCThreads2)
=============================================================================
