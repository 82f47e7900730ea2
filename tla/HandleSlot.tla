----------------------------- MODULE HandleSlot -----------------------------
(***************************************************************************)
(* What the file-handle table of one node promises (spec 4.2), with the    *)
(* daemon's ids and the waits hidden: each slot is invalid or holds one     *)
(* handle and an open count.  get installs a handle never issued before    *)
(* into an invalid slot with count 1, or counts one more user of a valid   *)
(* one; dec counts one user less and put invalidates the slot when the     *)
(* count reaches zero; inactive and reclaim reset every slot.  A handle    *)
(* the daemon issues that never reaches a slot (a failed create) is only   *)
(* marked as issued.                                                       *)
(***************************************************************************)
EXTENDS Naturals

CONSTANTS
  Slots,     \* the access classes of the slots
  Handles    \* the handle ids the daemon may issue

VARIABLES
  slot,      \* [Slots -> [id, count]]; count 0 is an invalid slot
  issued     \* handles the daemon has issued so far

vars == <<slot, issued>>

Invalid == [id |-> 0, count |-> 0]

IsValid(s) == slot[s].count > 0

Init == slot = [s \in Slots |-> Invalid] /\ issued = {}

(* get on an invalid slot: a fresh handle with open_count 1. *)
Install(s, h) ==
  /\ ~IsValid(s) /\ h \in Handles \ issued
  /\ slot' = [slot EXCEPT ![s] = [id |-> h, count |-> 1]]
  /\ issued' = issued \cup {h}

(* get (or open's reuse) on a valid slot: one user more. *)
Inc(s) ==
  /\ IsValid(s)
  /\ slot' = [slot EXCEPT ![s].count = @ + 1]
  /\ UNCHANGED issued

(* dec, then put once no user is left. *)
Dec(s) ==
  /\ IsValid(s)
  /\ slot' = [slot EXCEPT ![s] = IF @.count = 1 THEN Invalid
                                 ELSE [@ EXCEPT !.count = @ - 1]]
  /\ UNCHANGED issued

(* reset and put of every slot. *)
ResetAll ==
  /\ slot' = [s \in Slots |-> Invalid]
  /\ UNCHANGED issued

(* A handle issued but never installed. *)
Discard(h) ==
  /\ h \in Handles \ issued
  /\ issued' = issued \cup {h}
  /\ UNCHANGED slot

Next ==
  \/ \E s \in Slots : Inc(s) \/ Dec(s) \/ \E h \in Handles : Install(s, h)
  \/ \E h \in Handles : Discard(h)
  \/ ResetAll

Spec == Init /\ [][Next]_vars
=============================================================================
