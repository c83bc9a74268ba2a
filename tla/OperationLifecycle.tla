------------------------- MODULE OperationLifecycle -------------------------
(***************************************************************************)
(* What a client of the daemon is promised about the operations it submits *)
(* when it asks for their status.  An operation the daemon does not know   *)
(* is Absent.  In one step at most one operation advances along its        *)
(* lifecycle, and at most one other operation, whose outcome is already    *)
(* known, is forgotten.  An operation that is still active is never        *)
(* forgotten, and an outcome never changes.                                *)
(***************************************************************************)
CONSTANT Ops

VARIABLE phase   \* [Ops -> Phases]

Outcomes == {"Completed", "Failed", "Cancelled"}
Phases == {"Absent", "Pending", "Running"} \cup Outcomes

Advance ==
  {<<"Absent", "Pending">>}
    \cup ({"Pending"} \X {"Running", "Cancelled", "Failed"})
    \cup ({"Running"} \X Outcomes)

LifecycleInit == phase = [op \in Ops |-> "Absent"]

\* The operations whose outcome is dropped by this step: at most one.
Forgotten == {op \in Ops : phase[op] \in Outcomes /\ phase'[op] = "Absent"}

ForgetsAtMostOne == \A a, b \in Forgotten : a = b

Step(op) ==
  /\ phase' \in [Ops -> Phases]
  /\ <<phase[op], phase'[op]>> \in Advance
  /\ \A other \in Ops \ {op} : phase'[other] = phase[other] \/ other \in Forgotten
  /\ ForgetsAtMostOne

Forget ==
  /\ phase' \in [Ops -> Phases]
  /\ \A op \in Ops : phase'[op] = phase[op] \/ op \in Forgotten
  /\ ForgetsAtMostOne

LifecycleNext == Forget \/ \E op \in Ops : Step(op)

LifecycleSpec == LifecycleInit /\ [][LifecycleNext]_phase
=============================================================================
