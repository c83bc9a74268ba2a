----------------------------- MODULE SideEffect ------------------------------
(***************************************************************************)
(* What a durable backend promises about one desktop side effect, whatever *)
(* crashes and failures happen: the effect is put in place only under a    *)
(* record, and the record is forgotten only once the effect is gone.  So   *)
(* "off" and the shutdown restore, which both do nothing without a record, *)
(* can always undo what the daemon did.                                    *)
(***************************************************************************)
VARIABLES recorded, applied

vars == <<recorded, applied>>

Init == recorded = FALSE /\ applied = FALSE

Record == ~recorded /\ recorded' = TRUE /\ UNCHANGED applied
Apply == recorded /\ applied' = TRUE /\ UNCHANGED recorded
Withdraw == recorded /\ applied' = FALSE /\ UNCHANGED recorded
Forget == ~applied /\ recorded' = FALSE /\ UNCHANGED applied

Next == Record \/ Apply \/ Withdraw \/ Forget

Spec == Init /\ [][Next]_vars
=============================================================================
