---------------------------- MODULE RecoveryStore ----------------------------
(***************************************************************************)
(* The durable record of one platform side effect, as FileRecoveryStore    *)
(* keeps it: at most one record, replaced whole and atomically, removed    *)
(* only on behalf of the daemon whose token it carries.  The record is a   *)
(* set of at most one element, so that "no record" needs no special value. *)
(***************************************************************************)
EXTENDS Integers

Phases == {"Applied", "Restoring"}

(* clear_if_owner, when the file system does not fail: the record of       *)
(* another token is refused and stays.                                     *)
ClearIfOwner(stored, token) == {r \in stored : r.owner # token}

MarkRestoring(r) == [r EXCEPT !.phase = "Restoring"]

(* Mutant: the crashed instance's token is left in the record.             *)
TakeOwnership_KeepsToken(r, token) == [r EXCEPT !.phase = "Applied"]

(* The end of restore-first: the running daemon takes the record over.     *)
TakeOwnership(r, token) == [r EXCEPT !.owner = token, !.phase = "Applied"]
=============================================================================
