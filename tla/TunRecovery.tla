----------------------------- MODULE TunRecovery -----------------------------
(***************************************************************************)
(* The TUN device, its durable record and the daemon that engages,         *)
(* releases and recovers it (DurableTunBackend over LinuxTunCommandBackend,*)
(* tun_restore_first).  It has the shape of ProxyRecovery, with one piece  *)
(* of state more: `owned`, the handle in the daemon's memory without which *)
(* the inner backend has nothing to release.                               *)
(*                                                                         *)
(* A device that the running core holds counts as engaged when adopted and *)
(* as released when the deletion finds it busy: the core removes it.       *)
(***************************************************************************)
EXTENDS RecoveryStore

CONSTANTS
  TunFaults,      \* which of "persist", "clear", "load", "engage", "cleanup", "release" may fail
  MaxTunBoots     \* bound: daemon instances, each with a fresh owner token

ASSUME TunFaultsAssumption ==
  TunFaults \subseteq {"persist", "clear", "load", "engage", "cleanup", "release"}
ASSUME TunBootsAssumption == MaxTunBoots \in Nat

VARIABLES
  device,         \* caly's interface exists
  tunRecord,      \* the durable record, a set of at most one
  tunDaemon,      \* the daemon's place in the code, its token, its handle
  orphan          \* history: no handle leads to this device and the record is this
                  \* daemon's to clear: a failed release gave the handle up, or a
                  \* failed engagement could not delete what it had made

tunVars == <<device, tunRecord, tunDaemon, orphan>>

TunRecords == [owner : 1..MaxTunBoots, phase : Phases]
TunPlaces == {"down", "gate", "replay", "own", "idle", "apply", "unwind", "release", "clear"}
TunDaemons == [at : TunPlaces, token : 0..MaxTunBoots, owned : BOOLEAN, existing : BOOLEAN,
               stop : {"no", "restoring", "restored"}]

TunInit ==
  /\ device = FALSE
  /\ tunRecord = {}
  /\ tunDaemon = [at |-> "down", token |-> 0, owned |-> FALSE, existing |-> FALSE,
                  stop |-> "no"]
  /\ orphan = FALSE

TunAt(place) == tunDaemon.at = place
TunGoto(place) == tunDaemon' = [tunDaemon EXCEPT !.at = place]

TunReturned ==
  [tunDaemon EXCEPT
     !.at = "idle", !.existing = FALSE,
     !.stop = IF tunDaemon.stop = "restoring" THEN "restored" ELSE tunDaemon.stop]

-----------------------------------------------------------------------------
(* LinuxTunCommandBackend::set_tun(true) over engage_with: at once when the *)
(* handle is held; otherwise a stale device is deleted and made anew.  A    *)
(* failure has deleted the old device or not even that, or it leaves the    *)
(* new one: the unprivileged clean-up may fail and its result is ignored.   *)
InnerEngages == device' = TRUE /\ orphan' = FALSE
RecordIsOwn == \A r \in tunRecord : r.owner = tunDaemon.token
InnerEngageFails ==
  /\ "engage" \in TunFaults
  /\ ~tunDaemon.owned
  /\ \/ device' \in {device, FALSE} /\ orphan' = (orphan /\ device')
     \/ "cleanup" \in TunFaults /\ device' = TRUE /\ orphan' = RecordIsOwn

(* LinuxTunCommandBackend::set_tun(false): the handle is taken first, and   *)
(* without one there is nothing to release.                                 *)
InnerReleases == device' = (device /\ ~tunDaemon.owned) /\ UNCHANGED orphan
InnerReleaseFails ==
  /\ "release" \in TunFaults
  /\ tunDaemon.owned
  /\ orphan' = TRUE
  /\ UNCHANGED device

-----------------------------------------------------------------------------
TunBoot ==
  /\ TunAt("down")
  /\ tunDaemon.token < MaxTunBoots
  /\ tunDaemon' = [at |-> "gate", token |-> tunDaemon.token + 1, owned |-> FALSE,
                   existing |-> FALSE, stop |-> "no"]
  /\ UNCHANGED <<device, tunRecord, orphan>>

(* tun_restore_first under restore_or_degrade.                             *)
TunNothingPending ==
  /\ TunAt("gate")
  /\ tunRecord = {} \/ TunFaults \cap {"load", "persist"} # {}
  /\ TunGoto("idle")
  /\ UNCHANGED <<device, tunRecord, orphan>>

TunMarkRestoring ==
  /\ TunAt("gate")
  /\ tunRecord # {}
  /\ tunRecord' = {MarkRestoring(r) : r \in tunRecord}
  /\ TunGoto("replay")
  /\ UNCHANGED <<device, orphan>>

TunReplayApplies ==
  /\ TunAt("replay")
  /\ InnerEngages
  /\ tunDaemon' = [tunDaemon EXCEPT !.at = "own", !.owned = TRUE]
  /\ UNCHANGED tunRecord

TunReplayFails ==
  /\ TunAt("replay")
  /\ InnerEngageFails
  /\ TunGoto("idle")
  /\ UNCHANGED tunRecord

TunOwns ==
  /\ TunAt("own")
  /\ tunRecord' = {TakeOwnership(r, tunDaemon.token) : r \in tunRecord}
  /\ TunGoto("idle")
  /\ UNCHANGED <<device, orphan>>

TunOwnFails ==
  /\ TunAt("own")
  /\ "persist" \in TunFaults
  /\ TunGoto("idle")
  /\ UNCHANGED <<device, tunRecord, orphan>>

-----------------------------------------------------------------------------
(* DurableTunBackend::set_tun(true).                                       *)
TunPersists ==
  /\ TunAt("idle")
  /\ tunRecord = {}
  /\ tunRecord' = {[owner |-> tunDaemon.token, phase |-> "Applied"]}
  /\ tunDaemon' = [tunDaemon EXCEPT !.at = "apply", !.existing = FALSE]
  /\ UNCHANGED <<device, orphan>>

TunEngageAgain ==
  /\ TunAt("idle")
  /\ tunRecord # {}
  /\ tunDaemon' = [tunDaemon EXCEPT !.at = "apply", !.existing = TRUE]
  /\ UNCHANGED <<device, tunRecord, orphan>>

TunApplies ==
  /\ TunAt("apply")
  /\ InnerEngages
  /\ tunDaemon' = [TunReturned EXCEPT !.owned = TRUE]
  /\ UNCHANGED tunRecord

TunApplyFails ==
  /\ TunAt("apply")
  /\ InnerEngageFails
  /\ tunDaemon' = IF tunDaemon.existing THEN TunReturned
                  ELSE [tunDaemon EXCEPT !.at = "unwind"]
  /\ UNCHANGED tunRecord

TunClearRecord(place) ==
  /\ TunAt(place)
  /\ \/ tunRecord' = ClearIfOwner(tunRecord, tunDaemon.token)
     \/ "clear" \in TunFaults /\ UNCHANGED tunRecord
  /\ tunDaemon' = TunReturned
  /\ UNCHANGED <<device, orphan>>

TunUnwinds == TunClearRecord("unwind")

-----------------------------------------------------------------------------
(* release_recorded_tun, from set_tun(false) or from the shutdown.         *)
TunOff ==
  /\ TunAt("idle")
  /\ tunRecord # {}
  /\ TunGoto("release")
  /\ UNCHANGED <<device, tunRecord, orphan>>

TunShutdown ==
  /\ TunAt("idle")
  /\ tunDaemon.stop = "no"
  /\ tunDaemon' = IF tunRecord = {} THEN [tunDaemon EXCEPT !.stop = "restored"]
                  ELSE [tunDaemon EXCEPT !.at = "release", !.stop = "restoring"]
  /\ UNCHANGED <<device, tunRecord, orphan>>

TunReleases ==
  /\ TunAt("release")
  /\ InnerReleases
  /\ tunDaemon' = [tunDaemon EXCEPT !.at = "clear", !.owned = FALSE]
  /\ UNCHANGED tunRecord

TunReleaseFails ==
  /\ TunAt("release")
  /\ InnerReleaseFails
  /\ tunDaemon' = [TunReturned EXCEPT !.owned = FALSE]
  /\ UNCHANGED tunRecord

TunReleaseClears == TunClearRecord("clear")

TunExit ==
  /\ TunAt("idle")
  /\ tunDaemon.stop = "restored"
  /\ tunDaemon' = [tunDaemon EXCEPT !.at = "down", !.owned = FALSE]
  /\ UNCHANGED <<device, tunRecord, orphan>>

(* The daemon is killed, possibly halfway through engaging or releasing.   *)
TunCrash ==
  /\ ~TunAt("down")
  /\ device' \in {device} \union (IF TunAt("replay") \/ TunAt("apply") THEN BOOLEAN ELSE {})
  /\ orphan' = (orphan /\ device')
  /\ tunDaemon' = [tunDaemon EXCEPT !.at = "down", !.owned = FALSE, !.stop = "no"]
  /\ UNCHANGED tunRecord

TunNext ==
  \/ TunBoot \/ TunNothingPending \/ TunMarkRestoring \/ TunReplayApplies
  \/ TunReplayFails \/ TunOwns \/ TunOwnFails
  \/ TunPersists \/ TunEngageAgain \/ TunApplies \/ TunApplyFails \/ TunUnwinds
  \/ TunOff \/ TunShutdown \/ TunReleases \/ TunReleaseFails \/ TunReleaseClears
  \/ TunExit \/ TunCrash

TunSpec == TunInit /\ [][TunNext]_tunVars

-----------------------------------------------------------------------------
TunTypeOK ==
  /\ device \in BOOLEAN
  /\ tunRecord \in {{}} \union {{r} : r \in TunRecords}
  /\ tunDaemon \in TunDaemons
  /\ orphan \in BOOLEAN

(* The handle is the only way to release the device in this process: while *)
(* it is held, the device is there and the record still names it.          *)
OwnedIsRecorded == tunDaemon.owned => device /\ tunRecord # {}

(* A running daemon has drawn a token, no record names one not drawn yet,  *)
(* and inside a call there is a record.  A device on the way up or down is *)
(* what the call takes it for: a first engagement and its unwinding start  *)
(* from none but an orphan, and a device without a handle is under the     *)
(* record of an earlier daemon, which this daemon's clear leaves alone.    *)
TunCallsKnow ==
  /\ tunDaemon.at \in {"replay", "own", "apply", "unwind", "release", "clear"} => tunRecord # {}
  /\ TunAt("down") \/ tunDaemon.token > 0
  /\ \A r \in tunRecord : r.owner <= tunDaemon.token
  /\ device /\ ~orphan =>
       /\ tunRecord # {}
       /\ ~TunAt("unwind") /\ ~(TunAt("apply") /\ ~tunDaemon.existing)
       /\ TunAt("down") \/ tunDaemon.owned \/ \A r \in tunRecord : r.owner # tunDaemon.token
  /\ TunAt("apply") /\ ~tunDaemon.existing => RecordIsOwn
  /\ TunAt("own") => tunDaemon.owned
  /\ TunAt("down") \/ TunAt("clear") \/ TunAt("unwind") => ~tunDaemon.owned

(* The invariant of the TUN handle: the types, at most one record, a held  *)
(* handle always backed by the device and its record, and what each step of *)
(* a call relies on.                                                       *)
TunInv == TunTypeOK /\ OwnedIsRecorded /\ TunCallsKnow

(* The detailed backend keeps the promise of a durable side effect: no     *)
(* device without a record, whatever fails and wherever the daemon is      *)
(* killed, except for a device whose failed release gave its handle up or  *)
(* that a failed engagement could not delete again.                        *)
TunEffect == INSTANCE SideEffect
  WITH recorded <- tunRecord # {}, applied <- device /\ ~orphan
TunKeepsPromise == TunEffect!Spec
=============================================================================
