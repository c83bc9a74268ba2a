---------------------------- MODULE ProxyRecovery ----------------------------
(***************************************************************************)
(* The system proxy of a GNOME desktop, its durable record, and the daemon *)
(* that engages, reverts and recovers it (DurableSystemProxyBackend over   *)
(* LinuxSystemProxyBackend, proxy_restore_first, the boot gate and the     *)
(* shutdown phase).  A step ends where something outside the daemon has    *)
(* changed: a write of the record, a sequence of gsettings commands.  The  *)
(* daemon may be killed between any two steps, and between two commands.   *)
(*                                                                         *)
(* Faults names what may fail: "persist" and "clear" the record's write    *)
(* and removal, "load" its read at boot, "capture" the reading of the      *)
(* desktop, "apply" and "restore" the first command of a sequence, and     *)
(* "partial" a later command of an engaging sequence.                      *)
(***************************************************************************)
EXTENDS RecoveryStore, Sequences

CONSTANTS
  Faults,
  MaxBoots        \* bound: daemon instances, each with a fresh owner token

ASSUME FaultsAssumption ==
  Faults \subseteq {"persist", "clear", "load", "capture", "apply", "restore", "partial"}
ASSUME BootsAssumption == MaxBoots \in Nat

VARIABLES
  desktop,        \* the gsettings keys: mode, endpoint, autoconfig url
  record,         \* the durable record, a set of at most one
  daemon,         \* the daemon's place in the code, its token, its choices
  users,          \* history: the setting the user last chose
  spoilt          \* history: the user's setting was unreadable, was replaced in part
                  \* by a first engagement that failed, or was an empty PAC URL,
                  \* which a reversal does not write back

proxyVars == <<desktop, record, daemon, users, spoilt>>

(* A key holds what the user wrote, caly's value, or nothing.              *)
Keys == {"user", "caly", "empty"}
ProxyModes == {"none", "manual", "auto"}
Desktops == [mode : ProxyModes, endpoint : Keys, url : Keys]
UserDesktops == [mode : ProxyModes, endpoint : {"user", "empty"}, url : {"user", "empty"}]

(* What a capture finds: the mode and the key the mode uses.               *)
Settings == (ProxyModes \X Keys) \union {<<"unknown", "empty">>}

Reads(d) == CASE d.mode = "manual" -> <<"manual", d.endpoint>>
              [] d.mode = "auto" -> <<"auto", d.url>>
              [] OTHER -> <<"none", "empty">>

(* A setting as applications see it: without an endpoint, manual is none.  *)
Seen(setting) == IF setting = <<"manual", "empty">> THEN <<"none", "empty">> ELSE setting
Shows(d) == Seen(Reads(d))
UserSettings == {<<"none", "empty">>, <<"manual", "user">>, <<"auto", "user">>, <<"auto", "empty">>}

Records == [owner : 1..MaxBoots, phase : Phases, pac : BOOLEAN, original : Settings]

ProxyPlaces == {"down", "gate", "replay", "own", "bootproxy", "idle", "apply", "unwind",
           "revert", "clear"}
Stopping == {"no", "restoring", "restored"}
Daemons == [at : ProxyPlaces, token : 0..MaxBoots, pac : BOOLEAN, existing : BOOLEAN,
            stop : Stopping, took : BOOLEAN]

-----------------------------------------------------------------------------
(* The states the desktop goes through while one sequence of gsettings     *)
(* commands runs: the first is untouched, the last is the finished one, and *)
(* a command that fails leaves the one before it.                          *)

(* gnome::apply(enabled) and gnome::apply_pac.                             *)
Engaging(d, pac) ==
  IF pac THEN << d, [d EXCEPT !.url = "caly"], [d EXCEPT !.url = "caly", !.mode = "auto"] >>
         ELSE << d, [d EXCEPT !.endpoint = "caly"],
                 [d EXCEPT !.endpoint = "caly", !.mode = "manual"] >>

(* gnome::restore: an unreadable original is left alone, an empty key is    *)
(* not written, and manual without an endpoint becomes none.               *)
Restoring(d, original) ==
  CASE original[1] = "manual" /\ original[2] # "empty" ->
         << d, [d EXCEPT !.endpoint = original[2]],
               [d EXCEPT !.endpoint = original[2], !.mode = "manual"] >>
    [] original[1] = "auto" /\ original[2] # "empty" ->
         << d, [d EXCEPT !.url = original[2]],
               [d EXCEPT !.url = original[2], !.mode = "auto"] >>
    [] original = <<"auto", "empty">> -> << d, [d EXCEPT !.mode = "auto"] >>
    [] original[1] = "unknown" -> << d >>
    [] OTHER -> << d, [d EXCEPT !.mode = "none"] >>

Finished(states) == states[Len(states)]

Through(states) == {states[i] : i \in 1..Len(states)}

(* Where an engaging sequence may stop on an error.                        *)
EngageStops(states) ==
  {states[i] : i \in {j \in 1..Len(states) - 1 :
                        IF j = 1 THEN "apply" \in Faults ELSE "partial" \in Faults}}

(* A reverting sequence keeps the record when it fails, wherever it stops. *)
RestoreStops(states) ==
  {states[i] : i \in {j \in 1..Len(states) - 1 : "restore" \in Faults}}

(* capture_original_state: a mode that cannot be read is unknown, a key     *)
(* that cannot be read is taken for an empty one.                          *)
Captures(d) ==
  {Reads(d)} \union (IF "capture" \in Faults THEN {<<"unknown", "empty">>, <<d.mode, "empty">>} ELSE {})

-----------------------------------------------------------------------------
ProxyInit ==
  /\ desktop \in UserDesktops
  /\ record = {}
  /\ daemon = [at |-> "down", token |-> 0, pac |-> FALSE, existing |-> FALSE,
               stop |-> "no", took |-> FALSE]
  /\ users = Shows(desktop)
  /\ spoilt = FALSE

At(place) == daemon.at = place
Goto(place) == daemon' = [daemon EXCEPT !.at = place]

(* A call on the shared backend returns; the daemon's mutex is free again. *)
Returned ==
  [daemon EXCEPT !.at = "idle", !.pac = FALSE, !.existing = FALSE,
                 !.stop = IF daemon.stop = "restoring" THEN "restored" ELSE daemon.stop]

(* DurableSystemProxyBackend::new: a fresh token, then the boot gate.      *)
BootGate ==
  /\ At("down")
  /\ daemon.token < MaxBoots
  /\ daemon' = [at |-> "gate", token |-> daemon.token + 1, pac |-> FALSE,
                existing |-> FALSE, stop |-> "no", took |-> FALSE]
  /\ UNCHANGED <<desktop, record, users, spoilt>>

(* proxy_restore_first: no record, a failed load, or the record is marked. *)
GateNothingPending ==
  /\ At("gate")
  /\ record = {} \/ Faults \cap {"load", "persist"} # {}
  /\ Goto("bootproxy")
  /\ UNCHANGED <<desktop, record, users, spoilt>>

GateMarkRestoring ==
  /\ At("gate")
  /\ record # {}
  /\ record' = {MarkRestoring(r) : r \in record}
  /\ Goto("replay")
  /\ UNCHANGED <<desktop, users, spoilt>>

(* restore_proxy: the record's mode is engaged again.                      *)
ReplayApplies ==
  /\ At("replay")
  /\ \E r \in record : desktop' = Finished(Engaging(desktop, r.pac))
  /\ Goto("own")
  /\ UNCHANGED <<record, users, spoilt>>

(* restore_or_degrade: the daemon goes on, the record stays as it is.      *)
ReplayFails ==
  /\ At("replay")
  /\ \E r \in record : desktop' \in EngageStops(Engaging(desktop, r.pac))
  /\ Goto("bootproxy")
  /\ UNCHANGED <<record, users, spoilt>>

(* Mutant: the replayed record is removed, as an earlier version did.      *)
Owns_Forgets ==
  /\ At("own")
  /\ record' = {}
  /\ daemon' = [daemon EXCEPT !.at = "idle", !.took = TRUE]
  /\ UNCHANGED <<desktop, users, spoilt>>

Owns ==
  /\ At("own")
  /\ record' = {TakeOwnership(r, daemon.token) : r \in record}
  /\ daemon' = [daemon EXCEPT !.at = "idle", !.took = TRUE]
  /\ UNCHANGED <<desktop, users, spoilt>>

OwnFails ==
  /\ At("own")
  /\ "persist" \in Faults
  /\ Goto("bootproxy")
  /\ UNCHANGED <<desktop, record, users, spoilt>>

(* boot_system_proxy after NothingPending: the configuration may not ask   *)
(* for the proxy.                                                          *)
BootWithoutProxy ==
  /\ At("bootproxy")
  /\ Goto("idle")
  /\ UNCHANGED <<desktop, record, users, spoilt>>

-----------------------------------------------------------------------------
(* set_system_proxy(true) and set_system_proxy_pac, from a command or from *)
(* boot_system_proxy.  An existing record is kept as it is.                *)
NewRecord(pac, original) ==
  [owner |-> daemon.token, phase |-> "Applied", pac |-> pac, original |-> original]

MayEngage(pac) == At("idle") \/ (At("bootproxy") /\ ~pac)

EngagePersists ==
  \E pac \in BOOLEAN :
    /\ MayEngage(pac)
    /\ record = {}
    /\ \E original \in Captures(desktop) :
         /\ record' = {NewRecord(pac, original)}
         /\ spoilt' = (spoilt \/ Seen(original) # Shows(desktop))
    /\ daemon' = [daemon EXCEPT !.at = "apply", !.pac = pac, !.existing = FALSE]
    /\ UNCHANGED <<desktop, users>>

EngagePersistFails ==
  /\ At("bootproxy")
  /\ record = {}
  /\ "persist" \in Faults
  /\ daemon' = Returned
  /\ UNCHANGED <<desktop, record, users, spoilt>>

EngageAgain ==
  \E pac \in BOOLEAN :
    /\ MayEngage(pac)
    /\ record # {}
    /\ daemon' = [daemon EXCEPT !.at = "apply", !.pac = pac, !.existing = TRUE]
    /\ UNCHANGED <<desktop, record, users, spoilt>>

EngageApplies ==
  /\ At("apply")
  /\ desktop' = Finished(Engaging(desktop, daemon.pac))
  /\ daemon' = Returned
  /\ UNCHANGED <<record, users, spoilt>>

(* A failed re-engagement keeps the record; a failed first one clears it.  *)
EngageFails ==
  /\ At("apply")
  /\ desktop' \in EngageStops(Engaging(desktop, daemon.pac))
  /\ daemon' = IF daemon.existing THEN Returned ELSE [daemon EXCEPT !.at = "unwind"]
  /\ spoilt' = (spoilt \/ (~daemon.existing /\ desktop' # desktop))
  /\ UNCHANGED <<record, users>>

(* clear_record: a failed removal is only logged.                          *)
ClearRecord(place) ==
  /\ At(place)
  /\ \/ record' = ClearIfOwner(record, daemon.token)
     \/ "clear" \in Faults /\ UNCHANGED record
  /\ daemon' = Returned
  /\ UNCHANGED <<desktop, users, spoilt>>

EngageUnwinds == ClearRecord("unwind")

-----------------------------------------------------------------------------
(* restore_recorded_state, from set_system_proxy(false) or from the        *)
(* RestorePlatform phase of the shutdown.  Without a record both return.   *)
Off ==
  /\ At("idle")
  /\ record # {}
  /\ Goto("revert")
  /\ UNCHANGED <<desktop, record, users, spoilt>>

Shutdown ==
  /\ At("idle")
  /\ daemon.stop = "no"
  /\ daemon' = IF record = {} THEN [daemon EXCEPT !.stop = "restored"]
               ELSE [daemon EXCEPT !.at = "revert", !.stop = "restoring"]
  /\ UNCHANGED <<desktop, record, users, spoilt>>

Reverts ==
  /\ At("revert")
  /\ \E r \in record :
       /\ desktop' = Finished(Restoring(desktop, r.original))
       /\ spoilt' = (spoilt \/ (r.original = <<"auto", "empty">> /\ desktop.url # "empty"))
  /\ Goto("clear")
  /\ UNCHANGED <<record, users>>

RevertFails ==
  /\ At("revert")
  /\ \E r \in record : desktop' \in RestoreStops(Restoring(desktop, r.original))
  /\ daemon' = Returned
  /\ UNCHANGED <<record, users, spoilt>>

RevertClears == ClearRecord("clear")

(* The actors are still running after the restore: commands already queued *)
(* run until the task group ends, and then the process exits.              *)
Exit ==
  /\ At("idle")
  /\ daemon.stop = "restored"
  /\ Goto("down")
  /\ UNCHANGED <<desktop, record, users, spoilt>>

-----------------------------------------------------------------------------
(* The daemon is killed; a command sequence may have been under way.       *)
UnderWay ==
  CASE At("replay") -> UNION {Through(Engaging(desktop, r.pac)) : r \in record}
    [] At("apply") -> Through(Engaging(desktop, daemon.pac))
    [] At("revert") -> UNION {Through(Restoring(desktop, r.original)) : r \in record}
    [] OTHER -> {desktop}

Crash ==
  /\ ~At("down")
  /\ desktop' \in UnderWay
  /\ daemon' = [daemon EXCEPT !.at = "down", !.stop = "no"]
  /\ UNCHANGED <<record, users, spoilt>>

(* The user sets the desktop proxy while caly has no part in it.           *)
UserSets ==
  /\ record = {}
  /\ desktop' \in UserDesktops
  /\ users' = Shows(desktop')
  /\ spoilt' = FALSE
  /\ UNCHANGED <<record, daemon>>

ProxyNext ==
  \/ BootGate \/ GateNothingPending \/ GateMarkRestoring \/ ReplayApplies \/ ReplayFails
  \/ Owns \/ OwnFails \/ BootWithoutProxy
  \/ EngagePersists \/ EngagePersistFails \/ EngageAgain \/ EngageApplies \/ EngageFails
  \/ EngageUnwinds
  \/ Off \/ Shutdown \/ Reverts \/ RevertFails \/ RevertClears \/ Exit
  \/ Crash \/ UserSets

ProxySpec == ProxyInit /\ [][ProxyNext]_proxyVars

-----------------------------------------------------------------------------
ProxyTypeOK ==
  /\ desktop \in Desktops
  /\ record \in {{}} \union {{r} : r \in Records}
  /\ daemon \in Daemons
  /\ users \in Settings
  /\ spoilt \in BOOLEAN

(* A record holds the user's own setting as the original, never caly's     *)
(* proxy taken for it by an engagement that found the proxy already there: *)
(* switching between endpoint and PAC keeps the first record.              *)
RecordHoldsOriginal == ~spoilt => \A r \in record : Seen(r.original) = users

(* A running daemon has drawn a token.  Inside a call there is a record.   *)
(* Without one, before a first engagement has written, and once a reversal *)
(* or an unwinding has only the record to clear, the desktop shows what    *)
(* the user chose.  Before the gate has run this daemon has taken no record *)
(* over.                                                                   *)
ProxyCallsKnow ==
  /\ users \in UserSettings
  /\ At("down") \/ daemon.token > 0
  /\ daemon.at \in {"replay", "own", "apply", "unwind", "revert", "clear"} => record # {}
  /\ ~spoilt /\ (record = {} \/ At("unwind") \/ At("clear") \/ (At("apply") /\ ~daemon.existing))
       => Shows(desktop) = users
  /\ daemon.at \in {"gate", "replay", "own", "bootproxy"} => ~daemon.took

(* The invariant of the proxy's record: at most one, of the right type, with *)
(* the user's setting in it through every engagement and recovery, and what *)
(* each step of a call relies on.                                          *)
ProxyInv == ProxyTypeOK /\ RecordHoldsOriginal /\ ProxyCallsKnow

(* A daemon whose restore-first succeeded owns the record it replayed, so  *)
(* its own clear is not refused (proxy_restore_first).                     *)
RecoveredIsOwned ==
  daemon.took => \A r \in record : r.owner = daemon.token /\ r.phase = "Applied"

(* The detailed backend keeps the promise of a durable side effect: the    *)
(* desktop differs from what the user chose only under a record, without   *)
(* which "off" and the shutdown restore would do nothing.                  *)
Effect == INSTANCE SideEffect
  WITH recorded <- record # {}, applied <- ~spoilt /\ Shows(desktop) # users
KeepsPromise == Effect!Spec
=============================================================================
