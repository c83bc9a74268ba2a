---------------------------- MODULE OwnersProofs ----------------------------
(***************************************************************************)
(* Theorems about the system proxy and the TUN device with their durable   *)
(* records.  Each has one lemma per action or group of like actions, which *)
(* says that it keeps the invariant and which step of SideEffect it is.    *)
(***************************************************************************)
EXTENDS MCOwners, TLAPS

-----------------------------------------------------------------------------
(***************************************************************************)
(* The TUN device.                                                         *)
(***************************************************************************)
LEMMA TunGotoTyped ==
    ASSUME tunDaemon \in TunDaemons, NEW place \in TunPlaces, TunGoto(place)
    PROVE  /\ tunDaemon' \in TunDaemons
           /\ tunDaemon'.at = place
           /\ tunDaemon'.token = tunDaemon.token
           /\ tunDaemon'.owned = tunDaemon.owned
           /\ tunDaemon'.existing = tunDaemon.existing
<1>1. tunDaemon' \in TunDaemons
  BY Zenon DEF TunDaemons, TunGoto
<1>2. tunDaemon'.at = place /\ tunDaemon'.token = tunDaemon.token
  BY Zenon DEF TunDaemons, TunGoto
<1>3. tunDaemon'.owned = tunDaemon.owned
  BY Zenon DEF TunDaemons, TunGoto
<1>4. tunDaemon'.existing = tunDaemon.existing
  BY Zenon DEF TunDaemons, TunGoto
<1> QED BY <1>1, <1>2, <1>3, <1>4, Zenon

LEMMA TunReturnedTyped ==
    ASSUME tunDaemon \in TunDaemons
    PROVE  /\ TunReturned \in TunDaemons
           /\ TunReturned.at = "idle"
           /\ TunReturned.token = tunDaemon.token
           /\ TunReturned.owned = tunDaemon.owned
<1>1. TunReturned \in TunDaemons
  BY Zenon DEF TunDaemons, TunReturned, TunPlaces
<1>2. TunReturned.at = "idle" /\ TunReturned.token = tunDaemon.token
  BY Zenon DEF TunDaemons, TunReturned
<1>3. TunReturned.owned = tunDaemon.owned
  BY Zenon DEF TunDaemons, TunReturned
<1> QED BY <1>1, <1>2, <1>3, Zenon

LEMMA OwnedTyped ==
    ASSUME NEW d \in TunDaemons, NEW b \in BOOLEAN
    PROVE  /\ [d EXCEPT !.owned = b] \in TunDaemons
           /\ [d EXCEPT !.owned = b].at = d.at
           /\ [d EXCEPT !.owned = b].token = d.token
           /\ [d EXCEPT !.owned = b].owned = b
           /\ [d EXCEPT !.owned = b].existing = d.existing
<1>1. [d EXCEPT !.owned = b] \in TunDaemons
  BY Zenon DEF TunDaemons
<1>2. [d EXCEPT !.owned = b].at = d.at /\ [d EXCEPT !.owned = b].token = d.token
  BY Zenon DEF TunDaemons
<1>3. [d EXCEPT !.owned = b].owned = b
  BY Zenon DEF TunDaemons
<1>4. [d EXCEPT !.owned = b].existing = d.existing
  BY Zenon DEF TunDaemons
<1> QED BY <1>1, <1>2, <1>3, <1>4, Zenon

LEMMA TunMarkTyped ==
    ASSUME NEW r \in TunRecords
    PROVE  MarkRestoring(r) \in TunRecords /\ MarkRestoring(r).owner = r.owner
BY Zenon DEF TunRecords, MarkRestoring, Phases

LEMMA TunTakeTyped ==
    ASSUME NEW r \in TunRecords, NEW t \in 1..MaxTunBoots
    PROVE  TakeOwnership(r, t) \in TunRecords /\ TakeOwnership(r, t).owner = t
BY Zenon DEF TunRecords, TakeOwnership, Phases

\* The abstract step that a step of the backend is, as a fact about whether
\* there is a record and whether there is a device the daemon answers for.
TunThere == device /\ ~orphan

LEMMA TunAbstractStep ==
    ASSUME \/ /\ tunRecord' = {} <=> tunRecord = {}
              /\ TunThere' <=> TunThere
           \/ /\ tunRecord = {} /\ tunRecord' # {}
              /\ TunThere' <=> TunThere
           \/ tunRecord # {} /\ tunRecord' # {}
           \/ ~TunThere /\ ~TunThere' /\ tunRecord' = {}
    PROVE  [TunEffect!Next]_(TunEffect!vars)
<1>1. CASE (tunRecord' = {} <=> tunRecord = {}) /\ (TunThere' <=> TunThere)
  BY <1>1, Zenon DEF TunEffect!vars, TunThere
<1>2. CASE tunRecord = {} /\ tunRecord' # {} /\ (TunThere' <=> TunThere)
  <2>1. TunEffect!Record
    BY <1>2, Zenon DEF TunEffect!Record, TunThere
  <2> QED BY <2>1, Zenon DEF TunEffect!Next
<1>3. CASE tunRecord # {} /\ tunRecord' # {}
  <2>1. CASE TunThere'
    <3>1. TunEffect!Apply
      BY <1>3, <2>1, Zenon DEF TunEffect!Apply, TunThere
    <3> QED BY <3>1, Zenon DEF TunEffect!Next
  <2>2. CASE ~TunThere'
    <3>1. TunEffect!Withdraw
      BY <1>3, <2>2, Zenon DEF TunEffect!Withdraw, TunThere
    <3> QED BY <3>1, Zenon DEF TunEffect!Next
  <2> QED BY <2>1, <2>2, Zenon
<1>4. CASE ~TunThere /\ ~TunThere' /\ tunRecord' = {}
  <2>1. TunEffect!Forget
    BY <1>4, Zenon DEF TunEffect!Forget, TunThere
  <2> QED BY <2>1, Zenon DEF TunEffect!Next
<1> QED BY <1>1, <1>2, <1>3, <1>4, Zenon

LEMMA TunStarts == TunInit => TunInv /\ TunEffect!Init
<1> SUFFICES ASSUME TunInit PROVE TunInv /\ TunEffect!Init
  BY Zenon
<1>1. TunTypeOK
  <2>1. "down" \in TunPlaces /\ 0 \in 0..MaxTunBoots
    BY TunBootsAssumption DEF TunPlaces
  <2>2. tunDaemon \in TunDaemons
    BY <2>1, Zenon DEF TunInit, TunDaemons
  <2> QED BY <2>2, Zenon DEF TunInit, TunTypeOK
<1>2. OwnedIsRecorded /\ TunCallsKnow
  BY Zenon DEF TunInit, OwnedIsRecorded, TunCallsKnow, TunAt, RecordIsOwn
<1>3. TunEffect!Init
  BY Zenon DEF TunInit, TunEffect!Init
<1> QED BY <1>1, <1>2, <1>3, Zenon DEF TunInv

\* The daemon moves between steps that change nothing outside it.
LEMMA TunMovesKeeps ==
    ASSUME TunInv, UNCHANGED <<device, tunRecord, orphan>>,
           \/ TunBoot \/ TunNothingPending \/ TunOwnFails \/ TunEngageAgain
           \/ TunOff \/ TunShutdown \/ TunExit
    PROVE  TunInv' /\ [TunEffect!Next]_(TunEffect!vars)
<1>1. tunDaemon \in TunDaemons /\ device \in BOOLEAN /\ orphan \in BOOLEAN
  BY Zenon DEF TunInv, TunTypeOK
<1>2. [TunEffect!Next]_(TunEffect!vars)
  BY TunAbstractStep, Zenon DEF TunThere
<1>3. device' = device /\ tunRecord' = tunRecord /\ orphan' = orphan
  BY Zenon
<1>4. CASE TunBoot
  <2>1. tunDaemon.token + 1 \in 0..MaxTunBoots /\ tunDaemon.token + 1 > 0
    BY <1>1, <1>4, TunBootsAssumption DEF TunBoot, TunDaemons
  <2>2. /\ tunDaemon' \in TunDaemons /\ tunDaemon'.at = "gate"
        /\ tunDaemon'.token = tunDaemon.token + 1
    BY <1>4, <2>1, Zenon DEF TunBoot, TunDaemons, TunPlaces
  <2>3. tunDaemon'.owned = FALSE
    BY <1>4, Zenon DEF TunBoot
  <2>4. \A r \in tunRecord : r.owner \in Nat /\ r.owner < tunDaemon'.token
    BY <1>1, <2>2, TunBootsAssumption DEF TunInv, TunTypeOK, TunCallsKnow, TunRecords, TunDaemons
  <2>5. OwnedIsRecorded'
    BY <2>3, Zenon DEF OwnedIsRecorded
  <2>6. TunCallsKnow'
    BY <2>1, <2>2, <2>3, <2>4 DEF TunInv, TunCallsKnow, TunAt, RecordIsOwn
  <2> QED BY <1>2, <1>3, <2>2, <2>5, <2>6, Zenon DEF TunInv, TunTypeOK
<1>5. CASE TunNothingPending \/ TunOwnFails \/ TunOff
  <2>1. PICK place \in {"idle", "release"} :
          /\ TunGoto(place) /\ tunDaemon.at # "down"
          /\ place = "release" => tunRecord # {}
    BY <1>5, Zenon DEF TunNothingPending, TunOwnFails, TunOff, TunAt
  <2>2. /\ tunDaemon' \in TunDaemons
        /\ tunDaemon'.at = place
        /\ tunDaemon'.token = tunDaemon.token
        /\ tunDaemon'.owned = tunDaemon.owned
    BY <1>1, <2>1, TunGotoTyped, Zenon DEF TunPlaces
  <2>3. OwnedIsRecorded'
    BY <2>2, Zenon DEF TunInv, OwnedIsRecorded
  <2>4. TunCallsKnow'
    BY <2>1, <2>2, Zenon DEF TunInv, TunCallsKnow, TunAt, RecordIsOwn
  <2> QED BY <1>2, <1>3, <2>2, <2>3, <2>4, Zenon DEF TunInv, TunTypeOK
<1>6. CASE TunEngageAgain
  <2>1. tunDaemon' = [tunDaemon EXCEPT !.at = "apply", !.existing = TRUE]
    BY <1>6, Zenon DEF TunEngageAgain
  <2>2. /\ tunDaemon' \in TunDaemons
        /\ tunDaemon'.at = "apply"
        /\ tunDaemon'.token = tunDaemon.token
    BY <1>1, <2>1, Zenon DEF TunDaemons, TunPlaces
  <2>3. tunDaemon'.owned = tunDaemon.owned
    BY <1>1, <2>1, Zenon DEF TunDaemons
  <2>4. tunDaemon'.existing = TRUE
    BY <1>1, <2>1, Zenon DEF TunDaemons
  <2>5. OwnedIsRecorded'
    BY <2>3, Zenon DEF TunInv, OwnedIsRecorded
  <2>6. TunCallsKnow'
    BY <1>6, <2>2, <2>3, <2>4 DEF TunEngageAgain, TunInv, TunCallsKnow, TunAt, RecordIsOwn
  <2> QED BY <1>2, <1>3, <2>2, <2>5, <2>6, Zenon DEF TunInv, TunTypeOK
<1>7. CASE TunShutdown
  <2>1. /\ tunDaemon' \in TunDaemons
        /\ tunDaemon'.at = (IF tunRecord = {} THEN "idle" ELSE "release")
        /\ tunDaemon'.token = tunDaemon.token
    BY <1>1, <1>7, Zenon DEF TunShutdown, TunDaemons, TunPlaces, TunAt
  <2>2. tunDaemon'.owned = tunDaemon.owned
    BY <1>1, <1>7, Zenon DEF TunShutdown, TunDaemons
  <2>3. OwnedIsRecorded'
    BY <2>2, Zenon DEF TunInv, OwnedIsRecorded
  <2>4. TunCallsKnow'
    BY <1>7, <2>1, <2>2 DEF TunShutdown, TunInv, TunCallsKnow, TunAt, RecordIsOwn
  <2> QED BY <1>2, <1>3, <2>1, <2>3, <2>4, Zenon DEF TunInv, TunTypeOK
<1>8. CASE TunExit
  <2>1. tunDaemon' = [tunDaemon EXCEPT !.at = "down", !.owned = FALSE]
    BY <1>8, Zenon DEF TunExit
  <2>2. /\ tunDaemon' \in TunDaemons
        /\ tunDaemon'.at = "down"
        /\ tunDaemon'.token = tunDaemon.token
    BY <1>1, <2>1, Zenon DEF TunDaemons, TunPlaces
  <2>3. tunDaemon'.owned = FALSE
    BY <1>1, <2>1, Zenon DEF TunDaemons
  <2>4. OwnedIsRecorded'
    BY <2>3, Zenon DEF OwnedIsRecorded
  <2>5. TunCallsKnow'
    BY <2>2, <2>3, Zenon DEF TunInv, TunCallsKnow, TunAt, RecordIsOwn
  <2> QED BY <1>2, <1>3, <2>2, <2>4, <2>5, Zenon DEF TunInv, TunTypeOK
<1> QED BY <1>2, <1>4, <1>5, <1>6, <1>7, <1>8, Zenon

\* The record changes, the device does not.
LEMMA TunRecordsKeeps ==
    ASSUME TunInv, TunMarkRestoring \/ TunOwns \/ TunPersists
    PROVE  TunInv' /\ [TunEffect!Next]_(TunEffect!vars)
<1>1. tunDaemon \in TunDaemons /\ device \in BOOLEAN /\ orphan \in BOOLEAN
  BY Zenon DEF TunInv, TunTypeOK
<1>2. device' = device /\ orphan' = orphan
  BY Zenon DEF TunMarkRestoring, TunOwns, TunPersists
<1>3. CASE TunMarkRestoring
  <2>1. PICK r \in TunRecords : tunRecord = {r}
    BY <1>3, Zenon DEF TunMarkRestoring, TunInv, TunTypeOK
  <2>2. tunRecord' = {MarkRestoring(r)}
    BY <1>3, <2>1, Zenon DEF TunMarkRestoring
  <2>3. MarkRestoring(r) \in TunRecords /\ MarkRestoring(r).owner = r.owner
    BY TunMarkTyped, Zenon
  <2>4. /\ tunDaemon' \in TunDaemons
        /\ tunDaemon'.at = "replay"
        /\ tunDaemon'.token = tunDaemon.token
        /\ tunDaemon'.owned = tunDaemon.owned
    BY <1>1, <1>3, TunGotoTyped, Zenon DEF TunMarkRestoring, TunPlaces
  <2>5. TunTypeOK'
    BY <1>1, <1>2, <2>2, <2>3, <2>4, Zenon DEF TunTypeOK
  <2>6. OwnedIsRecorded'
    BY <1>2, <2>2, <2>4, Zenon DEF TunInv, OwnedIsRecorded
  <2>7. TunCallsKnow'
    BY <1>2, <1>3, <2>1, <2>2, <2>3, <2>4 DEF TunMarkRestoring, TunInv, TunCallsKnow, TunAt, RecordIsOwn
  <2>8. [TunEffect!Next]_(TunEffect!vars)
    BY <2>1, <2>2, TunAbstractStep, Zenon
  <2> QED BY <2>5, <2>6, <2>7, <2>8, Zenon DEF TunInv
<1>4. CASE TunOwns
  <2>1. PICK r \in TunRecords : tunRecord = {r}
    BY <1>4, Zenon DEF TunOwns, TunAt, TunInv, TunTypeOK, TunCallsKnow
  <2>2. tunRecord' = {TakeOwnership(r, tunDaemon.token)}
    BY <1>4, <2>1, Zenon DEF TunOwns
  <2>3. tunDaemon.token \in 1..MaxTunBoots
    BY <1>1, <1>4, TunBootsAssumption DEF TunOwns, TunAt, TunInv, TunCallsKnow, TunDaemons
  <2>4. /\ TakeOwnership(r, tunDaemon.token) \in TunRecords
        /\ TakeOwnership(r, tunDaemon.token).owner = tunDaemon.token
    BY <2>3, TunTakeTyped, Zenon
  <2>5. /\ tunDaemon' \in TunDaemons
        /\ tunDaemon'.at = "idle"
        /\ tunDaemon'.token = tunDaemon.token
        /\ tunDaemon'.owned = tunDaemon.owned
    BY <1>1, <1>4, TunGotoTyped, Zenon DEF TunOwns, TunPlaces
  <2>6. TunTypeOK'
    BY <1>1, <1>2, <2>2, <2>4, <2>5, Zenon DEF TunTypeOK
  <2>7. OwnedIsRecorded'
    BY <1>2, <2>2, <2>5, Zenon DEF TunInv, OwnedIsRecorded
  <2>8. device /\ ~orphan => tunDaemon.owned
    BY <1>4, Zenon DEF TunOwns, TunAt, TunInv, TunCallsKnow
  <2>9. TunCallsKnow'
    BY <1>1, <1>2, <2>2, <2>3, <2>4, <2>5, <2>8 DEF TunInv, TunCallsKnow, TunAt, RecordIsOwn
  <2>10. [TunEffect!Next]_(TunEffect!vars)
    BY <2>1, <2>2, TunAbstractStep, Zenon
  <2> QED BY <2>6, <2>7, <2>9, <2>10, Zenon DEF TunInv
<1>5. CASE TunPersists
  <2> DEFINE r == [owner |-> tunDaemon.token, phase |-> "Applied"]
  <2>1. tunRecord' = {r} /\ tunRecord = {}
    BY <1>5, Zenon DEF TunPersists
  <2>2. tunDaemon.token \in 1..MaxTunBoots
    BY <1>1, <1>5, TunBootsAssumption DEF TunPersists, TunAt, TunInv, TunCallsKnow, TunDaemons
  <2>3. r \in TunRecords /\ r.owner = tunDaemon.token
    BY <2>2, Zenon DEF TunRecords, Phases
  <2> HIDE DEF r
  <2>4. tunDaemon' = [tunDaemon EXCEPT !.at = "apply", !.existing = FALSE]
    BY <1>5, Zenon DEF TunPersists
  <2>5. /\ tunDaemon' \in TunDaemons
        /\ tunDaemon'.at = "apply"
        /\ tunDaemon'.token = tunDaemon.token
    BY <1>1, <2>4, Zenon DEF TunDaemons, TunPlaces
  <2>6. tunDaemon'.owned = tunDaemon.owned
    BY <1>1, <2>4, Zenon DEF TunDaemons
  <2>7. TunTypeOK'
    BY <1>1, <1>2, <2>1, <2>3, <2>5, Zenon DEF TunTypeOK
  <2>8. ~tunDaemon.owned /\ ~(device /\ ~orphan)
    BY <2>1, Zenon DEF TunInv, OwnedIsRecorded, TunCallsKnow
  <2>9. OwnedIsRecorded'
    BY <2>6, <2>8, Zenon DEF OwnedIsRecorded
  <2>10. TunCallsKnow'
    BY <1>1, <1>2, <2>1, <2>2, <2>3, <2>5, <2>6, <2>8 DEF TunCallsKnow, TunAt, RecordIsOwn
  <2>11. [TunEffect!Next]_(TunEffect!vars)
    BY <1>2, <2>1, TunAbstractStep, Zenon DEF TunThere
  <2> QED BY <2>7, <2>9, <2>10, <2>11, Zenon DEF TunInv
<1> QED BY <1>3, <1>4, <1>5, Zenon

\* The device is put in place, or fails to be, under the record.
LEMMA TunEngagesKeeps ==
    ASSUME TunInv, TunReplayApplies \/ TunReplayFails \/ TunApplies \/ TunApplyFails
    PROVE  TunInv' /\ [TunEffect!Next]_(TunEffect!vars)
<1>1. tunDaemon \in TunDaemons /\ device \in BOOLEAN /\ orphan \in BOOLEAN
  BY Zenon DEF TunInv, TunTypeOK
<1>2. tunRecord' = tunRecord /\ tunRecord # {}
  BY Zenon DEF TunReplayApplies, TunReplayFails, TunApplies, TunApplyFails, TunInv, TunCallsKnow, TunAt, RecordIsOwn
<1>3. [TunEffect!Next]_(TunEffect!vars)
  BY <1>2, TunAbstractStep, Zenon
<1>4. CASE TunReplayApplies \/ TunApplies
  <2>1. device' = TRUE /\ orphan' = FALSE
    BY <1>4, Zenon DEF TunReplayApplies, TunApplies, InnerEngages
  <2>2. /\ tunDaemon' \in TunDaemons
        /\ tunDaemon'.at \in {"own", "idle"}
        /\ tunDaemon'.token = tunDaemon.token
        /\ tunDaemon'.owned = TRUE
    <3>1. CASE TunReplayApplies
      <4>1. tunDaemon' = [[tunDaemon EXCEPT !.at = "own"] EXCEPT !.owned = TRUE]
        BY <1>1, <3>1, Zenon DEF TunReplayApplies, TunDaemons
      <4>2. /\ [tunDaemon EXCEPT !.at = "own"] \in TunDaemons
            /\ [tunDaemon EXCEPT !.at = "own"].at = "own"
            /\ [tunDaemon EXCEPT !.at = "own"].token = tunDaemon.token
        BY <1>1, Zenon DEF TunDaemons, TunPlaces
      <4> QED BY <4>1, <4>2, OwnedTyped, Zenon
    <3>2. CASE TunApplies
      <4>1. tunDaemon' = [TunReturned EXCEPT !.owned = TRUE]
        BY <3>2, Zenon DEF TunApplies
      <4>2. /\ TunReturned \in TunDaemons
            /\ TunReturned.at = "idle"
            /\ TunReturned.token = tunDaemon.token
        BY <1>1, TunReturnedTyped, Zenon
      <4> HIDE DEF TunReturned
      <4> QED BY <4>1, <4>2, OwnedTyped, Zenon
    <3> QED BY <1>4, <3>1, <3>2, Zenon
  <2>3. tunDaemon.token > 0
    BY <1>4, Zenon DEF TunReplayApplies, TunApplies, TunInv, TunCallsKnow, TunAt, RecordIsOwn
  <2>4. TunTypeOK'
    BY <1>2, <2>1, <2>2, Zenon DEF TunInv, TunTypeOK
  <2>5. OwnedIsRecorded'
    BY <1>2, <2>1, Zenon DEF OwnedIsRecorded
  <2>6. TunCallsKnow'
    BY <1>2, <2>2, <2>3, Zenon DEF TunInv, TunCallsKnow, TunAt, RecordIsOwn
  <2> QED BY <1>3, <2>4, <2>5, <2>6, Zenon DEF TunInv
<1>5. CASE TunReplayFails \/ TunApplyFails
  <2>1. /\ ~tunDaemon.owned
        /\ device' \in BOOLEAN /\ orphan' \in BOOLEAN
        /\ device' /\ ~orphan' => (device /\ ~orphan) \/ ~RecordIsOwn
    <3>1. /\ ~tunDaemon.owned
          /\ \/ device' \in {device, FALSE} /\ orphan' = (orphan /\ device')
             \/ device' = TRUE /\ orphan' = RecordIsOwn
      BY <1>5, Zenon DEF TunReplayFails, TunApplyFails, InnerEngageFails
    <3>2. CASE device' = FALSE /\ orphan' = (orphan /\ device')
      BY <3>1, <3>2, Zenon
    <3>3. CASE device' = device /\ orphan' = (orphan /\ device')
      BY <1>1, <3>1, <3>3, Zenon
    <3>4. CASE device' = TRUE /\ orphan' = RecordIsOwn
      BY <3>1, <3>4, Zenon DEF RecordIsOwn
    <3> QED BY <3>1, <3>2, <3>3, <3>4, Zenon
  <2>2. /\ tunDaemon' \in TunDaemons
        /\ tunDaemon'.token = tunDaemon.token
        /\ tunDaemon'.owned = tunDaemon.owned
        /\ \/ tunDaemon'.at = "idle"
           \/ TunAt("apply") /\ ~tunDaemon.existing /\ tunDaemon'.at = "unwind"
    <3>1. CASE TunReplayFails
      BY <1>1, <3>1, TunGotoTyped, Zenon DEF TunReplayFails, TunPlaces
    <3>2. CASE TunApplyFails /\ tunDaemon.existing
      BY <1>1, <3>2, TunReturnedTyped, Zenon DEF TunApplyFails
    <3>3. CASE TunApplyFails /\ ~tunDaemon.existing
      <4>1. TunGoto("unwind") /\ TunAt("apply")
        BY <3>3, Zenon DEF TunApplyFails, TunGoto
      <4> QED BY <1>1, <3>3, <4>1, TunGotoTyped, Zenon DEF TunPlaces
    <3> QED BY <1>5, <3>1, <3>2, <3>3, Zenon
  <2>3. tunDaemon.token > 0
    BY <1>5, Zenon DEF TunReplayFails, TunApplyFails, TunInv, TunCallsKnow, TunAt, RecordIsOwn
  <2>4. ~TunAt("down")
    BY <1>5, Zenon DEF TunReplayFails, TunApplyFails, TunAt
  <2>5. TunTypeOK'
    BY <1>2, <2>1, <2>2, Zenon DEF TunInv, TunTypeOK
  <2>6. OwnedIsRecorded'
    BY <2>1, <2>2, Zenon DEF OwnedIsRecorded
  <2>7. TunCallsKnow'
    <3>1. PICK r \in TunRecords : tunRecord = {r}
      BY <1>2, Zenon DEF TunInv, TunTypeOK
    <3>2. device' /\ ~orphan' => (device /\ ~orphan) \/ r.owner # tunDaemon.token
      BY <2>1, <3>1, Zenon DEF RecordIsOwn
    <3>3. TunAt("apply") /\ ~tunDaemon.existing => r.owner = tunDaemon.token
      BY <3>1, Zenon DEF TunInv, TunCallsKnow, RecordIsOwn
    <3>4. tunDaemon'.at = "idle" \/ tunDaemon'.at = "unwind"
      BY <2>2, Zenon
    <3>5. device' /\ ~orphan' =>
            tunDaemon'.at = "idle" /\ \A q \in tunRecord' : q.owner # tunDaemon'.token
      BY <1>2, <2>1, <2>2, <2>4, <3>1, <3>2, <3>3, Zenon DEF TunInv, TunCallsKnow, TunAt, RecordIsOwn
    <3> QED BY <1>2, <2>1, <2>2, <2>3, <2>4, <3>4, <3>5, Zenon DEF TunInv, TunCallsKnow, TunAt, RecordIsOwn
  <2> QED BY <1>3, <2>5, <2>6, <2>7, Zenon DEF TunInv
<1> QED BY <1>4, <1>5, Zenon

\* A release that fails gives the handle up: the device is an orphan from then on.
LEMMA TunReleasesKeeps ==
    ASSUME TunInv, TunReleases \/ TunReleaseFails
    PROVE  TunInv' /\ [TunEffect!Next]_(TunEffect!vars)
<1>1. tunDaemon \in TunDaemons /\ device \in BOOLEAN /\ orphan \in BOOLEAN
  BY Zenon DEF TunInv, TunTypeOK
<1>2. tunRecord' = tunRecord /\ tunRecord # {} /\ tunDaemon.token > 0 /\ TunAt("release")
  BY Zenon DEF TunReleases, TunReleaseFails, TunInv, TunCallsKnow, TunAt, RecordIsOwn
<1>3. [TunEffect!Next]_(TunEffect!vars)
  BY <1>2, TunAbstractStep, Zenon
<1>4. /\ tunDaemon' \in TunDaemons
      /\ tunDaemon'.at \in {"clear", "idle"}
      /\ tunDaemon'.token = tunDaemon.token
      /\ tunDaemon'.owned = FALSE
  <2>1. CASE TunReleases
    <3>1. tunDaemon' = [[tunDaemon EXCEPT !.at = "clear"] EXCEPT !.owned = FALSE]
      BY <1>1, <2>1, Zenon DEF TunReleases, TunDaemons
    <3>2. /\ [tunDaemon EXCEPT !.at = "clear"] \in TunDaemons
          /\ [tunDaemon EXCEPT !.at = "clear"].at = "clear"
          /\ [tunDaemon EXCEPT !.at = "clear"].token = tunDaemon.token
      BY <1>1, Zenon DEF TunDaemons, TunPlaces
    <3> QED BY <3>1, <3>2, OwnedTyped, Zenon
  <2>2. CASE TunReleaseFails
    <3>1. tunDaemon' = [TunReturned EXCEPT !.owned = FALSE]
      BY <2>2, Zenon DEF TunReleaseFails
    <3>2. /\ TunReturned \in TunDaemons
          /\ TunReturned.at = "idle"
          /\ TunReturned.token = tunDaemon.token
      BY <1>1, TunReturnedTyped, Zenon
    <3> HIDE DEF TunReturned
    <3> QED BY <3>1, <3>2, OwnedTyped, Zenon
  <2> QED BY <2>1, <2>2, Zenon
<1>5. /\ device' \in BOOLEAN /\ orphan' \in BOOLEAN
      /\ device' /\ ~orphan' => device /\ ~orphan /\ ~tunDaemon.owned
  BY <1>1, Zenon DEF TunReleases, TunReleaseFails, InnerReleases, InnerReleaseFails
<1>6. TunTypeOK'
  BY <1>2, <1>4, <1>5, Zenon DEF TunInv, TunTypeOK
<1>7. OwnedIsRecorded'
  BY <1>4, Zenon DEF OwnedIsRecorded
<1>8. TunCallsKnow'
  BY <1>2, <1>4, <1>5, Zenon DEF TunInv, TunCallsKnow, TunAt, RecordIsOwn
<1> QED BY <1>3, <1>6, <1>7, <1>8, Zenon DEF TunInv

\* The record is cleared for its own daemon, whose device is gone by then.
LEMMA TunClearsKeeps ==
    ASSUME TunInv, TunUnwinds \/ TunReleaseClears
    PROVE  TunInv' /\ [TunEffect!Next]_(TunEffect!vars)
<1>1. tunDaemon \in TunDaemons /\ device \in BOOLEAN /\ orphan \in BOOLEAN
  BY Zenon DEF TunInv, TunTypeOK
<1>2. PICK place \in {"unwind", "clear"} : TunClearRecord(place)
  BY Zenon DEF TunUnwinds, TunReleaseClears
<1>3. device' = device /\ orphan' = orphan /\ TunAt(place)
  BY <1>2, Zenon DEF TunClearRecord
<1>4. /\ tunDaemon' \in TunDaemons
      /\ tunDaemon'.at = "idle"
      /\ tunDaemon'.token = tunDaemon.token
      /\ tunDaemon'.owned = tunDaemon.owned
  BY <1>1, <1>2, TunReturnedTyped, Zenon DEF TunClearRecord
<1>5. ~tunDaemon.owned /\ tunDaemon.token > 0
  BY <1>3, Zenon DEF TunInv, TunCallsKnow, TunAt, RecordIsOwn
<1>6. PICK r \in TunRecords : tunRecord = {r}
  BY <1>3, Zenon DEF TunAt, TunInv, TunTypeOK, TunCallsKnow
<1>7. tunRecord' = {r} \/ (tunRecord' = {} /\ r.owner = tunDaemon.token)
  BY <1>2, <1>6, Zenon DEF TunClearRecord, ClearIfOwner
<1>8. device /\ ~orphan => tunRecord' = {r} /\ r.owner # tunDaemon.token
  BY <1>3, <1>5, <1>6, <1>7, Zenon DEF TunAt, TunInv, TunCallsKnow
<1>9. TunTypeOK'
  BY <1>1, <1>3, <1>4, <1>7, Zenon DEF TunTypeOK
<1>10. OwnedIsRecorded'
  BY <1>4, <1>5, Zenon DEF OwnedIsRecorded
<1>11. TunCallsKnow'
  <2>1. \A q \in tunRecord' : q.owner <= tunDaemon.token
    BY <1>6, <1>7, Zenon DEF TunInv, TunCallsKnow
  <2> QED BY <1>3, <1>4, <1>5, <1>7, <1>8, <2>1, Zenon DEF TunCallsKnow, TunAt, RecordIsOwn
<1>12. [TunEffect!Next]_(TunEffect!vars)
  BY <1>3, <1>6, <1>7, <1>8, TunAbstractStep, Zenon DEF TunThere
<1> QED BY <1>9, <1>10, <1>11, <1>12, Zenon DEF TunInv

LEMMA TunCrashKeeps ==
    ASSUME TunInv, TunCrash
    PROVE  TunInv' /\ [TunEffect!Next]_(TunEffect!vars)
<1>1. tunDaemon \in TunDaemons /\ device \in BOOLEAN /\ orphan \in BOOLEAN
  BY Zenon DEF TunInv, TunTypeOK
<1>2. tunRecord' = tunRecord
  BY Zenon DEF TunCrash
<1>3. /\ device' \in BOOLEAN /\ orphan' \in BOOLEAN
      /\ tunRecord = {} => device' = device /\ orphan' = (orphan /\ device)
  <2>1. tunRecord = {} => ~TunAt("replay") /\ ~TunAt("apply")
    BY Zenon DEF TunInv, TunCallsKnow, TunAt, RecordIsOwn
  <2> QED BY <1>1, <2>1, Zenon DEF TunCrash
<1>4. /\ tunDaemon' \in TunDaemons
      /\ tunDaemon'.at = "down"
      /\ tunDaemon'.token = tunDaemon.token
      /\ tunDaemon'.owned = FALSE
  <2> DEFINE d == [tunDaemon EXCEPT !.at = "down", !.stop = "no"]
  <2>1. tunDaemon' = [d EXCEPT !.owned = FALSE]
    BY <1>1, Zenon DEF TunCrash, TunDaemons
  <2>2. d \in TunDaemons /\ d.at = "down" /\ d.token = tunDaemon.token
    BY <1>1, Zenon DEF TunDaemons, TunPlaces
  <2> HIDE DEF d
  <2> QED BY <2>1, <2>2, OwnedTyped, Zenon
<1>5. TunTypeOK'
  BY <1>2, <1>3, <1>4, Zenon DEF TunInv, TunTypeOK
<1>6. OwnedIsRecorded'
  BY <1>4, Zenon DEF OwnedIsRecorded
<1>7. TunCallsKnow'
  <2>1. device' /\ ~orphan' => tunRecord # {}
    BY <1>1, <1>3, Zenon DEF TunInv, TunCallsKnow
  <2> QED BY <1>2, <1>4, <2>1, Zenon DEF TunInv, TunCallsKnow, TunAt, RecordIsOwn
<1>8. [TunEffect!Next]_(TunEffect!vars)
  <2>1. CASE tunRecord # {}
    BY <1>2, <2>1, TunAbstractStep, Zenon
  <2>2. CASE tunRecord = {}
    <3>1. ~TunThere
      BY <2>2, Zenon DEF TunInv, TunCallsKnow, TunThere
    <3>2. ~TunThere'
      BY <1>1, <1>3, <2>2, <3>1, Zenon DEF TunThere
    <3> QED BY <1>2, <2>2, <3>1, <3>2, TunAbstractStep, Zenon
  <2> QED BY <2>1, <2>2, Zenon
<1> QED BY <1>5, <1>6, <1>7, <1>8, Zenon DEF TunInv

LEMMA TunStepKeeps ==
    ASSUME TunInv, [TunNext]_tunVars
    PROVE  TunInv' /\ [TunEffect!Next]_(TunEffect!vars)
<1>1. CASE UNCHANGED tunVars
  <2>1. /\ device' = device /\ tunRecord' = tunRecord /\ tunDaemon' = tunDaemon
        /\ orphan' = orphan
    BY <1>1, Zenon DEF tunVars
  <2>2. TunInv'
    BY <2>1, Zenon DEF TunInv, TunTypeOK, OwnedIsRecorded, TunCallsKnow, TunAt, RecordIsOwn
  <2>3. [TunEffect!Next]_(TunEffect!vars)
    BY <2>1, TunAbstractStep, Zenon DEF TunThere
  <2> QED BY <2>2, <2>3, Zenon
<1>2. CASE \/ TunBoot \/ TunNothingPending \/ TunOwnFails \/ TunEngageAgain
           \/ TunOff \/ TunShutdown \/ TunExit
  <2>1. UNCHANGED <<device, tunRecord, orphan>>
    BY <1>2, Zenon DEF TunBoot, TunNothingPending, TunOwnFails, TunEngageAgain, TunOff, TunShutdown,
          TunExit
  <2> QED BY <1>2, <2>1, TunMovesKeeps, Zenon
<1> QED
  BY <1>1, <1>2, TunRecordsKeeps, TunEngagesKeeps, TunReleasesKeeps, TunClearsKeeps,
     TunCrashKeeps, Zenon DEF TunNext

-----------------------------------------------------------------------------
(***************************************************************************)
(* The system proxy.                                                       *)
(***************************************************************************)
LEMMA ReadsTyped == ASSUME NEW d \in Desktops PROVE Reads(d) \in Settings
<1>1. CASE d.mode = "manual"
  BY <1>1, Zenon DEF Reads, Desktops, Settings, ProxyModes, Keys
<1>2. CASE d.mode = "auto"
  BY <1>2, Zenon DEF Reads, Desktops, Settings, ProxyModes, Keys
<1>3. CASE d.mode = "none"
  BY <1>3, Zenon DEF Reads, Desktops, Settings, ProxyModes, Keys
<1> QED BY <1>1, <1>2, <1>3, Zenon DEF Desktops, ProxyModes

LEMMA ShowsTyped == ASSUME NEW d \in Desktops PROVE Shows(d) \in Settings
BY ReadsTyped, Zenon DEF Shows, Seen, Settings, ProxyModes, Keys

\* What a user sets is seen as one of the user's settings.
LEMMA UserShows ==
    ASSUME NEW d \in UserDesktops PROVE d \in Desktops /\ Shows(d) \in UserSettings
<1>1. d \in Desktops
  BY Zenon DEF UserDesktops, Desktops, Keys
<1>2. CASE d.mode = "manual"
  <2>1. Reads(d) = <<"manual", d.endpoint>> /\ d.endpoint \in {"user", "empty"}
    BY <1>2, Zenon DEF Reads, UserDesktops
  <2> QED BY <1>1, <2>1, Zenon DEF Shows, Seen, UserSettings
<1>3. CASE d.mode = "auto"
  <2>1. Reads(d) = <<"auto", d.url>> /\ d.url \in {"user", "empty"}
    BY <1>3, Zenon DEF Reads, UserDesktops
  <2> QED BY <1>1, <2>1 DEF Shows, Seen, UserSettings
<1>4. CASE d.mode = "none"
  <2>1. Reads(d) = <<"none", "empty">>
    BY <1>4, Zenon DEF Reads
  <2> QED BY <1>1, <2>1 DEF Shows, Seen, UserSettings
<1> QED BY <1>2, <1>3, <1>4, Zenon DEF UserDesktops, ProxyModes

\* The sequences of commands, as sequences of one, two or three desktops.
StatesSound(s) ==
    /\ Finished(s) \in Desktops
    /\ Through(s) \subseteq Desktops
    /\ EngageStops(s) \subseteq Desktops
    /\ RestoreStops(s) \subseteq Desktops

LEMMA OneState == ASSUME NEW a \in Desktops PROVE StatesSound(<<a>>) /\ Finished(<<a>>) = a
<1>1. Len(<<a>>) = 1 /\ <<a>>[1] = a
  BY Zenon
<1>2. \A i \in 1..1 : <<a>>[i] \in Desktops
  BY <1>1
<1> QED BY <1>1, <1>2 DEF StatesSound, Finished, Through, EngageStops, RestoreStops

LEMMA TwoStates ==
    ASSUME NEW a \in Desktops, NEW b \in Desktops
    PROVE  StatesSound(<<a, b>>) /\ Finished(<<a, b>>) = b
<1>1. Len(<<a, b>>) = 2 /\ <<a, b>>[1] = a /\ <<a, b>>[2] = b
  BY Zenon
<1>2. \A i \in 1..2 : <<a, b>>[i] \in Desktops
  BY <1>1
<1> QED BY <1>1, <1>2 DEF StatesSound, Finished, Through, EngageStops, RestoreStops

LEMMA ThreeStates ==
    ASSUME NEW a \in Desktops, NEW b \in Desktops, NEW c \in Desktops
    PROVE  StatesSound(<<a, b, c>>) /\ Finished(<<a, b, c>>) = c
<1>1. Len(<<a, b, c>>) = 3 /\ <<a, b, c>>[1] = a /\ <<a, b, c>>[2] = b /\ <<a, b, c>>[3] = c
  BY Zenon
<1>2. \A i \in 1..3 : <<a, b, c>>[i] \in Desktops
  BY <1>1
<1> QED BY <1>1, <1>2 DEF StatesSound, Finished, Through, EngageStops, RestoreStops

LEMMA EngagingSound ==
    ASSUME NEW d \in Desktops, NEW pac \in BOOLEAN PROVE StatesSound(Engaging(d, pac))
<1>1. CASE pac
  <2> DEFINE b == [d EXCEPT !.url = "caly"]
             c == [d EXCEPT !.url = "caly", !.mode = "auto"]
  <2>1. b \in Desktops /\ c \in Desktops
    BY Zenon DEF Desktops, Keys, ProxyModes
  <2>2. Engaging(d, pac) = <<d, b, c>>
    BY <1>1, Zenon DEF Engaging
  <2> HIDE DEF b, c
  <2> QED BY <2>1, <2>2, ThreeStates
<1>2. CASE ~pac
  <2> DEFINE b == [d EXCEPT !.endpoint = "caly"]
             c == [d EXCEPT !.endpoint = "caly", !.mode = "manual"]
  <2>1. b \in Desktops /\ c \in Desktops
    BY Zenon DEF Desktops, Keys, ProxyModes
  <2>2. Engaging(d, pac) = <<d, b, c>>
    BY <1>2, Zenon DEF Engaging
  <2> HIDE DEF b, c
  <2> QED BY <2>1, <2>2, ThreeStates
<1> QED BY <1>1, <1>2, Zenon

\* A finished reversal shows the original it was given, unless that is an empty PAC
\* URL, which it does not write.
LEMMA RestoringSound ==
    ASSUME NEW d \in Desktops, NEW o \in Settings
    PROVE  /\ StatesSound(Restoring(d, o))
           /\ Seen(o) \in UserSettings /\ (o = <<"auto", "empty">> => d.url = "empty")
                => Shows(Finished(Restoring(d, o))) = Seen(o)
<1>1. CASE o[1] = "manual" /\ o[2] # "empty"
  <2>0. o[2] \in Keys /\ o = <<"manual", o[2]>>
    BY <1>1 DEF Settings, Keys
  <2> DEFINE b == [d EXCEPT !.endpoint = o[2]]
             c == [d EXCEPT !.endpoint = o[2], !.mode = "manual"]
  <2>1. b \in Desktops /\ c \in Desktops /\ c.mode = "manual" /\ c.endpoint = o[2]
    BY <2>0, Zenon DEF Desktops, Keys, ProxyModes
  <2>2. Restoring(d, o) = <<d, b, c>>
    BY <1>1 DEF Restoring
  <2> HIDE DEF b, c
  <2>3. Shows(c) = Seen(o)
    BY <2>0, <2>1, Zenon DEF Reads, Shows
  <2> QED BY <2>1, <2>2, <2>3, ThreeStates
<1>2. CASE o[1] = "auto" /\ o[2] # "empty"
  <2>0. o[2] \in Keys /\ o = <<"auto", o[2]>>
    BY <1>2 DEF Settings, Keys
  <2> DEFINE b == [d EXCEPT !.url = o[2]]
             c == [d EXCEPT !.url = o[2], !.mode = "auto"]
  <2>1. b \in Desktops /\ c \in Desktops /\ c.mode = "auto" /\ c.url = o[2]
    BY <2>0, Zenon DEF Desktops, Keys, ProxyModes
  <2>2. Restoring(d, o) = <<d, b, c>>
    BY <1>2 DEF Restoring
  <2> HIDE DEF b, c
  <2>3. Shows(c) = Seen(o)
    BY <2>0, <2>1, Zenon DEF Reads, Shows
  <2> QED BY <2>1, <2>2, <2>3, ThreeStates
<1>3. CASE o[1] = "auto" /\ o[2] = "empty"
  <2>0. o = <<"auto", "empty">>
    BY <1>3 DEF Settings
  <2> DEFINE b == [d EXCEPT !.mode = "auto"]
  <2>1. b \in Desktops /\ b.mode = "auto" /\ b.url = d.url
    BY Zenon DEF Desktops, ProxyModes
  <2>2. Restoring(d, o) = <<d, b>>
    BY <1>3, <2>0, Zenon DEF Restoring
  <2> HIDE DEF b
  <2>3. Reads(b) = <<"auto", d.url>>
    BY <2>1, Zenon DEF Reads
  <2> QED BY <2>0, <2>1, <2>2, <2>3, TwoStates, Zenon DEF Shows
<1>4. CASE o[1] = "unknown"
  <2>1. Restoring(d, o) = <<d>>
    BY <1>4 DEF Restoring
  <2>2. Seen(o) \notin UserSettings
    BY <1>4 DEF Seen, UserSettings
  <2> QED BY <2>1, <2>2, OneState, Zenon
<1>5. CASE o[1] = "none" \/ (o[1] = "manual" /\ o[2] = "empty")
  <2> DEFINE b == [d EXCEPT !.mode = "none"]
  <2>1. b \in Desktops /\ b.mode = "none"
    BY Zenon DEF Desktops, ProxyModes
  <2>2. Restoring(d, o) = <<d, b>>
    BY <1>5 DEF Restoring
  <2> HIDE DEF b
  <2>3. Seen(o) \in UserSettings => Seen(o) = <<"none", "empty">>
    BY <1>5 DEF Seen, UserSettings, Settings
  <2>4. Shows(b) = <<"none", "empty">>
    <3>1. Reads(b) = <<"none", "empty">>
      BY <2>1, Zenon DEF Reads
    <3> QED BY <3>1 DEF Shows, Seen
  <2> QED BY <2>1, <2>2, <2>3, <2>4, TwoStates, Zenon
<1> QED BY <1>1, <1>2, <1>3, <1>4, <1>5 DEF Settings, ProxyModes

\* What a place of the daemon tells: the fields an invariant speaks of.
SameDaemon(d, at) ==
    d \in Daemons /\ d.at = at /\ d.token = daemon.token /\ d.took = daemon.took

LEMMA GotoTyped ==
    ASSUME daemon \in Daemons, NEW place \in ProxyPlaces
    PROVE  SameDaemon([daemon EXCEPT !.at = place], place)
<1> DEFINE d == [daemon EXCEPT !.at = place]
<1>1. d \in Daemons
  BY Zenon DEF Daemons
<1>2. d.at = place /\ d.token = daemon.token
  BY Zenon DEF Daemons
<1>3. d.took = daemon.took
  BY Zenon DEF Daemons
<1> QED BY <1>1, <1>2, <1>3, Zenon DEF SameDaemon

LEMMA ReturnedTyped == ASSUME daemon \in Daemons PROVE SameDaemon(Returned, "idle")
<1>1. Returned \in Daemons
  BY Zenon DEF Daemons, Returned, ProxyPlaces, Stopping
<1>2. Returned.at = "idle" /\ Returned.token = daemon.token
  BY Zenon DEF Daemons, Returned
<1>3. Returned.took = daemon.took
  BY Zenon DEF Daemons, Returned
<1> QED BY <1>1, <1>2, <1>3, Zenon DEF SameDaemon

LEMMA ApplyTyped ==
    ASSUME daemon \in Daemons, NEW pac \in BOOLEAN, NEW existing \in BOOLEAN
    PROVE  /\ SameDaemon([daemon EXCEPT !.at = "apply", !.pac = pac, !.existing = existing], "apply")
           /\ [daemon EXCEPT !.at = "apply", !.pac = pac, !.existing = existing].existing = existing
<1> DEFINE d == [daemon EXCEPT !.at = "apply", !.pac = pac, !.existing = existing]
<1>1. d \in Daemons
  BY Zenon DEF Daemons, ProxyPlaces
<1>2. d.at = "apply" /\ d.token = daemon.token
  BY Zenon DEF Daemons
<1>3. d.took = daemon.took
  BY Zenon DEF Daemons
<1>4. d.existing = existing
  BY Zenon DEF Daemons
<1> QED BY <1>1, <1>2, <1>3, <1>4, Zenon DEF SameDaemon

LEMMA MarkTyped ==
    ASSUME NEW r \in Records
    PROVE  /\ MarkRestoring(r) \in Records
           /\ MarkRestoring(r).original = r.original
BY Zenon DEF Records, MarkRestoring, Phases

LEMMA TakeTyped ==
    ASSUME NEW r \in Records, NEW t \in 1..MaxBoots
    PROVE  /\ TakeOwnership(r, t) \in Records
           /\ TakeOwnership(r, t).original = r.original
           /\ TakeOwnership(r, t).owner = t
           /\ TakeOwnership(r, t).phase = "Applied"
BY Zenon DEF Records, TakeOwnership, Phases

LEMMA NewRecordTyped ==
    ASSUME daemon.token \in 1..MaxBoots, NEW pac \in BOOLEAN, NEW o \in Settings
    PROVE  /\ NewRecord(pac, o) \in Records
           /\ NewRecord(pac, o).original = o
           /\ NewRecord(pac, o).owner = daemon.token
           /\ NewRecord(pac, o).phase = "Applied"
<1>1. NewRecord(pac, o) \in Records
  BY Zenon DEF Records, NewRecord, Phases
<1>2. /\ NewRecord(pac, o).original = o
      /\ NewRecord(pac, o).owner = daemon.token
      /\ NewRecord(pac, o).phase = "Applied"
  BY Zenon DEF NewRecord
<1> QED BY <1>1, <1>2, Zenon

\* The desktop shows something that is not the user's, and nothing spoilt it.
ProxyThere == ~spoilt /\ Shows(desktop) # users

LEMMA ProxyAbstractStep ==
    ASSUME \/ /\ record' = {} <=> record = {}
              /\ ProxyThere' <=> ProxyThere
           \/ /\ record = {} /\ record' # {}
              /\ ProxyThere' <=> ProxyThere
           \/ record # {} /\ record' # {}
           \/ ~ProxyThere /\ ~ProxyThere' /\ record' = {}
    PROVE  [Effect!Next]_(Effect!vars)
<1>1. CASE (record' = {} <=> record = {}) /\ (ProxyThere' <=> ProxyThere)
  BY <1>1, Zenon DEF Effect!vars, ProxyThere
<1>2. CASE record = {} /\ record' # {} /\ (ProxyThere' <=> ProxyThere)
  <2>1. Effect!Record
    BY <1>2, Zenon DEF Effect!Record, ProxyThere
  <2> QED BY <2>1, Zenon DEF Effect!Next
<1>3. CASE record # {} /\ record' # {}
  <2>1. CASE ProxyThere'
    <3>1. Effect!Apply
      BY <1>3, <2>1, Zenon DEF Effect!Apply, ProxyThere
    <3> QED BY <3>1, Zenon DEF Effect!Next
  <2>2. CASE ~ProxyThere'
    <3>1. Effect!Withdraw
      BY <1>3, <2>2, Zenon DEF Effect!Withdraw, ProxyThere
    <3> QED BY <3>1, Zenon DEF Effect!Next
  <2> QED BY <2>1, <2>2, Zenon
<1>4. CASE ~ProxyThere /\ ~ProxyThere' /\ record' = {}
  <2>1. Effect!Forget
    BY <1>4, Zenon DEF Effect!Forget, ProxyThere
  <2> QED BY <2>1, Zenon DEF Effect!Next
<1> QED BY <1>1, <1>2, <1>3, <1>4, Zenon

ProxyAll == ProxyInv /\ RecoveredIsOwned

LEMMA ProxyStarts == ProxyInit => ProxyAll /\ Effect!Init
<1> SUFFICES ASSUME ProxyInit PROVE ProxyAll /\ Effect!Init
  BY Zenon
<1>1. desktop \in UserDesktops
  BY Zenon DEF ProxyInit
<1>2. desktop \in Desktops /\ Shows(desktop) \in UserSettings
  BY <1>1, UserShows, Zenon
<1>3. Shows(desktop) \in Settings
  BY <1>2, ShowsTyped, Zenon
<1>4. daemon \in Daemons
  <2>1. "down" \in ProxyPlaces /\ 0 \in 0..MaxBoots /\ "no" \in Stopping
    BY BootsAssumption DEF ProxyPlaces, Stopping
  <2> QED BY <2>1, Zenon DEF ProxyInit, Daemons
<1>5. ProxyTypeOK
  BY <1>2, <1>3, <1>4, Zenon DEF ProxyInit, ProxyTypeOK
<1>6. RecordHoldsOriginal /\ ProxyCallsKnow /\ RecoveredIsOwned
  BY <1>2, Zenon DEF ProxyInit, RecordHoldsOriginal, ProxyCallsKnow, RecoveredIsOwned, At
<1>7. Effect!Init
  BY Zenon DEF ProxyInit, Effect!Init
<1> QED BY <1>5, <1>6, <1>7, Zenon DEF ProxyAll, ProxyInv

\* Steps that change the daemon only.
LEMMA ProxyMovesKeeps ==
    ASSUME ProxyAll, UNCHANGED <<desktop, record, users, spoilt>>,
           \/ BootGate \/ GateNothingPending \/ OwnFails \/ BootWithoutProxy
           \/ EngagePersistFails \/ EngageAgain \/ Off \/ Shutdown \/ Exit
    PROVE  ProxyAll' /\ [Effect!Next]_(Effect!vars)
<1>1. daemon \in Daemons
  BY Zenon DEF ProxyAll, ProxyInv, ProxyTypeOK
<1>2. desktop' = desktop /\ record' = record /\ users' = users /\ spoilt' = spoilt
  BY Zenon
<1>3. [Effect!Next]_(Effect!vars)
  BY <1>2, ProxyAbstractStep DEF ProxyThere
<1>4. RecordHoldsOriginal'
  BY <1>2 DEF ProxyAll, ProxyInv, RecordHoldsOriginal
<1>5. CASE BootGate
  <2>1. daemon.token + 1 \in 0..MaxBoots /\ daemon.token + 1 > 0
    BY <1>1, <1>5, BootsAssumption DEF BootGate, Daemons
  <2>2. /\ daemon' \in Daemons /\ daemon'.at = "gate"
        /\ daemon'.token = daemon.token + 1
    BY <1>5, <2>1, Zenon DEF BootGate, Daemons, ProxyPlaces, Stopping
  <2>3. daemon'.took = FALSE
    BY <1>5, Zenon DEF BootGate
  <2>4. ProxyTypeOK'
    BY <1>2, <2>2, Zenon DEF ProxyAll, ProxyInv, ProxyTypeOK
  <2>5. ProxyCallsKnow'
    BY <1>2, <2>1, <2>2, <2>3 DEF ProxyAll, ProxyInv, ProxyCallsKnow, At
  <2>6. RecoveredIsOwned'
    BY <2>3, Zenon DEF RecoveredIsOwned
  <2> QED BY <1>3, <1>4, <2>4, <2>5, <2>6, Zenon DEF ProxyAll, ProxyInv
<1>6. CASE \/ GateNothingPending \/ OwnFails \/ BootWithoutProxy
           \/ EngagePersistFails \/ Off \/ Shutdown \/ Exit
  <2>1. PICK place \in {"bootproxy", "idle", "revert", "down"} :
          /\ SameDaemon(daemon', place)
          /\ ~At("down")
          /\ place = "bootproxy" => At("gate") \/ At("own")
          /\ place = "revert" => record # {}
    <3>1. CASE GateNothingPending \/ OwnFails \/ BootWithoutProxy \/ Off \/ Exit
      <4>1. PICK place \in {"bootproxy", "idle", "revert", "down"} :
              /\ daemon' = [daemon EXCEPT !.at = place]
              /\ ~At("down")
              /\ place = "bootproxy" => At("gate") \/ At("own")
              /\ place = "revert" => record # {}
        BY <3>1, Zenon DEF GateNothingPending, OwnFails, BootWithoutProxy, Off, Exit, Goto, At
      <4>2. SameDaemon([daemon EXCEPT !.at = place], place)
        BY <1>1, GotoTyped, Zenon DEF ProxyPlaces
      <4> QED BY <4>1, <4>2, Zenon
    <3>2. CASE EngagePersistFails
      BY <1>1, <3>2, ReturnedTyped, Zenon DEF EngagePersistFails, At
    <3>3. CASE Shutdown /\ record = {}
      <4>1. daemon' = [daemon EXCEPT !.stop = "restored"] /\ daemon.at = "idle"
        BY <3>3, Zenon DEF Shutdown, At
      <4>2. daemon' \in Daemons /\ daemon'.at = "idle" /\ daemon'.token = daemon.token
        BY <1>1, <4>1, Zenon DEF Daemons, Stopping
      <4>3. daemon'.took = daemon.took
        BY <1>1, <4>1, Zenon DEF Daemons
      <4> QED BY <4>1, <4>2, <4>3, Zenon DEF SameDaemon, At
    <3>4. CASE Shutdown /\ record # {}
      <4>1. daemon' = [daemon EXCEPT !.at = "revert", !.stop = "restoring"] /\ daemon.at = "idle"
        BY <3>4, Zenon DEF Shutdown, At
      <4>2. daemon' \in Daemons /\ daemon'.at = "revert" /\ daemon'.token = daemon.token
        BY <1>1, <4>1, Zenon DEF Daemons, Stopping, ProxyPlaces
      <4>3. daemon'.took = daemon.took
        BY <1>1, <4>1, Zenon DEF Daemons
      <4> QED BY <3>4, <4>1, <4>2, <4>3, Zenon DEF SameDaemon, At
    <3> QED BY <1>6, <3>1, <3>2, <3>3, <3>4, Zenon
  <2>2. ProxyTypeOK'
    BY <1>2, <2>1, Zenon DEF ProxyAll, ProxyInv, ProxyTypeOK, SameDaemon
  <2>3. ProxyCallsKnow'
    BY <1>2, <2>1 DEF ProxyAll, ProxyInv, ProxyCallsKnow, SameDaemon, At
  <2>4. RecoveredIsOwned'
    BY <1>2, <2>1, Zenon DEF ProxyAll, RecoveredIsOwned, SameDaemon
  <2> QED BY <1>3, <1>4, <2>2, <2>3, <2>4, Zenon DEF ProxyAll, ProxyInv
<1>7. CASE EngageAgain
  <2>1. PICK pac \in BOOLEAN :
          /\ MayEngage(pac) /\ record # {}
          /\ daemon' = [daemon EXCEPT !.at = "apply", !.pac = pac, !.existing = TRUE]
    BY <1>7, Zenon DEF EngageAgain
  <2>2. SameDaemon(daemon', "apply") /\ daemon'.existing
    BY <1>1, <2>1, ApplyTyped, Zenon
  <2>3. ProxyTypeOK'
    BY <1>2, <2>2, Zenon DEF ProxyAll, ProxyInv, ProxyTypeOK, SameDaemon
  <2>4. ProxyCallsKnow'
    BY <1>2, <2>1, <2>2, Zenon DEF ProxyAll, ProxyInv, ProxyCallsKnow, SameDaemon, At, MayEngage
  <2>5. RecoveredIsOwned'
    BY <1>2, <2>2, Zenon DEF ProxyAll, RecoveredIsOwned, SameDaemon
  <2> QED BY <1>3, <1>4, <2>3, <2>4, <2>5, Zenon DEF ProxyAll, ProxyInv
<1> QED BY <1>5, <1>6, <1>7, Zenon

\* The record is marked, taken over or written anew; the desktop stays.
LEMMA ProxyRecordsKeeps ==
    ASSUME ProxyAll, GateMarkRestoring \/ Owns \/ EngagePersists
    PROVE  ProxyAll' /\ [Effect!Next]_(Effect!vars)
<1>1. /\ daemon \in Daemons /\ desktop \in Desktops /\ users \in Settings /\ spoilt \in BOOLEAN
      /\ record \in {{}} \union {{r} : r \in Records}
  BY Zenon DEF ProxyAll, ProxyInv, ProxyTypeOK
<1>2. desktop' = desktop /\ users' = users
  BY Zenon DEF GateMarkRestoring, Owns, EngagePersists
<1>3. CASE GateMarkRestoring
  <2>1. PICK r \in Records : record = {r}
    BY <1>1, <1>3, Zenon DEF GateMarkRestoring
  <2>2. record' = {MarkRestoring(r)} /\ spoilt' = spoilt /\ At("gate")
    BY <1>3, <2>1, Zenon DEF GateMarkRestoring
  <2>3. MarkRestoring(r) \in Records /\ MarkRestoring(r).original = r.original
    BY MarkTyped, Zenon
  <2>4. SameDaemon(daemon', "replay")
    BY <1>1, <1>3, GotoTyped, Zenon DEF GateMarkRestoring, Goto, ProxyPlaces
  <2>5. ProxyTypeOK'
    BY <1>1, <1>2, <2>2, <2>3, <2>4, Zenon DEF ProxyTypeOK, SameDaemon
  <2>6. RecordHoldsOriginal'
    BY <1>2, <2>1, <2>2, <2>3, Zenon DEF ProxyAll, ProxyInv, RecordHoldsOriginal
  <2>7. ProxyCallsKnow'
    BY <1>2, <2>2, <2>4, Zenon DEF ProxyAll, ProxyInv, ProxyCallsKnow, SameDaemon, At
  <2>8. RecoveredIsOwned'
    BY <2>2, <2>4, Zenon DEF ProxyAll, ProxyInv, ProxyCallsKnow, RecoveredIsOwned, SameDaemon, At
  <2>9. [Effect!Next]_(Effect!vars)
    BY <2>1, <2>2, ProxyAbstractStep, Zenon
  <2> QED BY <2>5, <2>6, <2>7, <2>8, <2>9, Zenon DEF ProxyAll, ProxyInv
<1>4. CASE Owns
  <2>1. PICK r \in Records : record = {r}
    BY <1>1, <1>4, Zenon DEF Owns, At, ProxyAll, ProxyInv, ProxyCallsKnow
  <2>2. record' = {TakeOwnership(r, daemon.token)} /\ spoilt' = spoilt
    BY <1>4, <2>1, Zenon DEF Owns
  <2>3. daemon.token \in 1..MaxBoots
    BY <1>1, <1>4, BootsAssumption DEF Owns, At, ProxyAll, ProxyInv, ProxyCallsKnow, Daemons
  <2>4. /\ TakeOwnership(r, daemon.token) \in Records
        /\ TakeOwnership(r, daemon.token).original = r.original
        /\ TakeOwnership(r, daemon.token).owner = daemon.token
        /\ TakeOwnership(r, daemon.token).phase = "Applied"
    BY <2>3, TakeTyped, Zenon
  <2>5. daemon' = [daemon EXCEPT !.at = "idle", !.took = TRUE]
    BY <1>4, Zenon DEF Owns
  <2>6. daemon' \in Daemons /\ daemon'.at = "idle" /\ daemon'.token = daemon.token
    BY <1>1, <2>5, Zenon DEF Daemons, ProxyPlaces
  <2>7. ProxyTypeOK'
    BY <1>1, <1>2, <2>2, <2>4, <2>6, Zenon DEF ProxyTypeOK
  <2>8. RecordHoldsOriginal'
    BY <1>2, <2>1, <2>2, <2>4, Zenon DEF ProxyAll, ProxyInv, RecordHoldsOriginal
  <2>9. ProxyCallsKnow'
    BY <1>2, <2>2, <2>3, <2>6 DEF ProxyAll, ProxyInv, ProxyCallsKnow, At
  <2>10. RecoveredIsOwned'
    BY <2>2, <2>4, <2>6, Zenon DEF RecoveredIsOwned
  <2>11. [Effect!Next]_(Effect!vars)
    BY <2>1, <2>2, ProxyAbstractStep, Zenon
  <2> QED BY <2>7, <2>8, <2>9, <2>10, <2>11, Zenon DEF ProxyAll, ProxyInv
<1>5. CASE EngagePersists
  <2>1. PICK pac \in BOOLEAN :
          /\ MayEngage(pac)
          /\ record = {}
          /\ \E o \in Captures(desktop) :
               /\ record' = {NewRecord(pac, o)}
               /\ spoilt' = (spoilt \/ Seen(o) # Shows(desktop))
          /\ daemon' = [daemon EXCEPT !.at = "apply", !.pac = pac, !.existing = FALSE]
    BY <1>5, Zenon DEF EngagePersists
  <2>2. PICK o \in Captures(desktop) :
          /\ record' = {NewRecord(pac, o)}
          /\ spoilt' = (spoilt \/ Seen(o) # Shows(desktop))
    BY <2>1, Zenon
  <2>3. o \in Settings
    <3>1. Reads(desktop) \in Settings
      BY <1>1, ReadsTyped, Zenon
    <3>2. <<"unknown", "empty">> \in Settings /\ <<desktop.mode, "empty">> \in Settings
      BY <1>1, Zenon DEF Settings, Desktops, Keys
    <3>3. o \in {Reads(desktop), <<"unknown", "empty">>, <<desktop.mode, "empty">>}
      BY Zenon DEF Captures
    <3> QED BY <3>1, <3>2, <3>3, Zenon
  <2>4. daemon.token \in 1..MaxBoots
    BY <1>1, <2>1, BootsAssumption DEF MayEngage, At, ProxyAll, ProxyInv, ProxyCallsKnow, Daemons
  <2>5. /\ NewRecord(pac, o) \in Records
        /\ NewRecord(pac, o).original = o
        /\ NewRecord(pac, o).owner = daemon.token
        /\ NewRecord(pac, o).phase = "Applied"
    BY <2>3, <2>4, NewRecordTyped, Zenon
  <2>6. SameDaemon(daemon', "apply") /\ daemon'.existing = FALSE
    BY <1>1, <2>1, ApplyTyped, Zenon
  <2>7. ~spoilt' => ~spoilt /\ Seen(o) = Shows(desktop)
    BY <2>2, Zenon
  <2>8. ~spoilt => Shows(desktop) = users
    BY <2>1, Zenon DEF ProxyAll, ProxyInv, ProxyCallsKnow
  <2>9. ProxyTypeOK'
    <3>1. spoilt' \in BOOLEAN
      BY <2>2, Zenon
    <3> QED BY <1>1, <1>2, <2>2, <2>5, <2>6, <3>1, Zenon DEF ProxyTypeOK, SameDaemon
  <2>10. RecordHoldsOriginal'
    BY <1>2, <2>2, <2>5, <2>7, <2>8, Zenon DEF RecordHoldsOriginal
  <2>11. ProxyCallsKnow'
    BY <1>2, <2>2, <2>4, <2>6, <2>7, <2>8 DEF ProxyAll, ProxyInv, ProxyCallsKnow, SameDaemon, At
  <2>12. RecoveredIsOwned'
    BY <2>2, <2>5, <2>6, Zenon DEF RecoveredIsOwned, SameDaemon
  <2>13. [Effect!Next]_(Effect!vars)
    <3>1. ~ProxyThere
      BY <2>8, Zenon DEF ProxyThere
    <3>2. ~ProxyThere'
      BY <1>2, <2>7, <2>8, Zenon DEF ProxyThere
    <3> QED BY <2>1, <2>2, <3>1, <3>2, ProxyAbstractStep, Zenon
  <2> QED BY <2>9, <2>10, <2>11, <2>12, <2>13, Zenon DEF ProxyAll, ProxyInv
<1> QED BY <1>3, <1>4, <1>5, Zenon

\* The desktop changes under a record that stays.
LEMMA ProxyDesktopKeeps ==
    ASSUME ProxyAll,
           \/ ReplayApplies \/ ReplayFails \/ EngageApplies \/ EngageFails
           \/ Reverts \/ RevertFails
    PROVE  ProxyAll' /\ [Effect!Next]_(Effect!vars)
<1>1. /\ daemon \in Daemons /\ desktop \in Desktops /\ users \in Settings /\ spoilt \in BOOLEAN
      /\ record \in {{}} \union {{r} : r \in Records}
      /\ daemon.pac \in BOOLEAN
  BY Zenon DEF ProxyAll, ProxyInv, ProxyTypeOK, Daemons
<1>2. record' = record /\ users' = users /\ record # {} /\ daemon.token > 0 /\ ~At("down")
  BY Zenon DEF ReplayApplies, ReplayFails, EngageApplies, EngageFails, Reverts, RevertFails,
         ProxyAll, ProxyInv, ProxyCallsKnow, At
<1>3. PICK r \in Records : record = {r}
  BY <1>1, <1>2, Zenon
<1>4. r.pac \in BOOLEAN /\ r.original \in Settings
  BY Zenon DEF Records
<1>5. [Effect!Next]_(Effect!vars)
  BY <1>2, ProxyAbstractStep, Zenon
<1>6. /\ StatesSound(Engaging(desktop, r.pac))
      /\ StatesSound(Engaging(desktop, daemon.pac))
      /\ StatesSound(Restoring(desktop, r.original))
  BY <1>1, <1>4, EngagingSound, RestoringSound, Zenon
<1>7. desktop' \in Desktops
  BY <1>3, <1>6, Zenon DEF StatesSound, ReplayApplies, ReplayFails, EngageApplies, EngageFails, Reverts,
        RevertFails
<1>8. spoilt' \in BOOLEAN /\ (~spoilt' => ~spoilt)
  BY <1>1, Zenon DEF ReplayApplies, ReplayFails, EngageApplies, EngageFails, Reverts, RevertFails
<1>9. PICK place \in {"own", "bootproxy", "idle", "unwind", "clear"} :
        /\ SameDaemon(daemon', place)
        /\ place \in {"own", "bootproxy"} => At("replay")
        /\ place = "unwind" => EngageFails /\ ~daemon.existing
        /\ place = "clear" => Reverts
  <2>1. CASE ReplayApplies
    BY <1>1, <2>1, GotoTyped, Zenon DEF ReplayApplies, Goto, ProxyPlaces
  <2>2. CASE ReplayFails
    BY <1>1, <2>2, GotoTyped, Zenon DEF ReplayFails, Goto, ProxyPlaces
  <2>3. CASE Reverts
    BY <1>1, <2>3, GotoTyped, Zenon DEF Reverts, Goto, ProxyPlaces
  <2>4. CASE EngageApplies
    BY <1>1, <2>4, ReturnedTyped, Zenon DEF EngageApplies
  <2>5. CASE RevertFails
    BY <1>1, <2>5, ReturnedTyped, Zenon DEF RevertFails
  <2>6. CASE EngageFails /\ daemon.existing
    BY <1>1, <2>6, ReturnedTyped, Zenon DEF EngageFails
  <2>7. CASE EngageFails /\ ~daemon.existing
    BY <1>1, <2>7, GotoTyped, Zenon DEF EngageFails, ProxyPlaces
  <2> QED BY <2>1, <2>2, <2>3, <2>4, <2>5, <2>6, <2>7, Zenon
<1>10. ProxyTypeOK'
  BY <1>1, <1>2, <1>7, <1>8, <1>9, Zenon DEF ProxyTypeOK, SameDaemon
<1>11. RecordHoldsOriginal'
  BY <1>2, <1>8, Zenon DEF ProxyAll, ProxyInv, RecordHoldsOriginal
<1>12. RecoveredIsOwned'
  BY <1>2, <1>9, Zenon DEF ProxyAll, RecoveredIsOwned, SameDaemon
<1>13. ~spoilt' /\ place = "unwind" => Shows(desktop') = users
  <2> SUFFICES ASSUME ~spoilt', EngageFails, ~daemon.existing PROVE Shows(desktop') = users
    BY <1>9, Zenon
  <2>1. desktop' = desktop
    BY Zenon DEF EngageFails
  <2>2. At("apply")
    BY Zenon DEF EngageFails
  <2> QED BY <1>8, <2>1, <2>2, Zenon DEF ProxyAll, ProxyInv, ProxyCallsKnow
<1>14. ~spoilt' /\ place = "clear" => Shows(desktop') = users
  <2> SUFFICES ASSUME ~spoilt', Reverts PROVE Shows(desktop') = users
    BY <1>9, Zenon
  <2>1. /\ desktop' = Finished(Restoring(desktop, r.original))
        /\ r.original = <<"auto", "empty">> => desktop.url = "empty"
    BY <1>3, Zenon DEF Reverts
  <2>2. Seen(r.original) = users
    BY <1>3, <1>8, Zenon DEF ProxyAll, ProxyInv, RecordHoldsOriginal
  <2>3. users \in UserSettings
    BY Zenon DEF ProxyAll, ProxyInv, ProxyCallsKnow
  <2> QED BY <1>1, <1>4, <2>1, <2>2, <2>3, RestoringSound, Zenon
<1>15. ProxyCallsKnow'
  <2>1. users' \in UserSettings
    BY <1>2, Zenon DEF ProxyAll, ProxyInv, ProxyCallsKnow
  <2>2. place \in {"own", "bootproxy"} => ~daemon.took
    BY <1>9, Zenon DEF ProxyAll, ProxyInv, ProxyCallsKnow, At
  <2>3. /\ daemon'.at = place
        /\ daemon'.token = daemon.token
        /\ daemon'.took = daemon.took
    BY <1>9, Zenon DEF SameDaemon
  <2> QED BY <1>2, <1>13, <1>14, <2>1, <2>2, <2>3, Zenon DEF ProxyCallsKnow, At
<1> QED BY <1>5, <1>10, <1>11, <1>12, <1>15, Zenon DEF ProxyAll, ProxyInv

\* The record is cleared once the desktop shows what the user chose again.
LEMMA ProxyClearsKeeps ==
    ASSUME ProxyAll, EngageUnwinds \/ RevertClears
    PROVE  ProxyAll' /\ [Effect!Next]_(Effect!vars)
<1>1. PICK place \in {"unwind", "clear"} : ClearRecord(place)
  BY Zenon DEF EngageUnwinds, RevertClears
<1>2. desktop' = desktop /\ users' = users /\ spoilt' = spoilt /\ At(place)
  BY <1>1, Zenon DEF ClearRecord
<1>3. daemon \in Daemons /\ record \in {{}} \union {{r} : r \in Records}
  BY Zenon DEF ProxyAll, ProxyInv, ProxyTypeOK
<1>4. SameDaemon(daemon', "idle")
  BY <1>1, <1>3, ReturnedTyped, Zenon DEF ClearRecord
<1>5. PICK r \in Records : record = {r}
  BY <1>2, <1>3, Zenon DEF At, ProxyAll, ProxyInv, ProxyCallsKnow
<1>6. record' = {r} \/ record' = {}
  BY <1>1, <1>5, Zenon DEF ClearRecord, ClearIfOwner
<1>7. ~spoilt => Shows(desktop) = users
  BY <1>2, Zenon DEF At, ProxyAll, ProxyInv, ProxyCallsKnow
<1>8. ProxyTypeOK'
  BY <1>2, <1>4, <1>6, Zenon DEF ProxyAll, ProxyInv, ProxyTypeOK, SameDaemon
<1>9. RecordHoldsOriginal'
  BY <1>2, <1>5, <1>6, Zenon DEF ProxyAll, ProxyInv, RecordHoldsOriginal
<1>10. ProxyCallsKnow'
  BY <1>2, <1>4, <1>7, Zenon DEF ProxyAll, ProxyInv, ProxyCallsKnow, SameDaemon, At
<1>11. RecoveredIsOwned'
  BY <1>4, <1>5, <1>6, Zenon DEF ProxyAll, RecoveredIsOwned, SameDaemon
<1>12. [Effect!Next]_(Effect!vars)
  <2>1. ~ProxyThere /\ ~ProxyThere'
    BY <1>2, <1>7, Zenon DEF ProxyThere
  <2> QED BY <1>5, <1>6, <2>1, ProxyAbstractStep, Zenon
<1> QED BY <1>8, <1>9, <1>10, <1>11, <1>12, Zenon DEF ProxyAll, ProxyInv

LEMMA ProxyCrashKeeps ==
    ASSUME ProxyAll, Crash
    PROVE  ProxyAll' /\ [Effect!Next]_(Effect!vars)
<1>1. /\ daemon \in Daemons /\ desktop \in Desktops
      /\ record \in {{}} \union {{r} : r \in Records}
      /\ daemon.pac \in BOOLEAN
  BY Zenon DEF ProxyAll, ProxyInv, ProxyTypeOK, Daemons
<1>2. record' = record /\ users' = users /\ spoilt' = spoilt /\ desktop' \in UnderWay
  BY Zenon DEF Crash
<1>3. SameDaemon(daemon', "down")
  <2>1. daemon' = [daemon EXCEPT !.at = "down", !.stop = "no"]
    BY Zenon DEF Crash
  <2>2. daemon' \in Daemons /\ daemon'.at = "down" /\ daemon'.token = daemon.token
    BY <1>1, <2>1, Zenon DEF Daemons, ProxyPlaces, Stopping
  <2>3. daemon'.took = daemon.took
    BY <1>1, <2>1, Zenon DEF Daemons
  <2> QED BY <2>2, <2>3, Zenon DEF SameDaemon
<1>4. \A r \in record : r \in Records /\ r.pac \in BOOLEAN /\ r.original \in Settings
  BY <1>1, Zenon DEF Records
<1>5. UnderWay \subseteq Desktops
  <2>1. \A r \in record : /\ Through(Engaging(desktop, r.pac)) \subseteq Desktops
                          /\ Through(Restoring(desktop, r.original)) \subseteq Desktops
    <3>1. \A r \in record : StatesSound(Engaging(desktop, r.pac))
      BY <1>1, <1>4, EngagingSound, Zenon
    <3>2. \A r \in record : StatesSound(Restoring(desktop, r.original))
      BY <1>1, <1>4, RestoringSound, Zenon
    <3> QED BY <3>1, <3>2, Zenon DEF StatesSound
  <2>2. Through(Engaging(desktop, daemon.pac)) \subseteq Desktops
    BY <1>1, EngagingSound, Zenon DEF StatesSound
  <2>3. CASE At("replay")
    <3>1. UnderWay = UNION {Through(Engaging(desktop, r.pac)) : r \in record}
      BY <2>3, Zenon DEF UnderWay, At
    <3> QED BY <2>1, <3>1, Zenon
  <2>4. CASE At("apply")
    BY <2>2, <2>4, Zenon DEF UnderWay, At
  <2>5. CASE At("revert")
    <3>1. UnderWay = UNION {Through(Restoring(desktop, r.original)) : r \in record}
      BY <2>5, Zenon DEF UnderWay, At
    <3> QED BY <2>1, <3>1, Zenon
  <2>6. CASE ~At("replay") /\ ~At("apply") /\ ~At("revert")
    BY <1>1, <2>6, Zenon DEF UnderWay
  <2> QED BY <2>3, <2>4, <2>5, <2>6, Zenon
<1>6. record = {} => desktop' = desktop
  <2>1. record = {} => ~At("replay") /\ ~At("apply") /\ ~At("revert")
    BY Zenon DEF ProxyAll, ProxyInv, ProxyCallsKnow, At
  <2>2. ~At("replay") /\ ~At("apply") /\ ~At("revert") => UnderWay = {desktop}
    BY Zenon DEF UnderWay
  <2> QED BY <1>2, <2>1, <2>2, Zenon
<1>7. ProxyTypeOK'
  BY <1>2, <1>3, <1>5, Zenon DEF ProxyAll, ProxyInv, ProxyTypeOK, SameDaemon
<1>8. RecordHoldsOriginal'
  BY <1>2, Zenon DEF ProxyAll, ProxyInv, RecordHoldsOriginal
<1>9. ProxyCallsKnow'
  BY <1>2, <1>3, <1>6, Zenon DEF ProxyAll, ProxyInv, ProxyCallsKnow, SameDaemon, At
<1>10. RecoveredIsOwned'
  BY <1>2, <1>3, Zenon DEF ProxyAll, RecoveredIsOwned, SameDaemon
<1>11. [Effect!Next]_(Effect!vars)
  <2>1. CASE record # {}
    BY <1>2, <2>1, ProxyAbstractStep, Zenon
  <2>2. CASE record = {}
    BY <1>2, <1>6, <2>2, ProxyAbstractStep, Zenon DEF ProxyThere
  <2> QED BY <2>1, <2>2, Zenon
<1> QED BY <1>7, <1>8, <1>9, <1>10, <1>11, Zenon DEF ProxyAll, ProxyInv

LEMMA UserSetsKeeps ==
    ASSUME ProxyAll, UserSets
    PROVE  ProxyAll' /\ [Effect!Next]_(Effect!vars)
<1>1. desktop' \in UserDesktops
  BY Zenon DEF UserSets
<1>2. /\ record = {} /\ record' = record /\ daemon' = daemon /\ users' = Shows(desktop')
      /\ spoilt' = FALSE
  BY Zenon DEF UserSets
<1>3. desktop' \in Desktops
  BY <1>1, UserShows, Zenon
<1>4. Shows(desktop') \in UserSettings
  BY <1>1, UserShows, Zenon
<1>5. Shows(desktop') \in Settings
  BY <1>3, ShowsTyped, Zenon
<1>6. ProxyTypeOK'
  BY <1>2, <1>3, <1>5, Zenon DEF ProxyAll, ProxyInv, ProxyTypeOK
<1>7. RecordHoldsOriginal' /\ RecoveredIsOwned'
  BY <1>2, Zenon DEF RecordHoldsOriginal, RecoveredIsOwned
<1>8. ProxyCallsKnow'
  BY <1>2, <1>4, Zenon DEF ProxyAll, ProxyInv, ProxyCallsKnow, At
<1>9. [Effect!Next]_(Effect!vars)
  <2>1. ~ProxyThere'
    BY <1>2, Zenon DEF ProxyThere
  <2>2. ~ProxyThere
    BY <1>2, Zenon DEF ProxyAll, ProxyInv, ProxyCallsKnow, ProxyThere
  <2> QED BY <1>2, <2>1, <2>2, ProxyAbstractStep, Zenon
<1> QED BY <1>6, <1>7, <1>8, <1>9, Zenon DEF ProxyAll, ProxyInv

LEMMA ProxyStepKeeps ==
    ASSUME ProxyAll, [ProxyNext]_proxyVars
    PROVE  ProxyAll' /\ [Effect!Next]_(Effect!vars)
<1>1. CASE UNCHANGED proxyVars
  <2>1. /\ desktop' = desktop /\ record' = record /\ daemon' = daemon
        /\ users' = users /\ spoilt' = spoilt
    BY <1>1, Zenon DEF proxyVars
  <2>2. ProxyAll'
    BY <2>1, Zenon DEF ProxyAll, ProxyInv, ProxyTypeOK, RecordHoldsOriginal, ProxyCallsKnow,
          RecoveredIsOwned, At
  <2>3. [Effect!Next]_(Effect!vars)
    BY <2>1, ProxyAbstractStep, Zenon DEF ProxyThere
  <2> QED BY <2>2, <2>3, Zenon
<1>2. CASE \/ BootGate \/ GateNothingPending \/ OwnFails \/ BootWithoutProxy
           \/ EngagePersistFails \/ EngageAgain \/ Off \/ Shutdown \/ Exit
  <2>1. UNCHANGED <<desktop, record, users, spoilt>>
    BY <1>2, Zenon DEF BootGate, GateNothingPending, OwnFails, BootWithoutProxy,
          EngagePersistFails, EngageAgain, Off, Shutdown, Exit
  <2> QED BY <1>2, <2>1, ProxyMovesKeeps, Zenon
<1> QED
  BY <1>1, <1>2, ProxyRecordsKeeps, ProxyDesktopKeeps, ProxyClearsKeeps, ProxyCrashKeeps,
     UserSetsKeeps, Zenon DEF ProxyNext

-----------------------------------------------------------------------------
\* The two durable backends with their boot gates: whatever fails and wherever
\* the daemon is killed, the proxy's record holds the setting the user chose, a
\* recovered record is the running daemon's own, and a TUN handle in memory is
\* backed by the device and by its record.
THEOREM EffectsAreOwned == ProxySpec /\ TunSpec => []EffectsInv
<1>1. ProxyAll /\ [ProxyNext]_proxyVars => ProxyAll'
  BY ProxyStepKeeps, Zenon
<1>2. TunInv /\ [TunNext]_tunVars => TunInv'
  BY TunStepKeeps, Zenon
<1>3. ProxyAll /\ TunInv => EffectsInv
  BY Zenon DEF ProxyAll, EffectsInv
<1> QED BY <1>1, <1>2, <1>3, ProxyStarts, TunStarts, PTL DEF ProxySpec, TunSpec

\* Both backends implement SideEffect: an effect is put in place only under a
\* record, and the record goes only once the effect is gone, except for a device
\* that a failed release or a failed engagement left without a handle and for a
\* setting that was unreadable, half replaced, or an empty PAC URL.
THEOREM PromisesAreKept == ProxySpec /\ TunSpec => PromisesKept
<1>1. ProxyAll /\ [ProxyNext]_proxyVars => ProxyAll' /\ [Effect!Next]_(Effect!vars)
  BY ProxyStepKeeps, Zenon
<1>2. TunInv /\ [TunNext]_tunVars => TunInv' /\ [TunEffect!Next]_(TunEffect!vars)
  BY TunStepKeeps, Zenon
<1> QED
  BY <1>1, <1>2, ProxyStarts, TunStarts, PTL
     DEF ProxySpec, TunSpec, PromisesKept, KeepsPromise, TunKeepsPromise, Effect!Spec,
         TunEffect!Spec
=============================================================================
