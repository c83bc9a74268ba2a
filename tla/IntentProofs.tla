---------------------------- MODULE IntentProofs ----------------------------
(***************************************************************************)
(* Theorems about what a daemon must have before it acts for anyone: the   *)
(* instance lock, and the intent its two actors share.  Each part has one  *)
(* lemma per action or group of like actions, saying that it keeps the     *)
(* part's invariant.                                                       *)
(***************************************************************************)
EXTENDS InstanceLock, DesiredIntent, TLAPS

-----------------------------------------------------------------------------
(***************************************************************************)
(* The instance lock.  Every step keeps the invariant by itself but one:   *)
(* the removal of a stale file, which acts on a judgement of an owner read *)
(* earlier, and must not find another process's file at the path by then.  *)
(***************************************************************************)
NobodyOwns == \A q \in Procs : proc[q] \notin {"writes", "holds"}

\* The file names one process.
LEMMA OneFile ==
    ASSUME NEW p, NEW q, NEW v, NEW w,
           {[by |-> p, written |-> v]} = {[by |-> q, written |-> w]}
    PROVE  p = q
<1>1. [by |-> p, written |-> v] = [by |-> q, written |-> w]
  BY Zenon
<1>2. [by |-> p, written |-> v].by = [by |-> q, written |-> w].by
  BY <1>1, Zenon
<1> QED BY <1>2, Zenon

LEMMA OwnerIsAlone ==
    ASSUME LockInv, NEW p \in Procs, proc[p] \in {"writes", "holds"},
           NEW q \in Procs, proc[q] \in {"writes", "holds"}
    PROVE  p = q
<1>1. \E v : file = {[by |-> p, written |-> v]}
  BY Zenon DEF LockInv, HolderNamed, StartersKnow
<1>2. \E w : file = {[by |-> q, written |-> w]}
  BY Zenon DEF LockInv, HolderNamed, StartersKnow
<1> QED BY <1>1, <1>2, OneFile, ZenonT(60)

LEMMA LockStarts == LockInit => LockInv
BY LockBounds DEF LockInit, LockInv, LockTypeOK, HolderNamed, StartersKnow, Places

LEMMA MoveTyped ==
    ASSUME LockTypeOK, NEW p \in Procs, NEW at \in Places, Move(p, at)
    PROVE  /\ proc' \in [Procs -> Places]
           /\ proc'[p] = at
           /\ \A q \in Procs \ {p} : proc'[q] = proc[q]
BY Zenon DEF Move, LockTypeOK

LEMMA CreatesFileKeeps ==
    ASSUME LockInv, NEW p \in Procs, proc[p] \in {"new", "creates"}, CreatesFile(p),
           seen' = [seen EXCEPT ![p] = {}] \/ seen' = seen, UNCHANGED tries
    PROVE  LockInv'
<1>1. "writes" \in Places BY Zenon DEF Places
<1>2. /\ proc' \in [Procs -> Places]
      /\ proc'[p] = "writes"
      /\ \A q \in Procs \ {p} : proc'[q] = proc[q]
  BY <1>1, MoveTyped, Zenon DEF CreatesFile, LockInv
<1>3. LockTypeOK'
  BY <1>2 DEF LockInv, LockTypeOK, CreatesFile
<1>4. \A q \in Procs : proc[q] \notin {"writes", "holds"}
  BY Zenon DEF LockInv, CreatesFile, HolderNamed, StartersKnow
<1>5. HolderNamed'
  BY <1>2, <1>4, Zenon DEF HolderNamed
<1>6. StartersKnow'
  <2>1. \A q \in Procs : proc'[q] = "writes" => file' = {[by |-> q, written |-> FALSE]}
    BY <1>2, <1>4, Zenon DEF CreatesFile
  <2>2. \A f \in file' :
          proc'[f.by] \in IF f.written THEN {"holds", "killed"} ELSE {"writes", "killed"}
    BY <1>2 DEF CreatesFile
  <2>3. \A q \in Procs : seen'[q] \subseteq seen[q] /\ (q # p => seen'[q] = seen[q])
    BY Zenon DEF LockInv, LockTypeOK
  <2>4. \A q \in Procs : \A o \in seen'[q] : o # q /\ proc'[o] \in {"holds", "exited", "killed"}
    BY <2>3, <1>2 DEF LockInv, LockTypeOK, StartersKnow
  <2>5. \A q \in Procs : proc'[q] \in {"judges", "removes"} => seen'[q] # {}
    BY <2>3, <1>2, Zenon DEF LockInv, StartersKnow
  <2>6. \A q \in Procs : proc'[q] = "removes" => \A o \in seen'[q] : ~Alive(o)'
    BY <2>3, <1>2, Zenon DEF LockInv, LockTypeOK, StartersKnow, Alive
  <2> QED BY <2>1, <2>2, <2>4, <2>5, <2>6, Zenon DEF StartersKnow
<1> QED BY <1>3, <1>5, <1>6, Zenon DEF LockInv

\* A process that moves on without touching the file, its record of the owner
\* read or a place where it owns the lock.
LEMMA WalksOn ==
    ASSUME LockInv, NEW p \in Procs, NEW at \in Places, Move(p, at), UNCHANGED file,
           proc[p] \notin {"writes", "holds", "exited", "killed"},
           at \notin {"writes", "holds", "judges", "removes"},
           seen' = [seen EXCEPT ![p] = {}] \/ seen' = seen, tries' \in [Procs -> 0 .. RetryLimit + 1]
    PROVE  LockInv'
<1>2. /\ proc' \in [Procs -> Places]
      /\ proc'[p] = at
      /\ \A q \in Procs \ {p} : proc'[q] = proc[q]
  BY MoveTyped, Zenon DEF LockInv
<1>3. LockTypeOK'
  BY <1>2, Zenon DEF LockInv, LockTypeOK
<1>5. HolderNamed'
  BY <1>2, Zenon DEF LockInv, HolderNamed
<1>6. StartersKnow'
  <2>1. \A q \in Procs : proc'[q] = "writes" => file' = {[by |-> q, written |-> FALSE]}
    BY <1>2, Zenon DEF LockInv, StartersKnow
  <2>2. \A f \in file' :
          proc'[f.by] \in IF f.written THEN {"holds", "killed"} ELSE {"writes", "killed"}
    BY <1>2, Zenon DEF LockInv, LockTypeOK, StartersKnow
  <2>3. \A q \in Procs : seen'[q] \subseteq seen[q] /\ (q # p => seen'[q] = seen[q])
    BY Zenon DEF LockInv, LockTypeOK
  <2>4. \A q \in Procs : \A o \in seen'[q] : o # q /\ proc'[o] \in {"holds", "exited", "killed"}
    BY <2>3, <1>2, Zenon DEF LockInv, LockTypeOK, StartersKnow
  <2>5. \A q \in Procs : proc'[q] \in {"judges", "removes"} => seen'[q] # {}
    BY <2>3, <1>2, Zenon DEF LockInv, StartersKnow
  <2>6. \A q \in Procs : proc'[q] = "removes" => \A o \in seen'[q] : ~Alive(o)'
    BY <2>3, <1>2, Zenon DEF LockInv, LockTypeOK, StartersKnow, Alive
  <2> QED BY <2>1, <2>2, <2>4, <2>5, <2>6, Zenon DEF StartersKnow
<1> QED BY <1>3, <1>5, <1>6, Zenon DEF LockInv

LEMMA AcquireKeeps ==
    ASSUME LockInv, NEW p \in Procs, Acquire(p) PROVE LockInv'
<1>1. CASE CreatesFile(p)
  BY <1>1, CreatesFileKeeps, Zenon DEF Acquire
<1>2. CASE file # {} /\ Move(p, "loop") /\ UNCHANGED file
  <2>1. "loop" \in Places BY Zenon DEF Places
  <2>2. tries' \in [Procs -> 0 .. RetryLimit + 1] BY Zenon DEF Acquire, LockInv, LockTypeOK
  <2> QED BY <1>2, <2>1, <2>2, WalksOn, Zenon DEF Acquire
<1> QED BY <1>1, <1>2, Zenon DEF Acquire

LEMMA CreatesAgainKeeps ==
    ASSUME LockInv, NEW p \in Procs, CreatesAgain(p) PROVE LockInv'
<1>1. CASE CreatesFile(p)
  BY <1>1, CreatesFileKeeps, Zenon DEF CreatesAgain
<1>2. CASE file # {} /\ Move(p, "loop") /\ UNCHANGED file
  <2>1. "loop" \in Places BY Zenon DEF Places
  <2>2. tries' \in [Procs -> 0 .. RetryLimit + 1] BY Zenon DEF CreatesAgain, LockInv, LockTypeOK
  <2> QED BY <1>2, <2>1, <2>2, WalksOn, Zenon DEF CreatesAgain
<1> QED BY <1>1, <1>2, Zenon DEF CreatesAgain

LEMMA GivesUpKeeps ==
    ASSUME LockInv, NEW p \in Procs, GivesUp(p) PROVE LockInv'
<1>1. "refused" \in Places BY Zenon DEF Places
<1>2. tries' \in [Procs -> 0 .. RetryLimit + 1] BY Zenon DEF GivesUp, LockInv, LockTypeOK
<1> QED BY <1>1, <1>2, WalksOn, Zenon DEF GivesUp

LEMMA WritesTokenKeeps ==
    ASSUME LockInv, NEW p \in Procs, WritesToken(p) PROVE LockInv'
<1>1. "holds" \in Places BY Zenon DEF Places
<1>2. /\ proc' \in [Procs -> Places]
      /\ proc'[p] = "holds"
      /\ \A q \in Procs \ {p} : proc'[q] = proc[q]
  BY <1>1, MoveTyped, Zenon DEF WritesToken, LockInv
<1>3. proc[p] = "writes" /\ seen' = seen /\ tries' = tries
  BY Zenon DEF WritesToken
<1>4. file = {[by |-> p, written |-> FALSE]}
  BY <1>3, Zenon DEF LockInv, StartersKnow
<1>5. file' = {[by |-> p, written |-> TRUE]}
  <2>1. file' = {[[by |-> p, written |-> FALSE] EXCEPT !.written = TRUE]}
    BY <1>4 DEF WritesToken
  <2> QED BY <2>1
<1>6. LockTypeOK'
  BY <1>2, <1>3, <1>5 DEF LockInv, LockTypeOK
<1>7. \A q \in Procs \ {p} : proc[q] \notin {"writes", "holds"}
  BY <1>3, OwnerIsAlone, Zenon
<1>8. HolderNamed'
  BY <1>2, <1>5, <1>7, Zenon DEF HolderNamed
<1>9. StartersKnow'
  <2>1. \A q \in Procs : proc'[q] # "writes"
    BY <1>2, <1>7, Zenon
  <2>2. \A f \in file' :
          proc'[f.by] \in IF f.written THEN {"holds", "killed"} ELSE {"writes", "killed"}
    BY <1>2, <1>5
  <2>4. \A q \in Procs : \A o \in seen'[q] : o # q /\ proc'[o] \in {"holds", "exited", "killed"}
    BY <1>2, <1>3, Zenon DEF LockInv, LockTypeOK, StartersKnow
  <2>5. \A q \in Procs : proc'[q] \in {"judges", "removes"} => seen'[q] # {}
    BY <1>2, <1>3, Zenon DEF LockInv, StartersKnow
  <2>6. \A q \in Procs : proc'[q] = "removes" => \A o \in seen'[q] : ~Alive(o)'
    BY <1>2, <1>3, Zenon DEF LockInv, LockTypeOK, StartersKnow, Alive
  <2> QED BY <2>1, <2>2, <2>4, <2>5, <2>6, Zenon DEF StartersKnow
<1> QED BY <1>6, <1>8, <1>9, Zenon DEF LockInv

LEMMA ReadsOwnerKeeps ==
    ASSUME LockInv, NEW p \in Procs, ReadsOwner(p) PROVE LockInv'
<1>1. tries' \in [Procs -> 0 .. RetryLimit + 1]
  BY LockBounds DEF ReadsOwner, LockInv, LockTypeOK
<1>2. proc[p] = "loop" /\ file' = file
  BY Zenon DEF ReadsOwner
<1>3. CASE Move(p, "creates") /\ UNCHANGED seen
  <2>1. "creates" \in Places BY Zenon DEF Places
  <2> QED BY <1>1, <1>2, <1>3, <2>1, WalksOn, Zenon
<1>4. CASE Move(p, "refused") /\ UNCHANGED seen
  <2>1. "refused" \in Places BY Zenon DEF Places
  <2> QED BY <1>1, <1>2, <1>4, <2>1, WalksOn, Zenon
<1>5. ASSUME NEW f \in file, f.written, seen' = [seen EXCEPT ![p] = {f.by}], Move(p, "judges")
      PROVE  LockInv'
  <2>1. "judges" \in Places BY Zenon DEF Places
  <2>2. /\ proc' \in [Procs -> Places]
        /\ proc'[p] = "judges"
        /\ \A q \in Procs \ {p} : proc'[q] = proc[q]
    BY <2>1, <1>5, MoveTyped, Zenon DEF LockInv
  <2>3. f.by \in Procs /\ f.by # p /\ proc[f.by] \in {"holds", "killed"}
    BY <1>2, <1>5, Zenon DEF LockInv, LockTypeOK, StartersKnow
  <2>4. /\ seen' \in [Procs -> SUBSET Procs]
        /\ seen'[p] = {f.by}
        /\ \A q \in Procs \ {p} : seen'[q] = seen[q]
    BY <1>5, <2>3, Zenon DEF LockInv, LockTypeOK
  <2>5. LockTypeOK'
    BY <1>1, <1>2, <2>2, <2>4, Zenon DEF LockInv, LockTypeOK
  <2>6. HolderNamed'
    BY <1>2, <2>2, Zenon DEF LockInv, HolderNamed
  <2>7. StartersKnow'
    <3>1. \A q \in Procs : proc'[q] = "writes" => file' = {[by |-> q, written |-> FALSE]}
      BY <1>2, <2>2, Zenon DEF LockInv, StartersKnow
    <3>2. \A g \in file' :
            proc'[g.by] \in IF g.written THEN {"holds", "killed"} ELSE {"writes", "killed"}
      BY <1>2, <2>2, Zenon DEF LockInv, LockTypeOK, StartersKnow
    <3>4. \A q \in Procs : \A o \in seen'[q] : o # q /\ proc'[o] \in {"holds", "exited", "killed"}
      BY <1>2, <2>2, <2>3, <2>4 DEF LockInv, LockTypeOK, StartersKnow
    <3>5. \A q \in Procs : proc'[q] \in {"judges", "removes"} => seen'[q] # {}
      BY <2>2, <2>4, Zenon DEF LockInv, StartersKnow
    <3>6. \A q \in Procs : proc'[q] = "removes" => \A o \in seen'[q] : ~Alive(o)'
      BY <1>2, <2>2, <2>4 DEF LockInv, LockTypeOK, StartersKnow, Alive
    <3> QED BY <3>1, <3>2, <3>4, <3>5, <3>6, Zenon DEF StartersKnow
  <2> QED BY <2>5, <2>6, <2>7, Zenon DEF LockInv
<1> QED BY <1>3, <1>4, <1>5, Zenon DEF ReadsOwner

LEMMA JudgesOwnerKeeps ==
    ASSUME LockInv, NEW p \in Procs, JudgesOwner(p) PROVE LockInv'
<1>1. tries' \in [Procs -> 0 .. RetryLimit + 1]
  BY Zenon DEF JudgesOwner, LockInv, LockTypeOK
<1>2. proc[p] = "judges" /\ file' = file /\ seen' = seen
  BY Zenon DEF JudgesOwner
<1>3. CASE Move(p, "creates")
  <2>1. "creates" \in Places BY Zenon DEF Places
  <2> QED BY <1>1, <1>2, <1>3, <2>1, WalksOn, Zenon
<1>4. CASE Move(p, "removes") /\ \A o \in seen[p] : ~Alive(o)
  <2>1. "removes" \in Places BY Zenon DEF Places
  <2>2. /\ proc' \in [Procs -> Places]
        /\ proc'[p] = "removes"
        /\ \A q \in Procs \ {p} : proc'[q] = proc[q]
    BY <2>1, <1>4, MoveTyped, Zenon DEF LockInv
  <2>5. LockTypeOK'
    BY <1>1, <1>2, <2>2, Zenon DEF LockInv, LockTypeOK
  <2>6. HolderNamed'
    BY <1>2, <2>2, Zenon DEF LockInv, HolderNamed
  <2>7. StartersKnow'
    <3>1. \A q \in Procs : proc'[q] = "writes" => file' = {[by |-> q, written |-> FALSE]}
      BY <1>2, <2>2, Zenon DEF LockInv, StartersKnow
    <3>2. \A g \in file' :
            proc'[g.by] \in IF g.written THEN {"holds", "killed"} ELSE {"writes", "killed"}
      BY <1>2, <2>2, Zenon DEF LockInv, LockTypeOK, StartersKnow
    <3>4. \A q \in Procs : \A o \in seen'[q] : o # q /\ proc'[o] \in {"holds", "exited", "killed"}
      BY <1>2, <2>2, ZenonT(60) DEF LockInv, LockTypeOK, StartersKnow
    <3>5. \A q \in Procs : proc'[q] \in {"judges", "removes"} => seen'[q] # {}
      BY <1>2, <2>2, Zenon DEF LockInv, StartersKnow
    <3>6. \A q \in Procs : proc'[q] = "removes" => \A o \in seen'[q] : ~Alive(o)'
      BY <1>2, <1>4, <2>2, Zenon DEF LockInv, LockTypeOK, StartersKnow, Alive
    <3> QED BY <3>1, <3>2, <3>4, <3>5, <3>6, Zenon DEF StartersKnow
  <2> QED BY <2>5, <2>6, <2>7, Zenon DEF LockInv
<1> QED BY <1>3, <1>4, Zenon DEF JudgesOwner

LEMMA RemovesStaleKeeps ==
    ASSUME LockInv, NEW p \in Procs, RemovesStale(p), NobodyOwns PROVE LockInv'
<1>1. PICK at \in {"refused", "loop"} : Move(p, at)
  BY Zenon DEF RemovesStale
<1>2. /\ proc' \in [Procs -> Places]
      /\ proc'[p] = at
      /\ \A q \in Procs \ {p} : proc'[q] = proc[q]
  <2>1. at \in Places BY Zenon DEF Places
  <2> QED BY <2>1, <1>1, MoveTyped, Zenon DEF LockInv
<1>3. proc[p] = "removes" /\ file' = {} /\ tries' = tries
  BY Zenon DEF RemovesStale
<1>4. \A q \in Procs : seen'[q] \subseteq seen[q] /\ (q # p => seen'[q] = seen[q])
  BY Zenon DEF RemovesStale, LockInv, LockTypeOK
<1>5. LockTypeOK'
  BY <1>2, <1>3, Zenon DEF RemovesStale, LockInv, LockTypeOK
<1>6. HolderNamed'
  BY <1>2, Zenon DEF HolderNamed, NobodyOwns
<1>7. StartersKnow'
  <2>1. \A q \in Procs : proc'[q] # "writes"
    BY <1>2, Zenon DEF NobodyOwns
  <2>4. \A q \in Procs : \A o \in seen'[q] : o # q /\ proc'[o] \in {"holds", "exited", "killed"}
    BY <1>2, <1>3, <1>4 DEF LockInv, LockTypeOK, StartersKnow
  <2>5. \A q \in Procs : proc'[q] \in {"judges", "removes"} => seen'[q] # {}
    BY <1>2, <1>4, Zenon DEF LockInv, StartersKnow
  <2>6. \A q \in Procs : proc'[q] = "removes" => \A o \in seen'[q] : ~Alive(o)'
    BY <1>2, <1>3, <1>4, Zenon DEF LockInv, LockTypeOK, StartersKnow, Alive
  <2> QED BY <1>3, <2>1, <2>4, <2>5, <2>6, Zenon DEF StartersKnow
<1> QED BY <1>5, <1>6, <1>7, Zenon DEF LockInv

LEMMA ReleaseKeeps ==
    ASSUME LockInv, NEW p \in Procs, Release(p) PROVE LockInv'
<1>1. "exited" \in Places BY Zenon DEF Places
<1>2. /\ proc' \in [Procs -> Places]
      /\ proc'[p] = "exited"
      /\ \A q \in Procs \ {p} : proc'[q] = proc[q]
  BY <1>1, MoveTyped, Zenon DEF Release, LockInv
<1>3. proc[p] = "holds" /\ file' = {} /\ seen' = seen /\ tries' = tries
  BY Zenon DEF Release
<1>4. \A q \in Procs \ {p} : proc[q] \notin {"writes", "holds"}
  BY <1>3, OwnerIsAlone, Zenon
<1>5. LockTypeOK'
  BY <1>2, <1>3, Zenon DEF LockInv, LockTypeOK
<1>6. HolderNamed'
  BY <1>2, <1>4, Zenon DEF HolderNamed
<1>7. StartersKnow'
  <2>1. \A q \in Procs : proc'[q] # "writes"
    BY <1>2, <1>4, Zenon
  <2>4. \A q \in Procs : \A o \in seen'[q] : o # q /\ proc'[o] \in {"holds", "exited", "killed"}
    BY <1>2, <1>3, Zenon DEF LockInv, LockTypeOK, StartersKnow
  <2>5. \A q \in Procs : proc'[q] \in {"judges", "removes"} => seen'[q] # {}
    BY <1>2, <1>3, Zenon DEF LockInv, StartersKnow
  <2>6. \A q \in Procs : proc'[q] = "removes" => \A o \in seen'[q] : ~Alive(o)'
    BY <1>2, <1>3, Zenon DEF LockInv, LockTypeOK, StartersKnow, Alive
  <2> QED BY <1>3, <2>1, <2>4, <2>5, <2>6, Zenon DEF StartersKnow
<1> QED BY <1>5, <1>6, <1>7, Zenon DEF LockInv

LEMMA KilledKeeps ==
    ASSUME LockInv, NEW p \in Procs, Killed(p) PROVE LockInv'
<1>1. "killed" \in Places BY Zenon DEF Places
<1>2. /\ proc' \in [Procs -> Places]
      /\ proc'[p] = "killed"
      /\ \A q \in Procs \ {p} : proc'[q] = proc[q]
  BY <1>1, MoveTyped, Zenon DEF Killed, LockInv
<1>3. Alive(p) /\ file' = file /\ seen' = seen /\ tries' = tries
  BY Zenon DEF Killed
<1>5. LockTypeOK'
  BY <1>2, <1>3, Zenon DEF LockInv, LockTypeOK
<1>6. HolderNamed'
  BY <1>2, <1>3, Zenon DEF LockInv, HolderNamed
<1>7. StartersKnow'
  <2>1. \A q \in Procs : proc'[q] = "writes" => file' = {[by |-> q, written |-> FALSE]}
    BY <1>2, <1>3, Zenon DEF LockInv, StartersKnow
  <2>2. \A f \in file' :
          proc'[f.by] \in IF f.written THEN {"holds", "killed"} ELSE {"writes", "killed"}
    BY <1>2, <1>3, Zenon DEF LockInv, LockTypeOK, StartersKnow
  <2>4. \A q \in Procs : \A o \in seen'[q] : o # q /\ proc'[o] \in {"holds", "exited", "killed"}
    BY <1>2, <1>3, Zenon DEF LockInv, LockTypeOK, StartersKnow
  <2>5. \A q \in Procs : proc'[q] \in {"judges", "removes"} => seen'[q] # {}
    BY <1>2, <1>3, Zenon DEF LockInv, StartersKnow
  <2>6. \A q \in Procs : proc'[q] = "removes" => \A o \in seen'[q] : ~Alive(o)'
    BY <1>2, <1>3, Zenon DEF LockInv, LockTypeOK, StartersKnow, Alive
  <2> QED BY <2>1, <2>2, <2>4, <2>5, <2>6, Zenon DEF StartersKnow
<1> QED BY <1>5, <1>6, <1>7, Zenon DEF LockInv

LEMMA LockStepKeeps ==
    ASSUME LockInv, [LockNext]_lockVars,
           \A p \in Procs : proc[p] = "removes" => NobodyOwns
    PROVE  LockInv'
<1>1. CASE UNCHANGED lockVars
  BY <1>1, Zenon DEF lockVars, LockInv, LockTypeOK, HolderNamed, StartersKnow, Alive
<1>2. ASSUME NEW p \in Procs, RemovesStale(p) PROVE LockInv'
  <2>1. NobodyOwns BY <1>2, Zenon DEF RemovesStale
  <2> QED BY <1>2, <2>1, RemovesStaleKeeps, Zenon
<1> QED
  BY <1>1, <1>2, AcquireKeeps, WritesTokenKeeps, ReadsOwnerKeeps, JudgesOwnerKeeps,
     CreatesAgainKeeps, GivesUpKeeps, ReleaseKeeps, KilledKeeps, Zenon DEF LockNext

\* At most two processes ever start.
TwoStarters == \A p, q, r \in Procs : p = q \/ q = r \/ p = r

\* One process at a time is on its way to the lock.
Starting(p) == proc[p] \in {"writes", "loop", "judges", "removes", "creates"}

OneStarter == \A p, q \in Procs : Starting(p) /\ Starting(q) => p = q

\* The file at the path is the one the judged owner wrote, or none.
FileWasRead ==
    \A p \in Procs : proc[p] \in {"judges", "removes"} => \A f \in file : f.by \in seen[p]

\* With two processes the owner found dead is the only other one.
LEMMA OtherIsDead ==
    ASSUME TwoStarters, LockInv, NEW p \in Procs, proc[p] = "removes" PROVE NobodyOwns
<1>1. PICK o \in seen[p] : o \in Procs /\ o # p /\ ~Alive(o)
  BY DEF LockInv, LockTypeOK, StartersKnow
<1>2. \A q \in Procs : q = p \/ q = o
  BY <1>1, Zenon DEF TwoStarters
<1>3. proc[o] \notin {"writes", "holds"}
  BY <1>1, Zenon DEF Alive
<1>4. proc[p] \notin {"writes", "holds"}
  BY Zenon
<1> QED BY <1>2, <1>3, <1>4, Zenon DEF NobodyOwns

\* With one starter at a time the file that is removed is the one that was read.
LEMMA ReadFileIsDead ==
    ASSUME OneStarter, FileWasRead, LockInv, NEW p \in Procs, proc[p] = "removes"
    PROVE  NobodyOwns
<1>1. ASSUME NEW q \in Procs, proc[q] = "holds" PROVE FALSE
  <2>1. file = {[by |-> q, written |-> TRUE]}
    BY <1>1, Zenon DEF LockInv, HolderNamed
  <2>2. q \in seen[p]
    BY <2>1, Zenon DEF FileWasRead
  <2>3. ~Alive(q)
    BY <2>2, Zenon DEF LockInv, StartersKnow
  <2> QED BY <1>1, <2>3, Zenon DEF Alive
<1>2. ASSUME NEW q \in Procs, proc[q] = "writes" PROVE FALSE
  BY <1>2, Zenon DEF OneStarter, Starting
<1> QED BY <1>1, <1>2, Zenon DEF NobodyOwns

LEMMA FileStaysRead ==
    ASSUME LockInv, LockInv', OneStarter, OneStarter', FileWasRead, [LockNext]_lockVars
    PROVE  FileWasRead'
<1>1. CASE UNCHANGED lockVars
  BY <1>1, Zenon DEF lockVars, FileWasRead
<1>2. ASSUME NEW p \in Procs,
             \/ Acquire(p) \/ WritesToken(p) \/ ReadsOwner(p) \/ JudgesOwner(p)
             \/ RemovesStale(p) \/ CreatesAgain(p) \/ GivesUp(p) \/ Release(p) \/ Killed(p),
             NEW q \in Procs, proc'[q] \in {"judges", "removes"}, NEW f \in file'
      PROVE  f.by \in seen'[q]
  <2>1. ~Starting(p)' \/ p = q
    BY <1>2, Zenon DEF OneStarter, Starting
  <2>2. CASE p = q
    <3>1. ReadsOwner(p) \/ JudgesOwner(p)
      BY <1>2, <2>2, Zenon DEF LockInv, LockTypeOK, Acquire, CreatesFile, WritesToken, RemovesStale,
            CreatesAgain, GivesUp, Release, Killed, Move
    <3>2. CASE ReadsOwner(p)
      BY <3>2, <1>2, <2>2 DEF ReadsOwner, LockInv, LockTypeOK, Move
    <3>3. CASE JudgesOwner(p)
      BY <3>3, <1>2, <2>2, Zenon DEF JudgesOwner, FileWasRead
    <3> QED BY <3>1, <3>2, <3>3, Zenon
  <2>3. CASE p # q
    <3>1. proc[q] \in {"judges", "removes"} /\ seen'[q] = seen[q]
      BY <1>2, <2>3, Zenon DEF LockInv, LockTypeOK, Acquire, CreatesFile, WritesToken, ReadsOwner,
            JudgesOwner, RemovesStale, CreatesAgain, GivesUp, Release, Killed, Move
    <3>2. ~Starting(p)
      BY <3>1, <2>3, Zenon DEF OneStarter, Starting
    <3>3. file' \subseteq file
      BY <1>2, <2>1, <2>3, <3>2, Zenon DEF LockInv, LockTypeOK, Starting, Acquire, CreatesFile,
            WritesToken, ReadsOwner, JudgesOwner, RemovesStale, CreatesAgain, GivesUp,
            Release, Killed, Move
    <3> QED BY <1>2, <3>1, <3>3, Zenon DEF FileWasRead
  <2> QED BY <2>2, <2>3, Zenon
<1> QED BY <1>1, <1>2, Zenon DEF LockNext, FileWasRead

\* Under that invariant at most one running daemon holds the lock.
LEMMA NamedHolderIsAlone == LockInv => OneHolder
BY OwnerIsAlone, Zenon DEF OneHolder

\* acquire, reclaim and release with at most two daemons: whatever the
\* interleaving and wherever one of them is killed, a process that holds the
\* lock is the one the file names and the only one, and the loop's passes stay bounded.
THEOREM LockOfTwo ==
    ASSUME TwoStarters PROVE LockSpec => [](LockInv /\ OneHolder)
<1>1. LockInv /\ [LockNext]_lockVars => LockInv'
  BY LockStepKeeps, OtherIsDead, Zenon
<1> QED BY <1>1, LockStarts, NamedHolderIsAlone, PTL DEF LockSpec

\* The same for any number of daemons, as long as starts do not overlap: the
\* removal of a stale file is right when no other process is on its way to the
\* lock between the reading of the owner and the removal.
THEOREM LockOfOneStarter == LockSpec /\ []OneStarter => [](LockInv /\ OneHolder)
<1>1. LockInit => FileWasRead
  BY Zenon DEF LockInit, FileWasRead
<1>2. LockInv /\ FileWasRead /\ OneStarter /\ OneStarter' /\ [LockNext]_lockVars
        => (LockInv /\ FileWasRead)'
  <2> SUFFICES ASSUME LockInv, FileWasRead, OneStarter, OneStarter', [LockNext]_lockVars
               PROVE  (LockInv /\ FileWasRead)'
    BY Zenon
  <2>1. LockInv'
    BY LockStepKeeps, ReadFileIsDead, Zenon
  <2> QED BY <2>1, FileStaysRead, Zenon
<1> QED BY <1>1, <1>2, LockStarts, NamedHolderIsAlone, PTL DEF LockSpec

-----------------------------------------------------------------------------
(***************************************************************************)
(* The shared intent.  CopiesAgree is the inductive part: it says what the *)
(* two actors' copies are worth between their value() and replace().       *)
(***************************************************************************)
\* What an update of one flag, and a view of one effect, are worth.
WithSound(s, e, on) ==
    /\ With(s, e, on) \in Desired
    /\ With(s, e, on)[e] = on
    /\ \A f \in PlatformEffect \ {e} : With(s, e, on)[f] = s[f]

ViewSound(e, on) ==
    /\ EffectView(e, on) \in [proxy : BOOLEAN, tun : BOOLEAN]
    /\ EffectView(e, on)[e] = on
    /\ \A f \in PlatformEffect \ {e} : EffectView(e, on)[f] = FALSE

LEMMA WithTyped ==
    ASSUME NEW s \in Desired, NEW e \in PlatformEffect, NEW on \in BOOLEAN
    PROVE  WithSound(s, e, on)
<1>1. CASE e = "proxy"
  <2>1. With(s, e, on) \in Desired
    BY <1>1, Zenon DEF Desired, With
  <2>2. With(s, e, on)[e] = on
    BY <1>1, Zenon DEF Desired, With
  <2>3. With(s, e, on)["tun"] = s["tun"]
    BY <1>1, Zenon DEF Desired, With
  <2> QED BY <1>1, <2>1, <2>2, <2>3, Zenon DEF PlatformEffect, WithSound
<1>2. CASE e = "tun"
  <2>1. With(s, e, on) \in Desired
    BY <1>2, Zenon DEF Desired, With
  <2>2. With(s, e, on)[e] = on
    BY <1>2, Zenon DEF Desired, With
  <2>3. With(s, e, on)["proxy"] = s["proxy"]
    BY <1>2, Zenon DEF Desired, With
  <2> QED BY <1>2, <2>1, <2>2, <2>3, Zenon DEF PlatformEffect, WithSound
<1> QED BY <1>1, <1>2, Zenon DEF PlatformEffect

LEMMA WithModeTyped ==
    ASSUME NEW s \in Desired, NEW m \in Modes \cup {Rule}
    PROVE  /\ With(s, "mode", m) \in Desired
           /\ \A e \in PlatformEffect : With(s, "mode", m)[e] = s[e]
<1>1. With(s, "mode", m) \in Desired
  BY Zenon DEF Desired, With
<1>2. With(s, "mode", m)["proxy"] = s["proxy"] /\ With(s, "mode", m)["tun"] = s["tun"]
  BY Zenon DEF Desired, With
<1> QED BY <1>1, <1>2, Zenon DEF PlatformEffect

LEMMA ViewTyped ==
    ASSUME NEW e \in PlatformEffect, NEW on \in BOOLEAN PROVE ViewSound(e, on)
<1> DEFINE V == [proxy : BOOLEAN, tun : BOOLEAN]
<1>0. NoEffect \in V /\ NoEffect["proxy"] = FALSE /\ NoEffect["tun"] = FALSE
  BY Zenon DEF NoEffect
<1>1. ASSUME NEW v \in V, v["proxy"] = FALSE, v["tun"] = FALSE
      PROVE  /\ [v EXCEPT ![e] = on] \in V
             /\ [v EXCEPT ![e] = on][e] = on
             /\ \A f \in PlatformEffect \ {e} : [v EXCEPT ![e] = on][f] = FALSE
  <2>1. CASE e = "proxy"
    <3>1. [v EXCEPT ![e] = on] \in V
      BY <2>1, Zenon
    <3>2. [v EXCEPT ![e] = on][e] = on
      BY <2>1, Zenon
    <3>3. [v EXCEPT ![e] = on]["tun"] = FALSE
      BY <2>1, <1>1, Zenon
    <3> QED BY <2>1, <3>1, <3>2, <3>3, Zenon DEF PlatformEffect
  <2>2. CASE e = "tun"
    <3>1. [v EXCEPT ![e] = on] \in V
      BY <2>2, Zenon
    <3>2. [v EXCEPT ![e] = on][e] = on
      BY <2>2, Zenon
    <3>3. [v EXCEPT ![e] = on]["proxy"] = FALSE
      BY <2>2, <1>1, Zenon
    <3> QED BY <2>2, <3>1, <3>2, <3>3, Zenon DEF PlatformEffect
  <2> QED BY <2>1, <2>2, Zenon DEF PlatformEffect
<1> HIDE DEF V
<1>2. EffectView(e, on) = [NoEffect EXCEPT ![e] = on]
  BY Zenon DEF EffectView
<1>3. /\ [NoEffect EXCEPT ![e] = on] \in V
      /\ [NoEffect EXCEPT ![e] = on][e] = on
      /\ \A f \in PlatformEffect \ {e} : [NoEffect EXCEPT ![e] = on][f] = FALSE
  BY <1>0, <1>1, Zenon
<1> QED BY <1>2, <1>3, Zenon DEF V, ViewSound

LEMMA DefaultTyped ==
    Default \in Desired /\ \A e \in PlatformEffect : Default[e] = FALSE
BY DEF Default, Desired, PlatformEffect

\* What the boot publishes is engaged.
LEMMA BootSound ==
    ASSUME shown \in Desired, view \in [proxy : BOOLEAN, tun : BOOLEAN],
           NEW engaged \in SUBSET PlatformEffect
    PROVE  /\ BootPublished(engaged).desired \in Desired
           /\ BootPublished(engaged).view \in [proxy : BOOLEAN, tun : BOOLEAN]
           /\ \A e \in PlatformEffect :
                 /\ BootPublished(engaged).desired[e] => e \in engaged \/ shown[e]
                 /\ BootPublished(engaged).view[e] => e \in engaged \/ view[e]
<1> DEFINE Sound(b) ==
             /\ b.desired \in Desired
             /\ b.view \in [proxy : BOOLEAN, tun : BOOLEAN]
             /\ \A e \in PlatformEffect :
                   /\ b.desired[e] => e \in engaged \/ shown[e]
                   /\ b.view[e] => e \in engaged \/ view[e]
<1>1. ASSUME NEW b, Sound(b), NEW effect \in engaged
      PROVE  Sound(PublishBootEffects(b, effect))
  <2>1. "proxy" \in PlatformEffect /\ "tun" \in PlatformEffect /\ effect \in PlatformEffect
    BY <1>1, Zenon DEF PlatformEffect
  <2> DEFINE one == With(b.desired, "proxy", effect = "proxy")
  <2> DEFINE two == With(one, "tun", effect = "tun")
  <2>2. one \in Desired /\ (one["proxy"] => effect = "proxy")
    <3>1. CASE effect = "proxy"
      <4>1. one = With(b.desired, "proxy", TRUE)
        BY <3>1, Zenon
      <4>2. WithSound(b.desired, "proxy", TRUE)
        BY <1>1, <2>1, WithTyped, Zenon
      <4> QED BY <3>1, <4>1, <4>2, Zenon DEF WithSound
    <3>2. CASE effect # "proxy"
      <4>1. one = With(b.desired, "proxy", FALSE)
        BY <3>2, Zenon
      <4>2. WithSound(b.desired, "proxy", FALSE)
        BY <1>1, <2>1, WithTyped, Zenon
      <4> QED BY <4>1, <4>2, Zenon DEF WithSound
    <3> QED BY <3>1, <3>2, Zenon
  <2> HIDE DEF one
  <2>3. two \in Desired /\ (two["tun"] => effect = "tun") /\ two["proxy"] = one["proxy"]
    <3>0. "proxy" \in PlatformEffect \ {"tun"}
      BY <2>1, Zenon
    <3>1. CASE effect = "tun"
      <4>1. two = With(one, "tun", TRUE)
        BY <3>1, Zenon
      <4>2. WithSound(one, "tun", TRUE)
        BY <2>1, <2>2, WithTyped, Zenon
      <4> QED BY <3>0, <3>1, <4>1, <4>2, Zenon DEF WithSound
    <3>2. CASE effect # "tun"
      <4>1. two = With(one, "tun", FALSE)
        BY <3>2, Zenon
      <4>2. WithSound(one, "tun", FALSE)
        BY <2>1, <2>2, WithTyped, Zenon
      <4> QED BY <3>0, <4>1, <4>2, Zenon DEF WithSound
    <3> QED BY <3>1, <3>2, Zenon
  <2>4. \A e \in PlatformEffect : two[e] => e = effect
    BY <2>2, <2>3, Zenon DEF PlatformEffect
  <2> HIDE DEF two
  <2>5. PublishBootEffects(b, effect) = [desired |-> two, view |-> EffectView(effect, TRUE)]
    BY Zenon DEF PublishBootEffects, one, two
  <2>6. /\ EffectView(effect, TRUE) \in [proxy : BOOLEAN, tun : BOOLEAN]
        /\ \A e \in PlatformEffect : EffectView(effect, TRUE)[e] => e = effect
    <3>1. ViewSound(effect, TRUE)
      BY <2>1, ViewTyped, Zenon
    <3> QED BY <3>1, Zenon DEF ViewSound
  <2> DEFINE new == EffectView(effect, TRUE)
  <2> HIDE DEF new
  <2>7. PublishBootEffects(b, effect).desired = two /\ PublishBootEffects(b, effect).view = new
    BY <2>5 DEF new
  <2> QED BY <1>1, <2>3, <2>4, <2>6, <2>7, Zenon DEF new
<1>2. Sound([desired |-> shown, view |-> view])
  BY Zenon
<1> DEFINE start == [desired |-> shown, view |-> view]
<1> DEFINE mid == IF "tun" \in engaged THEN PublishBootEffects(start, "tun") ELSE start
<1>3. Sound(mid)
  BY <1>1, <1>2, Zenon
<1>4. BootPublished(engaged) = IF "proxy" \in engaged THEN PublishBootEffects(mid, "proxy") ELSE mid
  BY Zenon DEF BootPublished
<1> HIDE DEF mid
<1>5. Sound(BootPublished(engaged))
  BY <1>1, <1>3, <1>4, Zenon
<1> QED BY <1>5, Zenon

Spents == [commands : 0..MaxCommands, cancels : 0..MaxCancels, booted : BOOLEAN,
           told : SUBSET PlatformEffect, crossed : BOOLEAN]

LEMMA TakesTyped ==
    ASSUME spent \in Spents, NEW accepted \in SUBSET PlatformEffect, TakesCommand(accepted)
    PROVE  /\ spent' \in Spents
           /\ spent.booted /\ spent'.booted
           /\ spent'.cancels = spent.cancels
           /\ spent'.crossed = spent.crossed
           /\ spent'.told = spent.told \cup accepted
<1>1. spent.commands + 1 \in 0..MaxCommands
  BY DesiredBounds DEF Spents, TakesCommand
<1>2. spent' \in Spents
  BY <1>1, Zenon DEF Spents, TakesCommand
<1>3. spent'.booted = spent.booted
  BY Zenon DEF Spents, TakesCommand
<1>4. spent'.cancels = spent.cancels
  BY Zenon DEF Spents, TakesCommand
<1>5. spent'.crossed = spent.crossed
  BY Zenon DEF Spents, TakesCommand
<1>6. spent'.told = spent.told \cup accepted
  BY Zenon DEF Spents, TakesCommand
<1> QED BY <1>2, <1>3, <1>4, <1>5, <1>6, Zenon DEF TakesCommand

\* A report shows its slices, or the drop is counted and they stay as they were.
LEMMA ReportsTyped ==
    ASSUME spent \in Spents, shown \in Desired, view \in [proxy : BOOLEAN, tun : BOOLEAN],
           NEW d \in Desired, NEW v \in [proxy : BOOLEAN, tun : BOOLEAN], Reports(d, v)
    PROVE  /\ spent' \in Spents
           /\ spent'.booted = spent.booted
           /\ spent'.crossed = spent.crossed
           /\ spent'.told = spent.told
           /\ shown' \in {shown, d}
           /\ view' \in [proxy : BOOLEAN, tun : BOOLEAN]
           /\ spent'.cancels = 0 => spent.cancels = 0 /\ view' = v
<1>1. CASE spent' = spent /\ shown' = d /\ view' = v
  BY <1>1, Zenon
<1>2. CASE /\ spent.cancels < MaxCancels
           /\ spent' = [spent EXCEPT !.cancels = @ + 1]
           /\ UNCHANGED <<shown, view>>
  <2>1. spent.cancels + 1 \in 0..MaxCancels /\ spent.cancels + 1 # 0
    BY <1>2, DesiredBounds DEF Spents
  <2>2. spent' \in Spents /\ spent'.cancels = spent.cancels + 1
    BY <1>2, <2>1, Zenon DEF Spents
  <2>3. spent'.booted = spent.booted
    BY <1>2, Zenon DEF Spents
  <2>4. spent'.crossed = spent.crossed
    BY <1>2, Zenon DEF Spents
  <2>5. spent'.told = spent.told
    BY <1>2, Zenon DEF Spents
  <2> QED BY <1>2, <2>1, <2>2, <2>3, <2>4, <2>5, Zenon
<1> QED BY <1>1, <1>2, Zenon DEF Reports

Cores == [at : {"idle", "replaces", "calls"}, want : Modes \cup {Rule}, held : Desired]
Platforms == [at : {"idle", "reads", "replaces", "reports"}, effect : PlatformEffect,
              on : BOOLEAN, held : Desired]

LEMMA CoreAtTyped ==
    ASSUME core \in Cores, NEW at \in {"idle", "replaces", "calls"},
           core' = [core EXCEPT !.at = at]
    PROVE  core' \in Cores /\ core'.at = at /\ core'.held = core.held
BY Zenon DEF Cores

LEMMA PlatformAtTyped ==
    ASSUME platform \in Platforms, NEW at \in {"idle", "reads", "replaces", "reports"},
           platform' = [platform EXCEPT !.at = at]
    PROVE  /\ platform' \in Platforms
           /\ platform'.at = at
           /\ platform'.held = platform.held
           /\ platform'.effect = platform.effect
           /\ platform'.on = platform.on
<1>1. platform' \in Platforms /\ platform'.at = at
  BY Zenon DEF Platforms
<1>2. platform'.held = platform.held
  BY Zenon DEF Platforms
<1>3. platform'.effect = platform.effect
  BY Zenon DEF Platforms
<1>4. platform'.on = platform.on
  BY Zenon DEF Platforms
<1> QED BY <1>1, <1>2, <1>3, <1>4, Zenon

DesiredTypes ==
    /\ cell \in Desired /\ shown \in Desired /\ real \in Desired
    /\ view \in [proxy : BOOLEAN, tun : BOOLEAN]
    /\ core \in Cores
    /\ platform \in Platforms
    /\ spent \in Spents

BootFirst ==
    ~spent.booted => core.at = "idle" /\ platform.at = "idle" /\ spent.told = {} /\ view = NoEffect

LEMMA TypeFolds ==
    /\ DesiredTypeOK <=> DesiredTypes /\ BootFirst
    /\ DesiredTypeOK' <=> DesiredTypes' /\ BootFirst'
BY Zenon DEF DesiredTypeOK, DesiredTypes, BootFirst, Cores, Platforms, Spents

\* The two properties a reader wants follow from the inductive part.
LEMMA CopiesSuffice ==
    ASSUME DesiredTypes, BootFirst, NoPhantomFlag, CopiesAgree PROVE IntentInv
<1>1. NoFalseClaim
  BY Zenon DEF CopiesAgree, NoFalseClaim
<1>2. CellFollowsEffects
  BY Zenon DEF CopiesAgree, CellFollowsEffects
<1> QED BY <1>1, <1>2, TypeFolds, Zenon DEF IntentInv

LEMMA CopiesSufficeNext ==
    ASSUME DesiredTypes', BootFirst', NoPhantomFlag', CopiesAgree' PROVE IntentInv'
<1>1. NoFalseClaim'
  BY Zenon DEF CopiesAgree, NoFalseClaim
<1>2. CellFollowsEffects'
  BY Zenon DEF CopiesAgree, CellFollowsEffects
<1> QED BY <1>1, <1>2, TypeFolds, Zenon DEF IntentInv

LEMMA IntentStarts == DesiredInit => IntentInv
<1> SUFFICES ASSUME DesiredInit PROVE IntentInv
  BY Zenon
<1>1. "proxy" \in PlatformEffect
  BY Zenon DEF PlatformEffect
<1>2. DesiredTypes /\ BootFirst
  <2>1. core \in Cores
    BY DefaultTyped, Zenon DEF DesiredInit, Cores
  <2>2. platform \in Platforms
    BY DefaultTyped, <1>1, Zenon DEF DesiredInit, Platforms
  <2>3. spent \in Spents
    BY DesiredBounds DEF DesiredInit, Spents
  <2>4. NoEffect \in [proxy : BOOLEAN, tun : BOOLEAN]
    BY Zenon DEF NoEffect
  <2> QED BY <2>1, <2>2, <2>3, <2>4, DefaultTyped, Zenon DEF DesiredInit, DesiredTypes, BootFirst
<1>3. NoPhantomFlag
  BY DefaultTyped, Zenon DEF NoPhantomFlag, DesiredInit
<1>4. CopiesAgree
  <2>1. \A e \in PlatformEffect : ~core.held[e] /\ ~platform.held[e]
    BY DefaultTyped, Zenon DEF DesiredInit
  <2>2. \A e \in PlatformEffect : view[e] = FALSE
    BY DEF DesiredInit, NoEffect, PlatformEffect
  <2> QED BY <2>1, <2>2, Zenon DEF CopiesAgree, DesiredInit
<1> QED BY <1>2, <1>3, <1>4, CopiesSuffice, Zenon

LEMMA BootKeepsIntent == ASSUME IntentInv, BootSequence PROVE IntentInv'
<1>1. PICK engaged \in SUBSET PlatformEffect :
        /\ real' = [real EXCEPT !.proxy = "proxy" \in engaged, !.tun = "tun" \in engaged]
        /\ been' = been \cup {<<e, TRUE>> : e \in engaged}
        /\ shown' = BootPublished(engaged).desired
        /\ view' = BootPublished(engaged).view
  BY Zenon DEF BootSequence
<1>2. /\ cell \in Desired /\ shown \in Desired /\ real \in Desired
      /\ view \in [proxy : BOOLEAN, tun : BOOLEAN]
      /\ core \in Cores /\ platform \in Platforms /\ spent \in Spents
      /\ core.at = "idle" /\ platform.at = "idle" /\ spent.told = {} /\ view = NoEffect
  BY TypeFolds, Zenon DEF IntentInv, DesiredTypes, BootFirst, BootSequence
<1>3. cell' = cell /\ core' = core /\ platform' = platform
  BY Zenon DEF BootSequence
<1>4. /\ spent' \in Spents
      /\ spent'.booted
      /\ spent'.told = {}
  BY <1>2, Zenon DEF Spents, BootSequence
<1>5. /\ shown' \in Desired
      /\ view' \in [proxy : BOOLEAN, tun : BOOLEAN]
      /\ \A e \in PlatformEffect : shown'[e] => e \in engaged \/ shown[e]
      /\ \A e \in PlatformEffect : view'[e] => e \in engaged \/ view[e]
  BY <1>1, <1>2, BootSound, Zenon
<1>6. /\ real' \in Desired
      /\ \A e \in PlatformEffect : e \in engaged => real'[e]
  <2> DEFINE one == [real EXCEPT !.proxy = "proxy" \in engaged]
  <2>1. \A b \in BOOLEAN : /\ [real EXCEPT !.proxy = b] \in Desired
                           /\ [real EXCEPT !.proxy = b].proxy = b
    BY <1>2, Zenon DEF Desired
  <2>2. one \in Desired /\ ("proxy" \in engaged => one.proxy)
    <3>1. ("proxy" \in engaged) \in BOOLEAN
      OBVIOUS
    <3>2. one \in Desired /\ one.proxy = ("proxy" \in engaged)
      BY <2>1, <3>1, Zenon
    <3> QED BY <3>2, Zenon
  <2>3. real' = [one EXCEPT !.tun = "tun" \in engaged]
    BY <1>1, Zenon
  <2> HIDE DEF one
  <2>4. \A b \in BOOLEAN : /\ [one EXCEPT !.tun = b] \in Desired
                           /\ [one EXCEPT !.tun = b].tun = b
                           /\ [one EXCEPT !.tun = b].proxy = one.proxy
    BY <2>2, Zenon DEF Desired
  <2>5. real' \in Desired /\ ("tun" \in engaged => real'.tun) /\ real'.proxy = one.proxy
    <3>1. ("tun" \in engaged) \in BOOLEAN
      OBVIOUS
    <3>2. real' \in Desired /\ real'.tun = ("tun" \in engaged) /\ real'.proxy = one.proxy
      BY <2>3, <2>4, <3>1, Zenon
    <3> QED BY <3>2, Zenon
  <2> QED BY <2>2, <2>5, Zenon DEF PlatformEffect
<1>7. (DesiredTypes /\ BootFirst)'
  BY <1>2, <1>3, <1>4, <1>5, <1>6, TypeFolds, Zenon DEF DesiredTypes, BootFirst
<1>8. NoPhantomFlag'
  BY <1>1, <1>3, <1>5, Zenon DEF IntentInv, NoPhantomFlag
<1>9. CopiesAgree'
  <2>1. \A e \in PlatformEffect : view'[e] => real'[e]
    <3>1. \A e \in PlatformEffect : view[e] = FALSE
      BY <1>2, Zenon DEF NoEffect, PlatformEffect
    <3> QED BY <3>1, <1>5, <1>6, Zenon
  <2>2. \A e \in PlatformEffect : core.held[e] \/ platform.held[e] => <<e, TRUE>> \in been'
    BY <1>1, Zenon DEF IntentInv, CopiesAgree
  <2> QED BY <1>2, <1>3, <1>4, <2>1, <2>2, Zenon DEF CopiesAgree
<1> QED BY <1>7, <1>8, <1>9, CopiesSufficeNext, Zenon

LEMMA ModeReadsKeeps ==
    ASSUME IntentInv, NEW m \in Modes, SetModeReads(m) PROVE IntentInv'
<1>1. /\ cell \in Desired /\ shown \in Desired /\ real \in Desired
      /\ view \in [proxy : BOOLEAN, tun : BOOLEAN]
      /\ core \in Cores /\ platform \in Platforms /\ spent \in Spents
  BY TypeFolds, Zenon DEF IntentInv, DesiredTypes, BootFirst
<1>2. /\ cell' = cell /\ shown' = shown /\ view' = view /\ real' = real
      /\ platform' = platform /\ been' = been
  BY Zenon DEF SetModeReads
<1>3. /\ spent' \in Spents
      /\ spent.booted /\ spent'.booted
      /\ spent'.cancels = spent.cancels
      /\ spent'.crossed = spent.crossed
      /\ spent'.told = spent.told
  <2>1. {} \in SUBSET PlatformEffect /\ TakesCommand({})
    BY Zenon DEF SetModeReads
  <2>2. spent.told \cup {} = spent.told
    BY Zenon
  <2> QED BY <1>1, <2>1, <2>2, TakesTyped, Zenon
<1>4. /\ With(cell, "mode", m) \in Desired
      /\ \A e \in PlatformEffect : With(cell, "mode", m)[e] = cell[e]
  BY <1>1, WithModeTyped, Zenon
<1>5. /\ core' \in Cores
      /\ core'.at = "replaces"
      /\ core'.held = With(cell, "mode", m)
  <2>1. core' = [at |-> "replaces", want |-> m, held |-> With(cell, "mode", m)]
    BY Zenon DEF SetModeReads
  <2>2. \A d \in Desired : [at |-> "replaces", want |-> m, held |-> d] \in Cores
    BY Zenon DEF Cores
  <2>3. core'.at = "replaces" /\ core'.held = With(cell, "mode", m)
    BY <2>1, Zenon
  <2> QED BY <1>4, <2>1, <2>2, <2>3, Zenon
<1>6. (DesiredTypes /\ BootFirst)'
  BY <1>1, <1>2, <1>3, <1>5, TypeFolds, Zenon DEF DesiredTypes, BootFirst
<1>7. NoPhantomFlag'
  BY <1>2, Zenon DEF IntentInv, NoPhantomFlag
<1>8. CopiesAgree'
  <2>1. \A e \in PlatformEffect : core'.held[e] = cell[e]
    BY <1>4, <1>5, Zenon
  <2>2. \A e \in PlatformEffect : core'.held[e] \/ platform.held[e] => <<e, TRUE>> \in been
    BY <2>1, Zenon DEF IntentInv, NoPhantomFlag, CopiesAgree
  <2> QED BY <1>2, <1>3, <2>1, <2>2, Zenon DEF IntentInv, CopiesAgree
<1> QED BY <1>6, <1>7, <1>8, CopiesSufficeNext, Zenon

LEMMA ModeReplacesKeeps == ASSUME IntentInv, SetModeReplaces PROVE IntentInv'
<1>1. /\ cell \in Desired /\ shown \in Desired /\ real \in Desired
      /\ view \in [proxy : BOOLEAN, tun : BOOLEAN]
      /\ core \in Cores /\ platform \in Platforms /\ spent \in Spents
  BY TypeFolds, Zenon DEF IntentInv, DesiredTypes, BootFirst
<1>2. /\ shown' = shown /\ view' = view /\ real' = real
      /\ platform' = platform /\ been' = been /\ spent' = spent
      /\ core.at = "replaces" /\ cell' = core.held
  BY Zenon DEF SetModeReplaces
<1>3. core' \in Cores /\ core'.at = "calls" /\ core'.held = core.held
  BY <1>1, CoreAtTyped, Zenon DEF SetModeReplaces
<1>4. (DesiredTypes /\ BootFirst)'
  <2>1. core.held \in Desired
    BY <1>1, Zenon DEF Cores
  <2> QED BY <1>1, <1>2, <1>3, <2>1, TypeFolds, Zenon DEF IntentInv, DesiredTypes, BootFirst
<1>5. NoPhantomFlag'
  BY <1>2, Zenon DEF IntentInv, NoPhantomFlag, CopiesAgree
<1>6. CopiesAgree'
  <2>1. ~spent.crossed => \A e \in PlatformEffect : cell'[e] = cell[e]
    BY <1>2, Zenon DEF IntentInv, CopiesAgree
  <2>2. spent.told \subseteq PlatformEffect
    BY <1>1, Zenon DEF Spents
  <2> QED BY <1>2, <1>3, <2>1, <2>2, Zenon DEF IntentInv, CopiesAgree
<1> QED BY <1>4, <1>5, <1>6, CopiesSufficeNext, Zenon

LEMMA ModeAnsweredKeeps == ASSUME IntentInv, SetModeAnswered PROVE IntentInv'
<1>1. /\ cell \in Desired /\ shown \in Desired /\ real \in Desired
      /\ view \in [proxy : BOOLEAN, tun : BOOLEAN]
      /\ core \in Cores /\ platform \in Platforms /\ spent \in Spents
      /\ core.held \in Desired /\ core.want \in Modes \cup {Rule}
  BY TypeFolds, Zenon DEF IntentInv, DesiredTypes, Cores
<1>2. cell' = cell /\ platform' = platform /\ core.at = "calls"
  BY Zenon DEF SetModeAnswered
<1>3. core' \in Cores /\ core'.at = "idle" /\ core'.held = core.held
  BY <1>1, CoreAtTyped, Zenon DEF SetModeAnswered
<1>4. /\ real' \in Desired
      /\ \A e \in PlatformEffect : real'[e] = real[e]
      /\ been \subseteq been'
  <2>1. CASE real' = [real EXCEPT !.mode = core.want] /\ been' = been \cup {<<"mode", core.want>>}
    <3>1. real' = With(real, "mode", core.want)
      BY <2>1, Zenon DEF With
    <3> QED BY <2>1, <3>1, <1>1, WithModeTyped
  <2>2. CASE real' = real /\ been' = been
    BY <2>2, <1>1, Zenon
  <2> QED BY <2>1, <2>2, Zenon DEF SetModeAnswered
<1>5. /\ spent' \in Spents
      /\ spent'.booted = spent.booted
      /\ spent'.crossed = spent.crossed
      /\ spent'.told = spent.told
      /\ shown' \in {shown, core.held}
      /\ view' \in [proxy : BOOLEAN, tun : BOOLEAN]
      /\ spent'.cancels = 0 => spent.cancels = 0 /\ view' = view
  <2>1. CASE Reports(core.held, view)
    BY <2>1, <1>1, ReportsTyped, Zenon
  <2>2. CASE UNCHANGED <<shown, view, real, been, spent>>
    BY <2>2, <1>1, Zenon
  <2> QED BY <2>1, <2>2, Zenon DEF SetModeAnswered
<1>6. (DesiredTypes /\ BootFirst)'
  <2>1. spent.booted
    BY <1>2, TypeFolds, Zenon DEF IntentInv, DesiredTypes, BootFirst
  <2> QED BY <1>1, <1>2, <1>3, <1>4, <1>5, <2>1, TypeFolds, Zenon DEF DesiredTypes, BootFirst
<1>7. NoPhantomFlag'
  BY <1>2, <1>4, <1>5, Zenon DEF IntentInv, NoPhantomFlag, CopiesAgree
<1>8. CopiesAgree'
  <2>2. spent.told \subseteq PlatformEffect /\ platform.effect \in PlatformEffect
    BY <1>1, Zenon DEF Spents, Platforms
  <2> QED BY <1>2, <1>3, <1>4, <1>5, <2>2, Zenon DEF IntentInv, CopiesAgree
<1> QED BY <1>6, <1>7, <1>8, CopiesSufficeNext, Zenon

LEMMA PlatformCallsKeeps ==
    ASSUME IntentInv, NEW e \in PlatformEffect, NEW on \in BOOLEAN, PlatformCalls(e, on)
    PROVE  IntentInv'
<1>1. /\ cell \in Desired /\ shown \in Desired /\ real \in Desired
      /\ view \in [proxy : BOOLEAN, tun : BOOLEAN]
      /\ core \in Cores /\ platform \in Platforms /\ spent \in Spents
  BY TypeFolds, Zenon DEF IntentInv, DesiredTypes
<1>2. /\ cell' = cell /\ shown' = shown /\ view' = view /\ core' = core
      /\ platform.at = "idle"
  BY Zenon DEF PlatformCalls
<1>3. CASE /\ TakesCommand({e})
           /\ real' = With(real, e, on)
           /\ been' = been \cup {<<e, on>>}
           /\ platform' = [platform EXCEPT !.at = "reads", !.effect = e, !.on = on]
  <2>1. /\ spent' \in Spents
        /\ spent.booted /\ spent'.booted
        /\ spent'.cancels = spent.cancels
        /\ spent'.crossed = spent.crossed
        /\ spent'.told = spent.told \cup {e}
    <3>1. {e} \in SUBSET PlatformEffect
      BY Zenon
    <3> QED BY <1>1, <1>3, <3>1, TakesTyped, Zenon
  <2>2. /\ real' \in Desired
        /\ real'[e] = on
        /\ \A f \in PlatformEffect \ {e} : real'[f] = real[f]
    <3>1. WithSound(real, e, on)
      BY <1>1, WithTyped, Zenon
    <3> QED BY <1>3, <3>1, Zenon DEF WithSound
  <2>3. /\ platform' \in Platforms
        /\ platform'.at = "reads"
        /\ platform'.effect = e
        /\ platform'.on = on
        /\ platform'.held = platform.held
    <3> DEFINE p1 == [platform EXCEPT !.at = "reads", !.effect = e]
    <3>1. p1 \in Platforms /\ p1.at = "reads" /\ p1.effect = e /\ p1.held = platform.held
      BY <1>1, Zenon DEF Platforms
    <3>2. platform' = [p1 EXCEPT !.on = on]
      BY <1>3, Zenon
    <3> HIDE DEF p1
    <3>3. platform' \in Platforms
      BY <3>1, <3>2, Zenon DEF Platforms
    <3>4. platform'.at = p1.at /\ platform'.effect = p1.effect /\ platform'.held = p1.held
      BY <3>1, <3>2, Zenon DEF Platforms
    <3>5. platform'.on = on
      BY <3>1, <3>2, Zenon DEF Platforms
    <3> QED BY <3>1, <3>3, <3>4, <3>5, Zenon
  <2>4. (DesiredTypes /\ BootFirst)'
    BY <1>1, <1>2, <2>1, <2>2, <2>3, Zenon DEF DesiredTypes, BootFirst
  <2>5. NoPhantomFlag'
    BY <1>2, <1>3, Zenon DEF IntentInv, NoPhantomFlag
  <2>6. CopiesAgree'
    <3>1. \A f \in PlatformEffect : core'.held[f] \/ platform'.held[f] => <<f, TRUE>> \in been'
      BY <1>2, <1>3, <2>3, Zenon DEF IntentInv, CopiesAgree
    <3>2. real'[platform'.effect] = platform'.on /\ <<platform'.effect, platform'.on>> \in been'
      BY <1>3, <2>2, <2>3
    <3>3. spent'.cancels = 0 =>
            \A f \in PlatformEffect : f # e => (view'[f] => real'[f])
      BY <1>2, <2>1, <2>2, Zenon DEF IntentInv, CopiesAgree
    <3>4. ~spent'.crossed => \A f \in spent'.told : f # e => cell'[f] = real'[f]
      <4>1. spent.told \subseteq PlatformEffect
        BY <1>1, Zenon DEF Spents
      <4> QED BY <1>2, <2>1, <2>2, <4>1, Zenon DEF IntentInv, CopiesAgree
    <3>5. ~spent'.crossed =>
            \A f \in PlatformEffect : core'.at = "replaces" => core'.held[f] = cell'[f]
      BY <1>2, <2>1, Zenon DEF IntentInv, CopiesAgree
    <3> QED BY <2>3, <3>1, <3>2, <3>3, <3>4, <3>5, Zenon DEF CopiesAgree
  <2> QED BY <2>4, <2>5, <2>6, CopiesSufficeNext, Zenon
<1>4. CASE TakesCommand({}) /\ UNCHANGED <<real, been, platform>>
  <2>1. /\ spent' \in Spents
        /\ spent.booted /\ spent'.booted
        /\ spent'.cancels = spent.cancels
        /\ spent'.crossed = spent.crossed
        /\ spent'.told = spent.told
    <3>1. {} \in SUBSET PlatformEffect
      BY Zenon
    <3>2. spent.told \cup {} = spent.told
      BY Zenon
    <3> QED BY <1>1, <1>4, <3>1, <3>2, TakesTyped, Zenon
  <2>2. (DesiredTypes /\ BootFirst)'
    BY <1>1, <1>2, <1>4, <2>1, Zenon DEF DesiredTypes, BootFirst
  <2>3. NoPhantomFlag'
    BY <1>2, <1>4, Zenon DEF IntentInv, NoPhantomFlag
  <2>4. CopiesAgree'
    BY <1>2, <1>4, <2>1, Zenon DEF IntentInv, CopiesAgree
  <2> QED BY <2>2, <2>3, <2>4, CopiesSufficeNext, Zenon
<1> QED BY <1>3, <1>4, Zenon DEF PlatformCalls

LEMMA CommitReadsKeeps == ASSUME IntentInv, CommitReads PROVE IntentInv'
<1>1. /\ cell \in Desired /\ shown \in Desired /\ real \in Desired
      /\ view \in [proxy : BOOLEAN, tun : BOOLEAN]
      /\ core \in Cores /\ platform \in Platforms /\ spent \in Spents
      /\ platform.effect \in PlatformEffect /\ platform.on \in BOOLEAN
  <2>1. DesiredTypes
    BY TypeFolds, Zenon DEF IntentInv
  <2> QED BY <2>1, Zenon DEF DesiredTypes, Platforms
<1>2. /\ cell' = cell /\ shown' = shown /\ view' = view /\ core' = core
      /\ real' = real /\ been' = been /\ spent' = spent
      /\ platform.at = "reads"
  BY Zenon DEF CommitReads
<1> DEFINE d == With(cell, platform.effect, platform.on)
<1>3. /\ d \in Desired
      /\ d[platform.effect] = platform.on
      /\ \A f \in PlatformEffect \ {platform.effect} : d[f] = cell[f]
  <2>1. WithSound(cell, platform.effect, platform.on)
    BY <1>1, WithTyped, Zenon
  <2> QED BY <2>1, Zenon DEF WithSound
<1>4. platform' = [platform EXCEPT !.at = "replaces", !.held = d]
  BY Zenon DEF CommitReads
<1> HIDE DEF d
<1>5. /\ platform' \in Platforms
      /\ platform'.at = "replaces"
      /\ platform'.held = d
      /\ platform'.effect = platform.effect
      /\ platform'.on = platform.on
  <2>1. platform' \in Platforms
    BY <1>1, <1>3, <1>4, Zenon DEF Platforms
  <2>2. platform'.at = "replaces" /\ platform'.held = d
    BY <1>1, <1>4, Zenon DEF Platforms
  <2>3. platform'.effect = platform.effect
    BY <1>1, <1>4, Zenon DEF Platforms
  <2>4. platform'.on = platform.on
    BY <1>1, <1>4, Zenon DEF Platforms
  <2> QED BY <2>1, <2>2, <2>3, <2>4, Zenon
<1>6. (DesiredTypes /\ BootFirst)'
  BY <1>1, <1>2, <1>5, TypeFolds, Zenon DEF IntentInv, DesiredTypes, BootFirst
<1>7. NoPhantomFlag'
  BY <1>2, Zenon DEF IntentInv, NoPhantomFlag
<1>8. CopiesAgree'
  <2>1. \A f \in PlatformEffect : d[f] => <<f, TRUE>> \in been
    <3>1. ASSUME NEW f \in PlatformEffect \ {platform.effect}, d[f] PROVE <<f, TRUE>> \in been
      BY <1>3, <3>1, Zenon DEF IntentInv, NoPhantomFlag
    <3>2. ASSUME d[platform.effect] PROVE <<platform.effect, TRUE>> \in been
      <4>1. platform.on = TRUE
        BY <1>1, <1>3, <3>2, Zenon
      <4> QED BY <1>2, <4>1, Zenon DEF IntentInv, CopiesAgree
    <3> QED BY <3>1, <3>2, Zenon
  <2>2. \A f \in PlatformEffect : core'.held[f] \/ platform'.held[f] => <<f, TRUE>> \in been'
    BY <1>2, <1>5, <2>1, Zenon DEF IntentInv, CopiesAgree
  <2>3. real'[platform'.effect] = platform'.on /\ <<platform'.effect, platform'.on>> \in been'
    BY <1>2, <1>5, Zenon DEF IntentInv, CopiesAgree
  <2>4. spent'.cancels = 0 =>
          \A f \in PlatformEffect : f # platform'.effect => (view'[f] => real'[f])
    BY <1>2, <1>5, Zenon DEF IntentInv, CopiesAgree
  <2>5. ~spent'.crossed =>
          /\ \A f \in spent'.told : f # platform'.effect => cell'[f] = real'[f]
          /\ \A f \in PlatformEffect : core'.at = "replaces" => core'.held[f] = cell'[f]
    BY <1>2, <1>5, Zenon DEF IntentInv, CopiesAgree
  <2>6. \A f \in PlatformEffect : f # platform'.effect => platform'.held[f] = cell'[f]
    BY <1>2, <1>3, <1>5, Zenon
  <2>7. platform'.held[platform'.effect] = platform'.on
    BY <1>3, <1>5, Zenon
  <2> QED BY <1>5, <2>2, <2>3, <2>4, <2>5, <2>6, <2>7, Zenon DEF CopiesAgree
<1> QED BY <1>6, <1>7, <1>8, CopiesSufficeNext, Zenon

LEMMA CommitReplacesKeeps == ASSUME IntentInv, CommitReplaces PROVE IntentInv'
<1>1. DesiredTypes /\ BootFirst
  BY TypeFolds, Zenon DEF IntentInv
<1>2. /\ shown' = shown /\ view' = view /\ core' = core
      /\ real' = real /\ been' = been
      /\ platform.at = "replaces"
      /\ cell' = platform.held
  BY Zenon DEF CommitReplaces
<1>3. /\ platform' \in Platforms
      /\ platform'.at = "reports"
      /\ platform'.held = platform.held
      /\ platform'.effect = platform.effect
      /\ platform'.on = platform.on
  BY <1>1, PlatformAtTyped, Zenon DEF CommitReplaces, DesiredTypes
<1>4. /\ spent' \in Spents
      /\ spent'.booted = spent.booted
      /\ spent'.cancels = spent.cancels
      /\ spent'.told = spent.told
      /\ ~spent'.crossed => ~spent.crossed /\ core.at # "replaces"
  <2>1. \A b \in BOOLEAN : /\ [spent EXCEPT !.crossed = b] \in Spents
                           /\ [spent EXCEPT !.crossed = b].crossed = b
    BY <1>1, Zenon DEF DesiredTypes, Spents
  <2>2. \A b \in BOOLEAN : /\ [spent EXCEPT !.crossed = b].booted = spent.booted
                           /\ [spent EXCEPT !.crossed = b].cancels = spent.cancels
                           /\ [spent EXCEPT !.crossed = b].told = spent.told
    BY <1>1, Zenon DEF DesiredTypes, Spents
  <2>3. spent' = [spent EXCEPT !.crossed = spent.crossed \/ core.at = "replaces"]
    BY <1>1, Zenon DEF CommitReplaces, DesiredTypes, Spents
  <2>4. (spent.crossed \/ core.at = "replaces") \in BOOLEAN
    BY Zenon
  <2>5. /\ spent' \in Spents
        /\ spent'.crossed = (spent.crossed \/ core.at = "replaces")
    BY <2>1, <2>3, <2>4, Zenon
  <2>6. /\ spent'.booted = spent.booted
        /\ spent'.cancels = spent.cancels
        /\ spent'.told = spent.told
    BY <2>2, <2>3, <2>4, Zenon
  <2> QED BY <2>5, <2>6, Zenon
<1>5. (DesiredTypes /\ BootFirst)'
  <2>1. platform.held \in Desired
    BY <1>1, Zenon DEF DesiredTypes, Platforms
  <2> QED BY <1>1, <1>2, <1>3, <1>4, <2>1, Zenon DEF DesiredTypes, BootFirst
<1>6. NoPhantomFlag'
  BY <1>2, Zenon DEF IntentInv, NoPhantomFlag, CopiesAgree
<1>7. CopiesAgree'
  <2>2. \A f \in PlatformEffect : core'.held[f] \/ platform'.held[f] => <<f, TRUE>> \in been'
    BY <1>2, <1>3, Zenon DEF IntentInv, CopiesAgree
  <2>3. real'[platform'.effect] = platform'.on /\ <<platform'.effect, platform'.on>> \in been'
    BY <1>2, <1>3, Zenon DEF IntentInv, CopiesAgree
  <2>4. spent'.cancels = 0 =>
          \A f \in PlatformEffect : f # platform'.effect => (view'[f] => real'[f])
    BY <1>2, <1>3, <1>4, Zenon DEF IntentInv, CopiesAgree
  <2>5. platform'.held[platform'.effect] = platform'.on
    BY <1>2, <1>3, Zenon DEF IntentInv, CopiesAgree
  <2>6. ~spent'.crossed => \A f \in spent'.told : cell'[f] = real'[f]
    <3>1. ASSUME ~spent'.crossed, NEW f \in spent'.told, f # platform.effect PROVE cell'[f] = real'[f]
      <4>1. f \in PlatformEffect
        BY <1>1, <1>4, <3>1, Zenon DEF DesiredTypes, Spents
      <4>2. platform.held[f] = cell[f] /\ cell[f] = real[f]
        BY <1>2, <1>4, <3>1, <4>1, Zenon DEF IntentInv, CopiesAgree
      <4> QED BY <1>2, <4>2, Zenon
    <3>2. cell'[platform.effect] = real'[platform.effect]
      BY <1>2, <1>3, <2>3, <2>5, Zenon
    <3> QED BY <3>1, <3>2, Zenon
  <2> QED BY <1>2, <1>3, <1>4, <2>2, <2>3, <2>4, <2>5, <2>6, Zenon DEF CopiesAgree
<1> QED BY <1>5, <1>6, <1>7, CopiesSufficeNext, Zenon

LEMMA FinishKeeps == ASSUME IntentInv, Finish PROVE IntentInv'
<1>1. DesiredTypes /\ BootFirst
  BY TypeFolds, Zenon DEF IntentInv
<1>2. platform.effect \in PlatformEffect /\ platform.on \in BOOLEAN /\ platform.held \in Desired
  BY <1>1, Zenon DEF DesiredTypes, Platforms
<1>3. /\ cell' = cell /\ real' = real /\ core' = core /\ been' = been
      /\ platform.at = "reports"
  BY Zenon DEF Finish
<1>4. /\ platform' \in Platforms
      /\ platform'.at = "idle"
      /\ platform'.held = platform.held
      /\ platform'.effect = platform.effect
      /\ platform'.on = platform.on
  BY <1>1, PlatformAtTyped, Zenon DEF Finish, DesiredTypes
<1> DEFINE v == EffectView(platform.effect, platform.on)
<1>5. /\ v \in [proxy : BOOLEAN, tun : BOOLEAN]
      /\ v[platform.effect] = platform.on
      /\ \A f \in PlatformEffect \ {platform.effect} : v[f] = FALSE
  <2>1. ViewSound(platform.effect, platform.on)
    BY <1>2, ViewTyped, Zenon
  <2> QED BY <2>1, Zenon DEF ViewSound
<1>6. Reports(platform.held, v)
  BY Zenon DEF Finish
<1> HIDE DEF v
<1>7. /\ spent' \in Spents
      /\ spent'.booted = spent.booted
      /\ spent'.crossed = spent.crossed
      /\ spent'.told = spent.told
      /\ shown' \in {shown, platform.held}
      /\ view' \in [proxy : BOOLEAN, tun : BOOLEAN]
      /\ spent'.cancels = 0 => spent.cancels = 0 /\ view' = v
  BY <1>1, <1>2, <1>5, <1>6, ReportsTyped, Zenon DEF DesiredTypes
<1>8. (DesiredTypes /\ BootFirst)'
  <2>1. spent.booted
    BY <1>1, <1>3, Zenon DEF BootFirst
  <2> QED BY <1>1, <1>2, <1>3, <1>4, <1>7, <2>1, Zenon DEF DesiredTypes, BootFirst
<1>9. NoPhantomFlag'
  BY <1>3, <1>7, Zenon DEF IntentInv, NoPhantomFlag, CopiesAgree
<1>10. CopiesAgree'
  <2>1. \A f \in PlatformEffect : core'.held[f] \/ platform'.held[f] => <<f, TRUE>> \in been'
    BY <1>3, <1>4, Zenon DEF IntentInv, CopiesAgree
  <2>2. spent'.cancels = 0 => \A f \in PlatformEffect : view'[f] => real'[f]
    <3>1. real[platform.effect] = platform.on
      BY <1>3, Zenon DEF IntentInv, CopiesAgree
    <3> QED BY <1>2, <1>3, <1>5, <1>7, <3>1, Zenon
  <2>3. ~spent'.crossed => \A f \in spent'.told : cell'[f] = real'[f]
    BY <1>3, <1>7, Zenon DEF IntentInv, CopiesAgree
  <2>4. ~spent'.crossed =>
          \A f \in PlatformEffect : core'.at = "replaces" => core'.held[f] = cell'[f]
    BY <1>3, <1>7, Zenon DEF IntentInv, CopiesAgree
  <2> QED BY <1>4, <2>1, <2>2, <2>3, <2>4, Zenon DEF CopiesAgree
<1> QED BY <1>8, <1>9, <1>10, CopiesSufficeNext, Zenon

\* SetMode, SetSystemProxy, SetTun and the boot gate over the one cell: at every
\* interleaving of value() and replace(), of failed commands and of dropped
\* reports, no flag is set out of nothing, the projection claims no effect that
\* is not there, and the cell follows the effects carried out unless a commit
\* fell between the two halves of a SetMode.
THEOREM IntentIsKept == DesiredSpec => []IntentInv
<1>1. IntentInv /\ [DesiredNext]_desiredVars => IntentInv'
  <2> SUFFICES ASSUME IntentInv, [DesiredNext]_desiredVars PROVE IntentInv'
    BY Zenon
  <2>1. CASE UNCHANGED desiredVars
    <3>1. /\ cell' = cell /\ shown' = shown /\ view' = view /\ real' = real
          /\ core' = core /\ platform' = platform /\ been' = been /\ spent' = spent
      BY <2>1, Zenon DEF desiredVars
    <3>2. (DesiredTypes /\ BootFirst)'
      BY <3>1, TypeFolds, Zenon DEF IntentInv, DesiredTypes, BootFirst
    <3>3. NoPhantomFlag'
      BY <3>1, Zenon DEF IntentInv, NoPhantomFlag
    <3>4. CopiesAgree'
      BY <3>1, Zenon DEF IntentInv, CopiesAgree
    <3> QED BY <3>2, <3>3, <3>4, CopiesSufficeNext, Zenon
  <2> QED
    BY <2>1, BootKeepsIntent, ModeReadsKeeps, ModeReplacesKeeps, ModeAnsweredKeeps,
       PlatformCallsKeeps, CommitReadsKeeps, CommitReplacesKeeps, FinishKeeps, Zenon DEF DesiredNext
<1> QED BY <1>1, IntentStarts, PTL DEF DesiredSpec

=============================================================================
