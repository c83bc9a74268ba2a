---------------------------- MODULE InstanceLock ----------------------------
(***************************************************************************)
(* The daemon's single-instance lock: a file created exclusively that      *)
(* names its owner process.  A starter that finds the file removes it when *)
(* the named process is gone and tries again, a bounded number of times.   *)
(* The file is reached by path in every step, the owner's liveness is      *)
(* looked up separately, and a process may be killed between any two steps.*)
(***************************************************************************)
EXTENDS Integers

CONSTANTS
    Procs,       \* the processes ever started; a restart is another process
    RetryLimit,  \* RECLAIM_RETRY_LIMIT
    Killable     \* the processes that may be killed

ASSUME LockBounds == RetryLimit \in Nat /\ Killable \subseteq Procs

VARIABLES
    file,   \* the lock file: at most one, with its creator and whether the
            \* owner token has been written
    proc,   \* per process: where it is
    seen,   \* per process: the owner it read from the file, at most one
    tries   \* per process: passes of the reclaim loop begun

lockVars == <<file, proc, seen, tries>>

Places == {"new", "writes", "holds", "loop", "judges", "removes", "creates",
           "refused", "exited", "killed"}

Alive(p) == proc[p] \notin {"new", "refused", "exited", "killed"}

LockInit ==
    /\ file = {}
    /\ proc = [p \in Procs |-> "new"]
    /\ seen = [p \in Procs |-> {}]
    /\ tries = [p \in Procs |-> 0]

Move(p, at) == proc' = [proc EXCEPT ![p] = at]

\* create_new either creates the empty file or finds one.
CreatesFile(p) ==
    /\ file = {}
    /\ file' = {[by |-> p, written |-> FALSE]}
    /\ Move(p, "writes")

\* The first attempt; an existing file leads into the reclaim loop.
Acquire(p) ==
    /\ proc[p] = "new"
    /\ \/ CreatesFile(p)
       \/ file # {} /\ Move(p, "loop") /\ UNCHANGED file
    /\ UNCHANGED <<seen, tries>>

\* The token is written through the descriptor: into the file that was
\* created, which may no longer be the one at the path.
WritesToken(p) ==
    /\ proc[p] = "writes"
    /\ file' = {IF f.by = p THEN [f EXCEPT !.written = TRUE] ELSE f : f \in file}
    /\ Move(p, "holds")
    /\ UNCHANGED <<seen, tries>>

\* One pass of the loop reads the file: gone, not a token, or an owner.
ReadsOwner(p) ==
    /\ proc[p] = "loop"
    /\ tries[p] <= RetryLimit
    /\ tries' = [tries EXCEPT ![p] = @ + 1]
    /\ \/ file = {} /\ Move(p, "creates") /\ UNCHANGED seen
       \/ /\ \E f \in file : ~f.written
          /\ Move(p, "refused")
          /\ UNCHANGED seen
       \/ \E f \in file :
             /\ f.written
             /\ seen' = [seen EXCEPT ![p] = {f.by}]
             /\ Move(p, "judges")
    /\ UNCHANGED file

\* Then it looks the owner up in /proc, by pid and start time.
JudgesOwner_Steals(p) ==
    /\ proc[p] = "judges"
    /\ Move(p, "removes")
    /\ UNCHANGED <<file, seen, tries>>

JudgesOwner(p) ==
    /\ proc[p] = "judges"
    /\ Move(p, IF \E o \in seen[p] : Alive(o) THEN "creates" ELSE "removes")
    /\ UNCHANGED <<file, seen, tries>>

\* Then it removes whatever file is at the path, and starts the next pass.
RemovesStale(p) ==
    /\ proc[p] = "removes"
    /\ IF file = {} THEN Move(p, "refused") ELSE Move(p, "loop")
    /\ file' = {}
    /\ seen' = [seen EXCEPT ![p] = {}]
    /\ UNCHANGED tries

CreatesAgain(p) ==
    /\ proc[p] = "creates"
    /\ \/ CreatesFile(p)
       \/ file # {} /\ Move(p, "loop") /\ UNCHANGED file
    /\ seen' = [seen EXCEPT ![p] = {}]
    /\ UNCHANGED tries

GivesUp(p) ==
    /\ proc[p] = "loop"
    /\ tries[p] > RetryLimit
    /\ Move(p, "refused")
    /\ UNCHANGED <<file, seen, tries>>

\* release compares the token in its own descriptor, which nobody rewrites, and
\* removes the file at the path.
Release(p) ==
    /\ proc[p] = "holds"
    /\ file' = {}
    /\ Move(p, "exited")
    /\ UNCHANGED <<seen, tries>>

Killed(p) ==
    /\ p \in Killable
    /\ Alive(p)
    /\ Move(p, "killed")
    /\ UNCHANGED <<file, seen, tries>>

LockNext ==
    \E p \in Procs :
        \/ Acquire(p) \/ WritesToken(p) \/ ReadsOwner(p) \/ JudgesOwner(p)
        \/ RemovesStale(p) \/ CreatesAgain(p) \/ GivesUp(p) \/ Release(p) \/ Killed(p)

LockSpec == LockInit /\ [][LockNext]_lockVars

-----------------------------------------------------------------------------
\* Every variable stays in its type; the loop runs at most RetryLimit + 1 passes.
LockTypeOK ==
    /\ file \subseteq [by : Procs, written : BOOLEAN]
    /\ \A f, g \in file : f = g
    /\ proc \in [Procs -> Places]
    /\ seen \in [Procs -> SUBSET Procs]
    /\ tries \in [Procs -> 0 .. RetryLimit + 1]

\* A process that holds the lock is the one the file names: nobody removed the
\* file of a live owner.
HolderNamed ==
    \A p \in Procs : proc[p] = "holds" => file = {[by |-> p, written |-> TRUE]}

\* What the steps of an acquisition rely on.  The file is its creator's work and
\* goes with its release; an owner that was read has written its token and never
\* comes back once it is found dead.
StartersKnow ==
    /\ \A p \in Procs : proc[p] = "writes" => file = {[by |-> p, written |-> FALSE]}
    /\ \A f \in file :
          proc[f.by] \in IF f.written THEN {"holds", "killed"} ELSE {"writes", "killed"}
    /\ \A p \in Procs :
          /\ \A o \in seen[p] : o # p /\ proc[o] \in {"holds", "exited", "killed"}
          /\ proc[p] \in {"judges", "removes"} => seen[p] # {}
          /\ proc[p] = "removes" => \A o \in seen[p] : ~Alive(o)

\* The invariant of the lock: the types, a bounded number of tries, a holder
\* whom the file names, and what the steps on the way there rely on.
LockInv == LockTypeOK /\ HolderNamed /\ StartersKnow

\* At most one running daemon holds the lock.
OneHolder == \A p, q \in Procs : proc[p] = "holds" /\ proc[q] = "holds" => p = q
=============================================================================
