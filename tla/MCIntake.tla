------------------------------ MODULE MCIntake ------------------------------
(***************************************************************************)
(* What comes in from files and servers, on small instances: the           *)
(* subscription backend, the node choices, and the commands that work on   *)
(* files without the daemon, which are edits of the configuration, the     *)
(* inline proxies, the profile cache, the operation log and the reset.  No *)
(* two of these models share state, so each behaviour follows one of them, *)
(* chosen at the start.                                                    *)
(***************************************************************************)
EXTENDS Subscriptions, Selection, ResourceEdits, ProfileStore, CommandFiles

VARIABLE followed
intakeVars == <<followed, subVars, selVars, editVars, inlineVars, storeVars, logVars, resetVars>>

MCKindsOf == [i \in 1..3 |-> CASE i = 1 -> {"list", "clash"}
                               [] i = 2 -> {"uri", "bad"}
                               [] i = 3 -> {"uri"}]
MCCadences == [i \in 1..2 |-> IF i = 1 THEN 1 ELSE NoCadence]

MCEntry(id, name, every, refs) == [id |-> id, name |-> name, on |-> TRUE, every |-> every, refs |-> refs]

\* B has A as a member, mix is merged from base, a rule refers to r1.
MCStartConfig == [list \in {"sources", "groups", "providers", "profiles"} |->
    CASE list = "sources" -> <<MCEntry("u1", "home", 1, {})>>
      [] list = "groups" -> <<MCEntry("A", "none", 0, {}), MCEntry("B", "none", 0, {"A"})>>
      [] list = "providers" -> <<MCEntry("r1", "none", 0, {})>>
      [] list = "profiles" -> <<MCEntry("base", "none", 0, {}), MCEntry("mix", "none", 0, {"base"})>>]

MCPlain == [safe |-> TRUE, type |-> "select", url |-> "none"]
MCWord(text, nth) == [kind |-> "word", text |-> text, nth |-> nth]
MCUrl(text) == [kind |-> "url", text |-> text, nth |-> 0]
MCCommand(list, verb, entry, target) ==
    [list |-> list, verb |-> verb, entry |-> entry, target |-> target, args |-> MCPlain,
     purge |-> FALSE, apply |-> TRUE, dryRun |-> FALSE]
MCNamed(list, verb, id, refs) == MCCommand(list, verb, MCEntry(id, "none", 0, refs), MCUrl("none"))

MCEditCommands ==
    { MCCommand("sources", "add", MCEntry("u2", "home", 1, {}), MCUrl("u2")),
      MCCommand("sources", "add", MCEntry("u2", "work", 1, {}), MCUrl("u2")),
      [MCCommand("sources", "remove", MCEntry("u1", "none", 0, {}), MCWord("home", 0)) EXCEPT !.purge = TRUE],
      MCCommand("sources", "disable", MCEntry("u1", "none", 0, {}), MCWord("1", 1)),
      MCCommand("sources", "set", MCEntry(NoUrl, "work", 0, {}), MCUrl("u1")),
      MCCommand("sources", "set", MCEntry("u2", "none", 2, {}), MCUrl("u1")),
      MCNamed("groups", "add", "C", {"B"}),
      [MCNamed("groups", "add", "C", {"B"}) EXCEPT !.args.type = "url-test"],
      MCNamed("groups", "remove", "A", {}), MCNamed("groups", "remove", "B", {}),
      MCNamed("groups", "enable", "A", {}),
      [MCNamed("groups", "disable", "A", {}) EXCEPT !.dryRun = TRUE],
      MCNamed("providers", "add", "r2", {}), MCNamed("providers", "remove", "r1", {}),
      MCNamed("providers", "disable", "r1", {}),
      MCNamed("profiles", "add", "new", {"base"}), MCNamed("profiles", "remove", "mix", {}),
      MCNamed("profiles", "remove", "base", {}), MCNamed("profiles", "disable", "mix", {}) }

MCImportFiles == {<<"a", "b">>, <<"a", "a", "bad">>, <<"b", "a", "b">>}
MCLength == [v \in Versions \cup OwnBodies |-> IF v = "v2" THEN 2 ELSE 1]

\* The initial states of the ones that are not followed count once.  At first the
\* first source serves a list and the second something unreadable; a publication
\* changes either.  Each node has a name and a subscription of its own.
IntakeInit ==
    /\ followed \in {"subscriptions", "selection", "edits", "inline", "profiles", "log", "reset"}
    /\ SubInit /\ SelInit /\ EditsInit /\ InlineInit /\ StoreInit /\ LogInit /\ ResetInit
    /\ followed # "subscriptions" => \A i \in Ids : server[i].kind = CHOOSE k \in KindsOf[i] : TRUE
    /\ followed = "subscriptions" => server[1].kind = "list" /\ server[2].kind = "bad"
    /\ registry = (CHOOSE r \in [Nodes -> Names] : Distinct(r))
    /\ feedOf = (CHOOSE f \in [Nodes -> Feeds] : Cardinality({f[n] : n \in Nodes}) = 2)
    /\ followed # "selection" => active = "mihomo"
    /\ followed # "profiles" => served = "v1" /\ body = NoFile
    /\ followed # "reset" => root = NoRoot

IntakeNext ==
    \/ /\ followed = "subscriptions" /\ SubNext
       /\ UNCHANGED <<followed, selVars, editVars, inlineVars, storeVars, logVars, resetVars>>
    \/ /\ followed = "selection" /\ SelNext
       /\ UNCHANGED <<followed, subVars, editVars, inlineVars, storeVars, logVars, resetVars>>
    \/ /\ followed = "edits" /\ EditsNext
       /\ UNCHANGED <<followed, subVars, selVars, inlineVars, storeVars, logVars, resetVars>>
    \/ /\ followed = "inline" /\ InlineNext
       /\ UNCHANGED <<followed, subVars, selVars, editVars, storeVars, logVars, resetVars>>
    \/ /\ followed = "profiles" /\ StoreNext
       /\ UNCHANGED <<followed, subVars, selVars, editVars, inlineVars, logVars, resetVars>>
    \/ /\ followed = "log" /\ LogNext
       /\ UNCHANGED <<followed, subVars, selVars, editVars, inlineVars, storeVars, resetVars>>
    \/ /\ followed = "reset" /\ ResetNext
       /\ UNCHANGED <<followed, subVars, selVars, editVars, inlineVars, storeVars, logVars>>

IntakeSpec == IntakeInit /\ [][IntakeNext]_intakeVars

(***************************************************************************)
(* Properties                                                              *)
(***************************************************************************)
\* What the commands without a daemon leave on disk: edits refer to what exists,
\* a profile that loads is whole unless two commands wrote it at the same time, and
\* the operation log is a history of what was recorded.
FilesInv == EditsInv /\ LoadsWholeBodies /\ LogIsHistory

\* What such a command may never do to the files, killed or not: lose an inline
\* proxy entry, report a profile refreshed that is not what the server serves while
\* the sidecar's tag stands for the cached body, or lose the files of the operator
\* in a reset.
FilesKept == EntriesSafe /\ RefreshedIsServed /\ OwnFilesKept
=============================================================================
