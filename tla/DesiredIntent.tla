--------------------------- MODULE DesiredIntent ---------------------------
(***************************************************************************)
(* What the user asked for, kept in one cell that the core actor (SetMode) *)
(* and the platform actor (SetSystemProxy, SetTun) share, and shown in the *)
(* projection's desired slice next to the platform slice.  The cell's      *)
(* value() and replace() take its lock separately, so the two actors'      *)
(* read-modify-write sequences interleave.  The boot gate, which runs      *)
(* before the actors exist, publishes restored and configured effects      *)
(* without writing the cell.  Reports reach the projection in the order    *)
(* they are sent; one whose operation was cancelled meanwhile is dropped.  *)
(***************************************************************************)
EXTENDS Integers, FiniteSets

CONSTANTS
    Modes,          \* the proxy modes SetMode is asked for
    Rule,           \* the mode of a default DesiredState
    MaxCommands,    \* bound on the commands handled
    MaxCancels      \* bound on the reports dropped as cancelled

ASSUME DesiredBounds ==
    /\ MaxCommands \in Nat
    /\ MaxCancels \in Nat

VARIABLES
    cell,      \* SharedDesiredState
    shown,     \* the projection's desired slice
    view,      \* the projection's platform slice
    real,      \* the kernel's mode and the platform effects caly owns
    core,      \* the core actor: its step and the DesiredState in its hand
    platform,  \* the platform actor: the same, and the effect commanded
    been,      \* the (field, value) pairs that have ever been real
    spent      \* commands taken, reports dropped, and whether boot is over;
               \* history: the effects accepted on command, and whether a
               \* commit fell between a SetMode's value() and its replace()

desiredVars == <<cell, shown, view, real, core, platform, been, spent>>

PlatformEffect == {"proxy", "tun"}

Desired == [mode : Modes \cup {Rule}, proxy : BOOLEAN, tun : BOOLEAN]

Default == [mode |-> Rule, proxy |-> FALSE, tun |-> FALSE]

\* PlatformEffectView::none, and ::proxy or ::tun, which name one effect and
\* deny the other.
NoEffect == [proxy |-> FALSE, tun |-> FALSE]

EffectView(effect, on) == [NoEffect EXCEPT ![effect] = on]

\* DesiredState::with_mode, with_system_proxy and with_tun_requested.
With(state, field, value) == [state EXCEPT ![field] = value]

DesiredInit ==
    /\ cell = Default
    /\ shown = Default
    /\ view = NoEffect
    /\ real = Default
    /\ core = [at |-> "idle", want |-> Rule, held |-> Default]
    /\ platform = [at |-> "idle", effect |-> "proxy", on |-> FALSE,
                   held |-> Default]
    /\ been = {<<f, Default[f]>> : f \in DOMAIN Default}
    /\ spent = [commands |-> 0, cancels |-> 0, booted |-> FALSE,
               told |-> {}, crossed |-> FALSE]

\* publish_boot_effects: both flags are set on the snapshot's desired slice
\* from the call's arguments, and the platform slice is replaced.
PublishBootEffects(before, effect) ==
    [desired |-> With(With(before.desired, "proxy", effect = "proxy"),
                      "tun", effect = "tun"),
     view |-> EffectView(effect, TRUE)]

\* boot_sequence: the restored TUN is published first, then the proxy, which
\* was restored or is engaged because the configuration asks for it.  A
\* failed restore or engagement publishes nothing.
BootPublished(engaged) ==
    LET start == [desired |-> shown, view |-> view]
        withTun == IF "tun" \in engaged THEN PublishBootEffects(start, "tun")
                                        ELSE start
    IN  IF "proxy" \in engaged THEN PublishBootEffects(withTun, "proxy")
                               ELSE withTun

BootSequence ==
    /\ ~spent.booted
    /\ \E engaged \in SUBSET PlatformEffect :
        /\ real' = [real EXCEPT !.proxy = "proxy" \in engaged,
                                !.tun = "tun" \in engaged]
        /\ been' = been \cup {<<e, TRUE>> : e \in engaged}
        /\ shown' = BootPublished(engaged).desired
        /\ view' = BootPublished(engaged).view
    /\ spent' = [spent EXCEPT !.booted = TRUE]
    /\ UNCHANGED <<cell, core, platform>>

TakesCommand(accepted) ==
    /\ spent.booted
    /\ spent.commands < MaxCommands
    /\ spent' = [spent EXCEPT !.commands = @ + 1, !.told = @ \cup accepted]

\* A report's slices are applied, or dropped because the operation has been
\* cancelled (cancelled_outcome).
Reports(desired, newView) ==
    \/ /\ shown' = desired
       /\ view' = newView
       /\ UNCHANGED spent
    \/ /\ spent.cancels < MaxCancels
       /\ spent' = [spent EXCEPT !.cancels = @ + 1]
       /\ UNCHANGED <<shown, view>>

\* SetMode in the core actor: value(), then replace(), then the backend.
SetModeReads(m) ==
    /\ core.at = "idle"
    /\ TakesCommand({})
    /\ core' = [at |-> "replaces", want |-> m, held |-> With(cell, "mode", m)]
    /\ UNCHANGED <<cell, shown, view, real, platform, been>>

SetModeReplaces ==
    /\ core.at = "replaces"
    /\ cell' = core.held
    /\ core' = [core EXCEPT !.at = "calls"]
    /\ UNCHANGED <<shown, view, real, platform, been, spent>>

SetModeAnswered ==
    /\ core.at = "calls"
    /\ core' = [core EXCEPT !.at = "idle"]
    /\ \/ /\ real' = [real EXCEPT !.mode = core.want]
          /\ been' = been \cup {<<"mode", core.want>>}
          /\ Reports(core.held, view)
       \/ UNCHANGED <<shown, view, real, been, spent>>
    /\ UNCHANGED <<cell, platform>>

\* The platform actor calls its backend first.  Only an accepted command
\* goes on to the cell; a failed one reports its failure with no slices.
PlatformCalls(e, on) ==
    /\ platform.at = "idle"
    /\ \/ /\ TakesCommand({e})
          /\ real' = With(real, e, on)
          /\ been' = been \cup {<<e, on>>}
          /\ platform' = [platform EXCEPT !.at = "reads", !.effect = e, !.on = on]
       \/ /\ TakesCommand({})
          /\ UNCHANGED <<real, been, platform>>
    /\ UNCHANGED <<cell, shown, view, core>>

\* commit_desired: value(), then replace().
CommitReads ==
    /\ platform.at = "reads"
    /\ platform' = [platform EXCEPT !.at = "replaces",
                                    !.held = With(cell, platform.effect, platform.on)]
    /\ UNCHANGED <<cell, shown, view, real, core, been, spent>>

CommitReplaces ==
    /\ platform.at = "replaces"
    /\ cell' = platform.held
    /\ platform' = [platform EXCEPT !.at = "reports"]
    /\ spent' = [spent EXCEPT !.crossed = @ \/ core.at = "replaces"]
    /\ UNCHANGED <<shown, view, real, core, been>>

\* finish: the intent and the backend's view of its own effect.
Finish_OldView ==
    /\ platform.at = "reports"
    /\ Reports(platform.held, EffectView(platform.effect, TRUE))
    /\ platform' = [platform EXCEPT !.at = "idle"]
    /\ UNCHANGED <<cell, real, core, been>>

Finish ==
    /\ platform.at = "reports"
    /\ Reports(platform.held, EffectView(platform.effect, platform.on))
    /\ platform' = [platform EXCEPT !.at = "idle"]
    /\ UNCHANGED <<cell, real, core, been>>

DesiredNext ==
    \/ BootSequence
    \/ \E m \in Modes : SetModeReads(m)
    \/ SetModeReplaces
    \/ SetModeAnswered
    \/ \E e \in PlatformEffect, on \in BOOLEAN : PlatformCalls(e, on)
    \/ CommitReads
    \/ CommitReplaces
    \/ Finish

DesiredSpec == DesiredInit /\ [][DesiredNext]_desiredVars

-----------------------------------------------------------------------------

\* Types: the cell and every copy of it hold a DesiredState; until the boot is
\* over the actors are idle and nothing is claimed.
DesiredTypeOK ==
    /\ {cell, shown, real} \subseteq Desired
    /\ view \in [proxy : BOOLEAN, tun : BOOLEAN]
    /\ core \in [at : {"idle", "replaces", "calls"}, want : Modes \cup {Rule}, held : Desired]
    /\ platform \in [at : {"idle", "reads", "replaces", "reports"}, effect : PlatformEffect,
                     on : BOOLEAN, held : Desired]
    /\ spent \in [commands : 0..MaxCommands, cancels : 0..MaxCancels, booted : BOOLEAN,
                  told : SUBSET PlatformEffect, crossed : BOOLEAN]
    /\ ~spent.booted => core.at = "idle" /\ platform.at = "idle" /\ spent.told = {} /\ view = NoEffect

\* commit_desired writes the cell only for accepted commands, and SetMode
\* copies the flags it read: whatever the interleaving, a platform flag is
\* set in the cell or in the projection only if the effect was once engaged.
NoPhantomFlag ==
    \A e \in PlatformEffect :
        cell[e] \/ shown[e] => <<e, TRUE>> \in been

\* The platform slice never claims an effect that caly does not own once the
\* platform actor is idle and no report was dropped: each view names the
\* effect just commanded and nothing else.
NoFalseClaim ==
    platform.at = "idle" /\ spent.cancels = 0
        => \A e \in PlatformEffect : view[e] => real[e]

\* Each flag of the cell is as the last accepted command left it whenever the
\* platform actor is idle, failed commands, dropped reports and SetMode
\* included ("a SetMode delta never clobbers a SetTun/SetSystemProxy flag"),
\* unless a commit fell between value() and replace() of a SetMode.
CellFollowsEffects ==
    platform.at = "idle" /\ ~spent.crossed
        => \A e \in spent.told : cell[e] = real[e]

\* What the actors hold between their steps.  The copies in their hands have no
\* phantom flag either; the platform actor's effect is real and in its copy as
\* it was commanded; the view and the cell are right about every effect whose
\* command is not under way; and, unless a commit was crossed, the copies agree
\* with the cell but for the field they are about to change.
CopiesAgree ==
    /\ \A e \in PlatformEffect : core.held[e] \/ platform.held[e] => <<e, TRUE>> \in been
    /\ platform.at # "idle" =>
          real[platform.effect] = platform.on /\ <<platform.effect, platform.on>> \in been
    /\ platform.at \in {"replaces", "reports"} => platform.held[platform.effect] = platform.on
    /\ spent.cancels = 0 =>
          \A e \in PlatformEffect : platform.at = "idle" \/ e # platform.effect => (view[e] => real[e])
    /\ ~spent.crossed =>
          /\ \A e \in spent.told :
                platform.at \in {"idle", "reports"} \/ e # platform.effect => cell[e] = real[e]
          /\ \A e \in PlatformEffect :
                /\ core.at = "replaces" => core.held[e] = cell[e]
                /\ platform.at = "replaces" /\ e # platform.effect => platform.held[e] = cell[e]

\* The invariant of the shared intent: no flag is set out of nothing, the
\* projection claims no effect that is not there, the cell follows the effects
\* carried out, and what the actors hold between their steps supports it.
IntentInv == DesiredTypeOK /\ NoPhantomFlag /\ NoFalseClaim /\ CellFollowsEffects /\ CopiesAgree
=============================================================================
