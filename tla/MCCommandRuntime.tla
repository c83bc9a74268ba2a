-------------------------- MODULE MCCommandRuntime --------------------------
(* A small instance of CommandRuntime for TLC. *)
EXTENDS CommandRuntime

CONSTANTS o1, o2, setTun, reload, platform, config

TwoOps == {o1, o2}
TwoCommands == {setTun, reload}
TunOnly == {setTun}
TwoOwners == {platform, config}
Routes == setTun :> platform @@ reload :> config
OneReading == {0}
=============================================================================
