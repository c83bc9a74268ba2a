----------------------------- MODULE ProfileStore -----------------------------
(***************************************************************************)
(* The cache of one remote profile: the body and its metadata sidecar      *)
(* (crates/caly-profile/src/profile_store.rs), the commands that refresh,  *)
(* edit and remove it (crates/caly-cli/src/client/profile), and the strict *)
(* loader that reads it at boot.  Every file operation is a step, several  *)
(* commands run at once and any of them may be killed.                     *)
(***************************************************************************)
EXTENDS Integers, FiniteSets

CONSTANTS
    Commands,       \* CLI processes
    Versions,       \* bodies the server may serve
    OwnBodies,      \* bodies an operator may leave in the editor
    Length,         \* the length of each of them in bytes
    Tagged,         \* the versions served with an ETag
    Interval,       \* interval_minutes
    MaxNow,         \* bound on the clock
    MaxPublishes,   \* bound on the server's changes
    MaxStarts       \* bound on the commands started

VARIABLES
    body, meta,             \* the two files
    bodyTmp, metaTmp,       \* their temporaries, shared by all writers
    cmd,                    \* the progress of each command
    loader,                 \* the strict resolver: what it read, and whether it ever
                            \* handed on part of a body
    served, publishes,      \* the server's current version
    pnow,                   \* the clock
    started,                \* commands started so far
    overlap,                \* history: commands, or their writes of the body, ran at once
    inherited               \* history: the sidecar's tag is not that of the cached body

fileVars == <<body, meta, bodyTmp, metaTmp>>
outsideVars == <<loader, served, publishes, pnow>>
pastVars == <<started, overlap, inherited>>
storeVars == <<fileVars, cmd, outsideVars, pastVars>>

NoFile == [is |-> "missing"]
Torn == [is |-> "torn"]                 \* truncated and not yet written
Body(version) == [is |-> "body", version |-> version]
Meta(length, tag, at) == [is |-> "meta", length |-> length, tag |-> tag, at |-> at]

\* No validator; the tag of a version is the version.
NoTag == "no tag"

TagOf(version) == IF version \in Tagged THEN version ELSE NoTag

Resting == [pc |-> "idle", seen |-> NoFile, sent |-> NoTag, got |-> NoFile, tag |-> NoTag,
            attempt |-> 0, served |-> NoFile, kept |-> FALSE]

\* Nothing is cached, or what an earlier refresh left.
StoreInit ==
    /\ \/ body = NoFile /\ meta = NoFile
       \/ \E v \in Versions : body = Body(v) /\ meta = Meta(Length[v], TagOf(v), 0)
    /\ bodyTmp = NoFile /\ metaTmp = NoFile
    /\ cmd = [c \in Commands |-> Resting]
    /\ loader = [pc |-> "idle", seen |-> NoFile, partial |-> FALSE]
    /\ served \in Versions /\ publishes = 0 /\ pnow = 0
    /\ started = 0 /\ overlap = "none" /\ inherited = FALSE

Done == {"idle", "ok"}

\* A command starts, maybe beside another one.
Starts(c) ==
    /\ cmd[c].pc \in Done
    /\ started < MaxStarts /\ started' = started + 1
    /\ overlap' = IF overlap = "none" /\ \E d \in Commands \ {c} : cmd[d].pc \notin Done
                  THEN "commands" ELSE overlap

\* The commands that are between opening the temporary and the last rename.
Writing == {"write", "fill", "rename", "keep", "writeMeta", "fillMeta", "renameMeta"}

Goto(c, pc) == cmd' = [cmd EXCEPT ![c].pc = pc]

Ends(c, pc) == cmd' = [cmd EXCEPT ![c] = [Resting EXCEPT !.pc = pc]]
Fail(c) == Ends(c, "idle")

\* cache_entry_fresh: a readable sidecar, not from the future, younger than the
\* interval.
Fresh == meta.is = "meta" /\ meta.at <= pnow /\ pnow - meta.at < Interval

\* The length a reader counts.
Bytes(file) == IF file.is = "body" THEN Length[file.version] ELSE 0

\* read without its last check.
Mismatch_Never(file) == FALSE

\* read's last check, against the sidecar as it is now.
Mismatch(file) == meta.is = "meta" /\ meta.length # Bytes(file)

-----------------------------------------------------------------------------
(* refresh_one.                                                             *)

\* refresh_recursive: a fresh entry is not fetched; then the sidecar is read
\* for its validators, and a malformed one is an error.
RefreshProfile(c) ==
    /\ Starts(c)
    /\ ~ Fresh
    /\ CASE meta.is = "torn"    -> Fail(c)
         [] meta.is = "missing" -> cmd' = [cmd EXCEPT ![c] = [Resting EXCEPT !.pc = "fetch"]]
         [] OTHER -> cmd' = [cmd EXCEPT ![c] = [Resting EXCEPT !.pc = "check", !.seen = meta]]
    /\ UNCHANGED <<fileVars, outsideVars, inherited>>

\* The validators are only sent with a body in the cache: read, its first half.
CheckBody(c) ==
    /\ cmd[c].pc = "check"
    /\ cmd' = [cmd EXCEPT ![c].pc = IF body = NoFile THEN "fetch" ELSE "checkMeta",
                          ![c].got = body]
    /\ UNCHANGED <<fileVars, outsideVars, pastVars>>

\* read, its second half: the sidecar again.
CheckMeta(c) ==
    /\ cmd[c].pc = "checkMeta"
    /\ IF meta.is = "torn" \/ Mismatch(cmd[c].got) THEN Fail(c)
       ELSE cmd' = [cmd EXCEPT ![c].pc = "fetch", ![c].sent = cmd[c].seen.tag,
                               ![c].seen = NoFile]
    /\ UNCHANGED <<fileVars, outsideVars, pastVars>>

\* fetch_profile_body answers with a new body.
ProfileUpdated(c) ==
    /\ cmd[c].pc = "fetch"
    /\ cmd[c].sent = NoTag \/ cmd[c].sent # TagOf(served)
    /\ cmd' = [cmd EXCEPT ![c].pc = "write", ![c].got = Body(served), ![c].tag = TagOf(served),
                          ![c].served = Body(served)]
    /\ UNCHANGED <<fileVars, outsideVars, pastVars>>

\* The server knows the tag: the cached body is read again to be rewritten.
FetchNotModified(c) ==
    /\ cmd[c].pc = "fetch"
    /\ cmd[c].sent # NoTag /\ cmd[c].sent = TagOf(served)
    /\ IF body = NoFile THEN Ends(c, "ok")
       ELSE cmd' = [cmd EXCEPT ![c].pc = "recheck", ![c].got = body, ![c].served = Body(served)]
    /\ UNCHANGED <<fileVars, outsideVars, pastVars>>

Recheck(c) ==
    /\ cmd[c].pc = "recheck"
    /\ IF meta.is = "torn" \/ Mismatch(cmd[c].got) THEN Fail(c) ELSE Goto(c, "write")
    /\ UNCHANGED <<fileVars, outsideVars, pastVars>>

\* A transient error is retried once, any other ends the command.
ProfileFetchFails(c) ==
    /\ cmd[c].pc = "fetch"
    /\ \/ cmd[c].attempt = 0 /\ cmd' = [cmd EXCEPT ![c].attempt = 1]
       \/ Fail(c)
    /\ UNCHANGED <<fileVars, outsideVars, pastVars>>

-----------------------------------------------------------------------------
(* write_full: body and sidecar, each through a temporary and a rename.     *)

\* fs::write truncates first.
OpenTmp(c) ==
    /\ cmd[c].pc = "write"
    /\ bodyTmp' = Torn
    /\ Goto(c, "fill")
    /\ overlap' = IF \E d \in Commands \ {c} : cmd[d].pc \in {"fill", "rename"} THEN "writes" ELSE overlap
    /\ UNCHANGED <<body, meta, metaTmp, outsideVars, started, inherited>>

FillTmp(c) ==
    /\ cmd[c].pc = "fill"
    /\ bodyTmp' = cmd[c].got
    /\ Goto(c, "rename")
    /\ UNCHANGED <<body, meta, metaTmp, outsideVars, pastVars>>

\* Another writer may have taken the temporary away.
RenameBody(c) ==
    /\ cmd[c].pc = "rename"
    /\ IF bodyTmp = NoFile THEN Fail(c) /\ UNCHANGED <<body, bodyTmp>>
       ELSE body' = bodyTmp /\ bodyTmp' = NoFile /\ Goto(c, "keep")
    /\ UNCHANGED <<meta, metaTmp, outsideVars, pastVars>>

\* No validators in the answer: the ones on disk stay.
KeepValidators(c) ==
    /\ cmd[c].pc = "keep"
    /\ CASE cmd[c].tag = NoTag /\ meta.is = "torn" -> Fail(c) /\ UNCHANGED inherited
         [] cmd[c].tag = NoTag /\ meta.is = "meta" ->
               /\ cmd' = [cmd EXCEPT ![c].pc = "writeMeta", ![c].tag = meta.tag, ![c].kept = TRUE]
               /\ inherited' = (inherited \/ (meta.tag # NoTag /\ cmd[c].served # Body(cmd[c].sent)))
         [] OTHER -> Goto(c, "writeMeta") /\ UNCHANGED inherited
    /\ UNCHANGED <<fileVars, outsideVars, started, overlap>>

OpenMetaTmp(c) ==
    /\ cmd[c].pc = "writeMeta"
    /\ metaTmp' = Torn
    /\ Goto(c, "fillMeta")
    /\ UNCHANGED <<body, meta, bodyTmp, outsideVars, pastVars>>

FillMetaTmp(c) ==
    /\ cmd[c].pc = "fillMeta"
    /\ metaTmp' = Meta(Bytes(cmd[c].got), cmd[c].tag, pnow)
    /\ Goto(c, "renameMeta")
    /\ UNCHANGED <<body, meta, bodyTmp, outsideVars, pastVars>>

RenameMeta(c) ==
    /\ cmd[c].pc = "renameMeta"
    /\ IF metaTmp = NoFile THEN Fail(c) /\ UNCHANGED <<meta, metaTmp>>
       ELSE meta' = metaTmp /\ metaTmp' = NoFile /\ Ends(c, "ok")
    /\ inherited' = (inherited /\ cmd[c].kept)
    /\ UNCHANGED <<body, bodyTmp, outsideVars, started, overlap>>

-----------------------------------------------------------------------------
(* edit_profile: read the body, let the operator edit a copy, write it back *)
(* without validators.                                                      *)

EditBody(c) ==
    /\ Starts(c) /\ body # NoFile
    /\ cmd' = [cmd EXCEPT ![c] = [Resting EXCEPT !.pc = "editMeta", !.got = body]]
    /\ UNCHANGED <<fileVars, outsideVars, inherited>>

EditMeta(c) ==
    /\ cmd[c].pc = "editMeta"
    /\ IF meta.is = "torn" \/ Mismatch(cmd[c].got) THEN Fail(c) ELSE Goto(c, "editor")
    /\ UNCHANGED <<fileVars, outsideVars, pastVars>>

\* The editor may fail; then the URL is read from the sidecar.
EditorCloses(c) ==
    /\ cmd[c].pc = "editor"
    /\ \/ Fail(c)
       \/ /\ meta.is # "torn"
          /\ \E v \in OwnBodies : cmd' = [cmd EXCEPT ![c] = [Resting EXCEPT !.pc = "write", !.got = Body(v),
                                                                        !.served = Body(v)]]
    /\ UNCHANGED <<fileVars, outsideVars, pastVars>>

-----------------------------------------------------------------------------
(* remove, the strict loader, and the surroundings.                         *)

RemoveBody(c) ==
    /\ Starts(c) /\ body # NoFile
    /\ body' = NoFile
    /\ Goto(c, "remove")
    /\ UNCHANGED <<meta, bodyTmp, metaTmp, outsideVars, inherited>>

RemoveMeta(c) ==
    /\ cmd[c].pc = "remove"
    /\ meta' = NoFile
    /\ Goto(c, "idle")
    /\ inherited' = FALSE
    /\ UNCHANGED <<body, bodyTmp, metaTmp, outsideVars, started, overlap>>

\* resolve: the cached body, checked against the sidecar; a missing one falls
\* back to a local file, which a remote profile does not have.
ResolveBody ==
    /\ loader.pc = "idle" /\ body # NoFile
    /\ loader' = [loader EXCEPT !.pc = "meta", !.seen = body]
    /\ UNCHANGED <<fileVars, cmd, served, publishes, pnow, pastVars>>

ResolveMeta ==
    /\ loader.pc = "meta"
    /\ LET refused == meta.is = "torn" \/ Mismatch(loader.seen)
       IN  loader' = [pc |-> "idle", seen |-> NoFile,
                      partial |-> loader.partial \/ (~refused /\ loader.seen = Torn)]
    /\ UNCHANGED <<fileVars, cmd, served, publishes, pnow, pastVars>>

\* A command is killed; the temporaries stay.  Between the two renames it leaves
\* the old sidecar beside the new body, which a reader only notices by the length.
Kill(c) ==
    /\ cmd[c].pc \in Writing \cup {"remove"}
    /\ cmd' = [cmd EXCEPT ![c] = Resting]
    /\ inherited' = \/ inherited
                    \/ /\ cmd[c].pc \in {"keep", "writeMeta", "fillMeta", "renameMeta"}
                       /\ meta.is = "meta" /\ meta.length = Bytes(cmd[c].got)
    /\ UNCHANGED <<fileVars, outsideVars, started, overlap>>

ProfileServed ==
    /\ publishes < MaxPublishes
    /\ publishes' = publishes + 1
    /\ served' \in Versions \ {served}
    /\ UNCHANGED <<fileVars, cmd, loader, pnow, pastVars>>

StoreTick ==
    /\ pnow < MaxNow
    /\ pnow' = pnow + 1
    /\ UNCHANGED <<fileVars, cmd, loader, served, publishes, pastVars>>

StoreNext ==
    \/ \E c \in Commands :
          \/ RefreshProfile(c) \/ CheckBody(c) \/ CheckMeta(c)
          \/ ProfileUpdated(c) \/ FetchNotModified(c) \/ Recheck(c) \/ ProfileFetchFails(c)
          \/ OpenTmp(c) \/ FillTmp(c) \/ RenameBody(c) \/ KeepValidators(c)
          \/ OpenMetaTmp(c) \/ FillMetaTmp(c) \/ RenameMeta(c)
          \/ EditBody(c) \/ EditMeta(c) \/ EditorCloses(c)
          \/ RemoveBody(c) \/ RemoveMeta(c) \/ Kill(c)
    \/ ResolveBody \/ ResolveMeta
    \/ ProfileServed \/ StoreTick

StoreSpec == StoreInit /\ [][StoreNext]_storeVars

-----------------------------------------------------------------------------
(* Properties.                                                              *)

\* write says that "a concurrent reader can never see a partial body": the boot-time
\* loader gets whole bodies at whatever step of a refresh or an edit it reads or a
\* command died.  The one exception is two commands that wrote at the same time:
\* they share the temporary.
LoadsWholeBodies == loader.partial => overlap = "writes"

\* A refresh or an edit that reports success left the body that the server served
\* when it answered, or the one of the editor, also when the answer was "not
\* modified", when earlier commands were killed between any two file operations and
\* when the server goes back to a version it served before.  Excepted are commands
\* that ran at once, and a sidecar whose tag was kept for another body: one served
\* without validators, an edited one, or one of the same length whose command was
\* killed before the sidecar followed.
RefreshedIsServed ==
    [][\A c \in Commands :
          (cmd'[c].pc = "ok" /\ cmd[c].pc # "ok" /\ overlap = "none" /\ ~inherited)
              => body' = cmd[c].served]_storeVars
=============================================================================
