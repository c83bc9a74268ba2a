---------------------------- MODULE CommandFiles ----------------------------
(***************************************************************************)
(* The files the commands keep beside config.yaml: the operation history,  *)
(* and the backups of the configuration directory.                         *)
(***************************************************************************)
EXTENDS Integers, Sequences, FiniteSets, SequencesExt

(***************************************************************************)
(* The operation history of the CLI (crates/caly-cli/src/commands/         *)
(* history.rs): a file that every recordable command reads, extends and    *)
(* publishes through a staging file that all terminals share.  Files are   *)
(* inodes, so a terminal that holds a renamed staging file open writes     *)
(* into the published one.                                                 *)
(***************************************************************************)
CONSTANTS
    Terminals,      \* processes of the CLI
    MaxEntries,     \* MAX_ENTRIES
    MaxRecords      \* bound on the commands recorded

VARIABLES
    inode,          \* contents: what was written to each file that existed
    logFile,        \* the inode named operations.json, 0 when there is none
    staging,        \* the inode named operations.json.tmp, 0 when there is none
    terminal,       \* each terminal: its step, its entries, its open inode
    recorded        \* commands begun: the order in which they read the log

logVars == <<inode, logFile, staging, terminal, recorded>>

EmptyFile == [whole |-> FALSE, entries |-> <<>>]
Whole(entries) == [whole |-> TRUE, entries |-> entries]
AtPrompt == [pc |-> "prompt", entries |-> <<>>, fd |-> 0]

LogInit ==
    /\ inode = <<>> /\ logFile = 0 /\ staging = 0
    /\ terminal = [t \in Terminals |-> AtPrompt]
    /\ recorded = 0

\* load: an absent or unreadable file, or one that does not parse, is an
\* empty history.
Load == IF logFile # 0 /\ inode[logFile].whole THEN inode[logFile].entries ELSE <<>>

\* append's ring: the oldest entries above MAX_ENTRIES are drained.
AppendEntry(entries, entry) ==
    LET all == Append(entries, entry)
    IN  SubSeq(all, 1 + (IF Len(all) > MaxEntries THEN Len(all) - MaxEntries ELSE 0), Len(all))

\* maybe_record of a recordable command: the log is read and the new list built.
MaybeRecord(t) ==
    /\ terminal[t] = AtPrompt /\ recorded < MaxRecords
    /\ recorded' = recorded + 1
    /\ terminal' = [terminal EXCEPT ![t] =
            [pc |-> "open", entries |-> AppendEntry(Load, recorded + 1), fd |-> 0]]
    /\ UNCHANGED <<inode, logFile, staging>>

\* history clear publishes an empty list.
ClearLog(t) ==
    /\ terminal[t] = AtPrompt /\ recorded < MaxRecords
    /\ recorded' = recorded + 1
    /\ terminal' = [terminal EXCEPT ![t] = [pc |-> "open", entries |-> <<>>, fd |-> 0]]
    /\ UNCHANGED <<inode, logFile, staging>>

\* persist opens the staging file with create and truncate.
OpenStaging(t) ==
    LET fd == IF staging = 0 THEN Len(inode) + 1 ELSE staging
    IN  /\ terminal[t].pc = "open"
        /\ inode' = IF staging = 0 THEN Append(inode, EmptyFile) ELSE [inode EXCEPT ![staging] = EmptyFile]
        /\ staging' = fd
        /\ terminal' = [terminal EXCEPT ![t].pc = "write", ![t].fd = fd]
        /\ UNCHANGED <<logFile, recorded>>

\* The staging file cannot be opened: the rename is tried all the same.
OpenFails(t) ==
    /\ terminal[t].pc = "open"
    /\ terminal' = [terminal EXCEPT ![t].pc = "rename"]
    /\ UNCHANGED <<inode, logFile, staging, recorded>>

\* write_all at the file's start.  Over another terminal's bytes the result is
\* this list when it is the longer text, and otherwise neither list.
WriteStaging(t) ==
    LET fd == terminal[t].fd
        old == inode[fd]
    IN  /\ terminal[t].pc = "write"
        /\ \E written \in {Whole(terminal[t].entries)} \cup (IF old = EmptyFile THEN {} ELSE {EmptyFile}) :
              inode' = [inode EXCEPT ![fd] = written]
        /\ terminal' = [terminal EXCEPT ![t].pc = "rename"]
        /\ UNCHANGED <<logFile, staging, recorded>>

\* A full disk: the error of write_all is ignored.
WriteFails(t) ==
    /\ terminal[t].pc = "write"
    /\ terminal' = [terminal EXCEPT ![t].pc = "rename"]
    /\ UNCHANGED <<inode, logFile, staging, recorded>>

\* rename: whatever the staging name holds is published; its error is ignored.
PublishLog(t) ==
    /\ terminal[t].pc = "rename"
    /\ logFile' = IF staging = 0 THEN logFile ELSE staging
    /\ staging' = 0
    /\ terminal' = [terminal EXCEPT ![t] = AtPrompt]
    /\ UNCHANGED <<inode, recorded>>

\* Ctrl-C, or the terminal closes.
KillTerminal(t) ==
    /\ terminal[t] # AtPrompt
    /\ terminal' = [terminal EXCEPT ![t] = AtPrompt]
    /\ UNCHANGED <<inode, logFile, staging, recorded>>

LogNext ==
    \E t \in Terminals :
        \/ MaybeRecord(t) \/ ClearLog(t) \/ OpenStaging(t) \/ OpenFails(t)
        \/ WriteStaging(t) \/ WriteFails(t)
        \/ PublishLog(t) \/ KillTerminal(t)

LogSpec == LogInit /\ [][LogNext]_logVars

\* history.rs: "a plain ring-buffer JSON file ... capped at MAX_ENTRIES".  However
\* terminals interleave, and though a concurrent record may lose an entry, a log that
\* parses holds at most MAX_ENTRIES commands, each once, in the order in which
\* they were recorded.
LogIsHistory ==
    /\ Len(Load) <= MaxEntries
    /\ \A i, j \in DOMAIN Load : i < j => Load[i] < Load[j]

(***************************************************************************)
(* caly config generate, caly config default and the bootstrap of a first  *)
(* boot (crates/caly-cli/src/client/config_generate.rs): the configuration *)
(* root is a directory with a base file and fragments, moved aside as a    *)
(* whole before a reset and moved back when the reset fails.  One command  *)
(* runs at a time; each may fail or be killed at any of its file steps.    *)
(***************************************************************************)
CONSTANTS
    Fragments,      \* the files render_default_config_files writes
    MaxResets       \* bound on the commands started

VARIABLES
    root,           \* the configuration directory
    backups,        \* directories moved aside, oldest first
    reset,          \* the running command
    resets

resetVars == <<root, backups, reset, resets>>

\* Who wrote a file: the operator or a default; or there is none.
Files == Fragments \cup {"config.yaml"}
NoRoot == [there |-> FALSE, files |-> [f \in Files |-> "none"]]
EmptyRoot == [NoRoot EXCEPT !.there = TRUE]
NoReset == [pc |-> "idle", keep |-> 0, todo |-> {}]
HasContent(dir) == \E f \in Files : dir.files[f] # "none"

\* What the operator has before the first command.
Owned == {f \in Files : root.files[f] = "own"} \cup
         {f \in Files : \E i \in DOMAIN backups : backups[i].files[f] = "own"}

ResetInit ==
    /\ \E own \in SUBSET Files :
          root \in {[there |-> TRUE, files |-> [f \in Files |-> IF f \in own THEN "own" ELSE "none"]]} \cup
                   (IF own = {} THEN {NoRoot} ELSE {})
    /\ backups = <<>> /\ reset = NoReset /\ resets = 0

\* generate_at and load_config_with_bootstrap: an existing base refuses the
\* first and satisfies the second.
Generate ==
    /\ reset = NoReset /\ resets < MaxResets /\ resets' = resets + 1
    /\ root.files["config.yaml"] = "none"
    /\ reset' = [pc |-> "check", keep |-> 0, todo |-> {}]
    /\ UNCHANGED <<root, backups>>

\* write_default without overwrite_fragments: one existing fragment refuses
\* the whole command before the first write.
CheckFragments ==
    /\ reset.pc = "check"
    /\ root' = [root EXCEPT !.there = TRUE]
    /\ reset' = IF \E f \in Fragments : root.files[f] # "none" THEN NoReset ELSE [reset EXCEPT !.pc = "base"]
    /\ UNCHANGED <<backups, resets>>

\* backup_existing_root: a root with content is renamed to a name that no
\* other backup has, then recreated.
BackupExistingRoot ==
    /\ reset = NoReset /\ resets < MaxResets /\ resets' = resets + 1
    /\ IF HasContent(root)
       THEN /\ backups' = Append(backups, root)
            /\ root' = NoRoot
            /\ reset' = [pc |-> "recreate", keep |-> Len(backups) + 1, todo |-> {}]
       ELSE /\ root' = EmptyRoot
            /\ reset' = [pc |-> "base", keep |-> 0, todo |-> {}]
            /\ UNCHANGED backups

\* A root that cannot be recreated ends the command with the backup in place.
RecreateRoot ==
    /\ reset.pc = "recreate"
    /\ \/ root' = EmptyRoot /\ reset' = [reset EXCEPT !.pc = "base"]
       \/ reset' = NoReset /\ UNCHANGED root
    /\ UNCHANGED <<backups, resets>>

\* write_default: the base file, then every fragment.
WriteBase ==
    /\ reset.pc = "base"
    /\ root' = [root EXCEPT !.files["config.yaml"] = "default"]
    /\ reset' = [reset EXCEPT !.pc = "fragments", !.todo = Fragments]
    /\ UNCHANGED <<backups, resets>>

WriteFragment(f) ==
    /\ reset.pc = "fragments" /\ f \in reset.todo
    /\ root' = [root EXCEPT !.files[f] = "default"]
    /\ reset' = [reset EXCEPT !.todo = @ \ {f}]
    /\ UNCHANGED <<backups, resets>>

\* load_from accepts what was written.
FinishDefault ==
    /\ reset.pc = "fragments" /\ reset.todo = {}
    /\ reset' = NoReset
    /\ UNCHANGED <<root, backups, resets>>

\* reset_at after an error of write_default: only a reset that made a backup
\* removes the root; an error of the removal is ignored.
RestoreAfterFailure ==
    /\ reset' = IF reset.keep # 0 THEN [reset EXCEPT !.pc = "restore"] ELSE NoReset
    /\ root' \in IF reset.keep # 0 THEN {NoRoot, root} ELSE {root}

\* A write, a permission change or the validation fails.
DefaultFails ==
    /\ reset.pc \in {"base", "fragments"}
    /\ RestoreAfterFailure
    /\ UNCHANGED <<backups, resets>>

\* The backup is renamed back, which a root that still has files refuses; its
\* error is ignored.
RestoreBackup ==
    /\ reset.pc = "restore"
    /\ \/ /\ ~HasContent(root) /\ root' = backups[reset.keep]
          /\ backups' = SubSeq(backups, 1, reset.keep - 1)
       \/ UNCHANGED <<root, backups>>
    /\ reset' = NoReset
    /\ UNCHANGED resets

KillReset == reset # NoReset /\ reset' = NoReset /\ UNCHANGED <<root, backups, resets>>

ResetNext ==
    \/ Generate \/ CheckFragments \/ BackupExistingRoot \/ RecreateRoot \/ WriteBase
    \/ \E f \in Fragments : WriteFragment(f)
    \/ FinishDefault \/ DefaultFails \/ RestoreBackup \/ KillReset

ResetSpec == ResetInit /\ [][ResetNext]_resetVars

\* reset_at: the old configuration "is backed up" before defaults are written.
\* Through every failure and kill, no file of the operator is lost: each is in
\* the root or in a backup, and a root is never a mixture of the operator's
\* base with default fragments.
OwnFilesKept ==
    [][/\ Owned \subseteq Owned'
       /\ root'.files["config.yaml"] = "own" => \A f \in Fragments : root'.files[f] # "default"]_resetVars
=============================================================================
