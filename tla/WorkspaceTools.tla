---- MODULE WorkspaceTools ----
(***************************************************************************)
(* What changes the files of one workspace: the tools that write, edit,    *)
(* run a shell and stage produced files (tools/workspace/), the wipe of    *)
(* the sweep or of the privacy command, and the lock they share (utils/    *)
(* workspaceState.js), while the container may be replaced and the process *)
(* may die.                                                                *)
(*                                                                         *)
(* One text file stands for all: its content is the set of texts found in  *)
(* it.  A call is a command in the container between two awaits; what the  *)
(* host does after one resumes is part of the step that resumes it.        *)
(***************************************************************************)
EXTENDS Integers, FiniteSets

CONSTANTS
    ToolCalls,
    Wiper,       \* the sweep or the privacy wipe, as an owner of the lock
    NoOwner,
    LockTTL,     \* LOCK_MAX_TTL_MS, in ticks
    TextMax,     \* ceiling of one of the commands of a write, in ticks
    ShellMax,    \* ceiling of a shell command, in ticks
    Quota,       \* WORKSPACE_QUOTA_BYTES; a text, a file and a spill weigh one
    Batch,       \* files of one multi-file output
    MaxSpill,    \* bound on what background processes write
    MaxMishaps   \* bound on process mishaps and on replaced containers

ASSUME ToolConstants ==
    /\ Wiper \notin ToolCalls /\ NoOwner \notin ToolCalls \cup {Wiper}
    /\ TextMax \in Nat /\ ShellMax \in Nat /\ LockTTL \in Nat
    /\ 3 * TextMax < LockTTL /\ ShellMax < LockTTL
    /\ Quota \in Nat /\ Batch \in Nat \ {0, 1} /\ MaxSpill \in Nat /\ MaxMishaps \in Nat

VARIABLES
    lock,     \* .workspace_lock: its owner and the ticks until it expires
    content,  \* the texts of the file; absent is empty
    spill,    \* what background processes wrote
    backup,   \* the rollback copies in the container: <<tool, content>>; one
              \* left behind has a name nobody uses again, and is dropped here
    pending,  \* .tool-output-pending: the files <<tool, number>> in it
    out,      \* the produced files of each call as the model sees them
    tool,     \* each tool call
    wipe,     \* where the wipe stands
    mishaps

toolVars == <<lock, content, spill, backup, pending, out, tool, wipe, mishaps>>

ToolKinds == {"write", "edit", "shell", "one", "batch"}
NoLock == [owner |-> NoOwner, left |-> 0]
NoTool == [pc |-> "idle", kind |-> "shell", base |-> {}, ran |-> 0, undone |-> FALSE]
Commands == {"writing", "shell", "rolling", "closing"}
Texts == SUBSET ToolCalls

(* Files 1..Batch belong together; a file of its own is number 0.          *)
Single == 0

ToolTypeOK ==
    /\ lock \in [owner : ToolCalls \cup {Wiper, NoOwner}, left : 0..LockTTL]
    /\ content \in Texts /\ spill \in 0..MaxSpill
    /\ backup \subseteq ToolCalls \X Texts
    /\ pending \subseteq ToolCalls \X (1..Batch)
    /\ out \in [ToolCalls -> SUBSET (ToolCalls \X (Single..Batch))]
    /\ tool \in [ToolCalls -> [pc : {"idle", "wait", "staging"} \cup Commands, kind : ToolKinds,
                               base : Texts, ran : (0..ShellMax + TextMax) \cup (0..Batch), undone : BOOLEAN]]
    /\ wipe \in {"off", "wait", "closing"}
    /\ mishaps \in 0..MaxMishaps

ToolInit ==
    /\ lock = NoLock
    /\ content = {} /\ spill = 0 /\ backup = {} /\ pending = {}
    /\ out = [c \in ToolCalls |-> {}]
    /\ tool = [c \in ToolCalls |-> NoTool]
    /\ wipe = "off" /\ mishaps = 0

Produced == {c \in ToolCalls : out[c] # {}}
Used == Cardinality(content) + spill + Cardinality(Produced)
Fits(more, less) == Used + more - less <= Quota

(***************************************************************************)
(* acquireWorkspaceLock, releaseWorkspaceLock.                             *)
(***************************************************************************)

\* Fault: the directory need not be new.
AcquireAnyway(who) == lock' = [owner |-> who, left |-> LockTTL]

(* mkdir succeeds, or the generation there has expired and is reaped.      *)
Acquire(who) ==
    /\ lock.owner = NoOwner \/ lock.left = 0
    /\ lock' = [owner |-> who, left |-> LockTTL]

(* Only the generation the token names is removed.                         *)
Released(who) == IF lock.owner = who THEN NoLock ELSE lock

Become(c, pc) == tool' = [tool EXCEPT ![c].pc = pc, ![c].ran = 0]
(* The result is told to the model; "rolled back" is the one a property    *)
(* is about.                                                               *)
Finish(c, result) ==
    /\ tool' = [tool EXCEPT ![c] = [NoTool EXCEPT !.undone = (result = "rolled_back")]]
    /\ lock' = Released(c)

ToolCalled(c) ==
    /\ tool[c].pc = "idle"
    /\ \E k \in ToolKinds : tool' = [tool EXCEPT ![c] = [NoTool EXCEPT !.pc = "wait", !.kind = k]]
    /\ UNCHANGED <<lock, content, spill, backup, pending, out, wipe, mishaps>>

(* WORKSPACE_LOCK_WAIT_MS is over, or the turn.                            *)
Busy(c) ==
    /\ tool[c].pc = "wait"
    /\ lock.owner # NoOwner
    /\ tool' = [tool EXCEPT ![c] = NoTool]
    /\ UNCHANGED <<lock, content, spill, backup, pending, out, wipe, mishaps>>

(***************************************************************************)
(* writeFile and editFile: under the lock, the base of an edit is read and *)
(* the capacity checked; then commitWorkspaceText.                         *)
(***************************************************************************)
NewText(c) == IF tool[c].kind = "edit" THEN tool[c].base \cup {c} ELSE {c}

TextStarts(c) ==
    /\ tool[c].pc = "wait" /\ tool[c].kind \in {"write", "edit"}
    /\ Acquire(c)
    /\ Fits(IF tool[c].kind = "edit" THEN 1 + Cardinality(content) ELSE 1, Cardinality(content))
    /\ tool[c].kind = "edit" => content # {}
    /\ tool' = [tool EXCEPT ![c].pc = "writing", ![c].ran = 0, ![c].base = content]
    /\ UNCHANGED <<content, spill, backup, pending, out, wipe, mishaps>>

(* Over the quota, nothing to edit, or an inventory that is incomplete: no *)
(* write was begun.                                                        *)
TextRefused(c) ==
    /\ tool[c].pc = "wait" /\ tool[c].kind \in {"write", "edit"}
    /\ lock.owner = NoOwner \/ lock.left = 0
    /\ tool' = [tool EXCEPT ![c] = NoTool]
    /\ lock' = NoLock
    /\ UNCHANGED <<content, spill, backup, pending, out, wipe, mishaps>>

(* ATOMIC_WRITE_SCRIPT: the old file is copied aside, the new one renamed  *)
(* over it.  Killed before the rename it changes nothing, killed after it  *)
(* the write stands; either way it is reported as failed.                  *)
TextFails(c) ==
    /\ tool[c].pc = "writing"
    /\ \/ UNCHANGED content
       \/ content' = NewText(c)
    /\ Finish(c, "failed")
    /\ UNCHANGED <<spill, backup, pending, out, wipe, mishaps>>

Without(c) == {b \in backup : b[1] # c}

\* Fault: the copy is made of the new text.
TextWrittenCopyLate(c) ==
    /\ tool[c].pc = "writing"
    /\ content' = NewText(c)
    /\ backup' = backup \cup {<<c, NewText(c)>>}
    /\ LET used == Cardinality(content') + spill + Cardinality(Produced)
       IN \/ used <= Quota /\ Become(c, "closing")
          \/ Become(c, "rolling")
    /\ UNCHANGED <<lock, spill, pending, out, wipe, mishaps>>

(* The script is done and the host looks at the quota again.               *)
TextWritten(c) ==
    /\ tool[c].pc = "writing"
    /\ content' = NewText(c)
    /\ backup' = backup \cup {<<c, content>>}
    /\ LET used == Cardinality(content') + spill + Cardinality(Produced)
       IN \/ used <= Quota /\ Become(c, "closing")
          \/ Become(c, "rolling")   \* over, or its inventory incomplete
    /\ UNCHANGED <<lock, spill, pending, out, wipe, mishaps>>

(* ROLLBACK_WRITE_SCRIPT; the copy is lost with the container it was in.   *)
Rollback(c) ==
    /\ tool[c].pc = "rolling"
    /\ \/ \E b \in backup :
            /\ b[1] = c
            /\ content' = b[2]
            /\ Finish(c, "rolled_back")
       \/ /\ UNCHANGED content
          /\ Finish(c, "rollback_failed")
    /\ backup' = Without(c)
    /\ UNCHANGED <<spill, pending, out, wipe, mishaps>>

(* FINALIZE_WRITE_SCRIPT.                                                  *)
Finalize(c) ==
    /\ tool[c].pc = "closing"
    /\ backup' = Without(c)
    /\ Finish(c, "ok")
    /\ UNCHANGED <<content, spill, pending, out, wipe, mishaps>>

(***************************************************************************)
(* shell.                                                                  *)
(***************************************************************************)
ShellStarts(c) ==
    /\ tool[c].pc = "wait" /\ tool[c].kind = "shell"
    /\ Acquire(c)
    /\ Become(c, "shell")
    /\ UNCHANGED <<content, spill, backup, pending, out, wipe, mishaps>>

(* The command may change the file, delete it, and leave a background      *)
(* process behind; a quota left exceeded makes the result a failure.       *)
ShellEnds(c) ==
    /\ tool[c].pc = "shell"
    /\ content' \in {content, content \cup {c}, {}}
    /\ LET used == Cardinality(content') + spill + Cardinality(Produced)
       IN \/ used <= Quota /\ Finish(c, "ok")
          \/ Finish(c, "failed")
    /\ UNCHANGED <<spill, backup, pending, out, wipe, mishaps>>

Background ==
    /\ spill < MaxSpill
    /\ spill' = spill + 1
    /\ UNCHANGED <<lock, content, backup, pending, out, tool, wipe, mishaps>>

(***************************************************************************)
(* stageToolOutputsBatch: one file is written in place, several are built  *)
(* in .tool-output-pending and published by one rename.  No await falls    *)
(* between two writes, so only the death of the process does.              *)
(***************************************************************************)
StageStarts(c) ==
    /\ tool[c].pc = "wait" /\ tool[c].kind \in {"one", "batch"}
    /\ out[c] = {}
    /\ Acquire(c)
    /\ Fits(1, 0)
    /\ pending' = {}
    /\ Become(c, "staging")
    /\ UNCHANGED <<content, spill, backup, out, wipe, mishaps>>

StageRefused(c) ==
    /\ tool[c].pc = "wait" /\ tool[c].kind \in {"one", "batch"}
    /\ lock.owner = NoOwner \/ lock.left = 0
    /\ ~Fits(1, 0)
    /\ pending' = {}
    /\ lock' = NoLock
    /\ tool' = [tool EXCEPT ![c] = NoTool]
    /\ UNCHANGED <<content, spill, backup, out, wipe, mishaps>>

\* Fault: the files of a batch are written where the model sees them.
StageFileInPlace(c) ==
    /\ tool[c].pc = "staging" /\ tool[c].kind = "batch"
    /\ tool[c].ran < Batch
    /\ out' = [out EXCEPT ![c] = @ \cup {<<c, tool[c].ran + 1>>}]
    /\ tool' = [tool EXCEPT ![c].ran = @ + 1]
    /\ UNCHANGED <<lock, content, spill, backup, pending, wipe, mishaps>>

StageFile(c) ==
    /\ tool[c].pc = "staging" /\ tool[c].kind = "batch"
    /\ tool[c].ran < Batch
    /\ pending' = pending \cup {<<c, tool[c].ran + 1>>}
    /\ tool' = [tool EXCEPT ![c].ran = @ + 1]
    /\ UNCHANGED <<lock, content, spill, backup, out, wipe, mishaps>>

Publish(c) ==
    /\ tool[c].pc = "staging"
    /\ tool[c].kind = "batch" => tool[c].ran = Batch
    /\ out' = [out EXCEPT ![c] = IF tool[c].kind = "batch" THEN pending ELSE {<<c, Single>>}]
    /\ pending' = {}
    /\ Finish(c, "ok")
    /\ UNCHANGED <<content, spill, backup, wipe, mishaps>>

(***************************************************************************)
(* The wipe of an idle workspace, which does not wait for the lock, and of *)
(* the privacy command, which does.                                        *)
(***************************************************************************)
WipeAsked ==
    /\ wipe = "off"
    /\ content # {} \/ pending # {} \/ Produced # {}
    /\ wipe' = "wait"
    /\ UNCHANGED <<lock, content, spill, backup, pending, out, tool, mishaps>>

WipeStarts ==
    /\ wipe = "wait"
    /\ \/ Acquire(Wiper) /\ wipe' = "closing"
       \/ lock.owner # NoOwner /\ wipe' = "off" /\ UNCHANGED lock
    /\ UNCHANGED <<content, spill, backup, pending, out, tool, mishaps>>

(* The container has been shut down, unless that failed; then wipeWorkspace*)
(* in one go.                                                              *)
WipeEnds ==
    /\ wipe = "closing"
    /\ wipe' = "off"
    /\ lock' = Released(Wiper)
    /\ backup' \in {backup, {}}
    /\ content' = {} /\ spill' = 0 /\ pending' = {}
    /\ out' = [c \in ToolCalls |-> {}]
    /\ UNCHANGED <<tool, mishaps>>

(***************************************************************************)
(* Time, containers, and the death of the process.                         *)
(***************************************************************************)

\* Fault: no command is killed.
NoCeiling(c) == LockTTL

Ceiling(c) == IF tool[c].pc = "shell" THEN ShellMax ELSE TextMax

(* A command ends by its ceiling; the wipe's shutdown takes no longer than *)
(* a command; staging takes no time.                                       *)
LockTick ==
    /\ lock.left > 0
    /\ \A c \in ToolCalls : /\ tool[c].pc # "staging"
                            /\ tool[c].pc \in Commands => tool[c].ran < Ceiling(c)
    /\ wipe = "closing" => lock.left > LockTTL - TextMax
    /\ lock' = [lock EXCEPT !.left = @ - 1]
    /\ tool' = [c \in ToolCalls |-> IF tool[c].pc \in Commands
                                    THEN [tool[c] EXCEPT !.ran = @ + 1] ELSE tool[c]]
    /\ UNCHANGED <<content, spill, backup, pending, out, wipe, mishaps>>

(* A container that stops takes its rollback copies with it; the next      *)
(* command gets a new one.                                                 *)
ContainerReplaced ==
    /\ mishaps < MaxMishaps
    /\ backup # {}
    /\ backup' = {}
    /\ mishaps' = mishaps + 1
    /\ UNCHANGED <<lock, content, spill, pending, out, tool, wipe>>

(* The lock outlives the process: nobody now running owns it.  A write in  *)
(* progress loses the end of its input, and the script may still rename    *)
(* what it has; a file staged in place stays as far as it was written.     *)
ProcessDies ==
    /\ mishaps < MaxMishaps
    /\ mishaps' = mishaps + 1
    /\ \/ UNCHANGED content
       \/ \E c \in ToolCalls : tool[c].pc = "writing" /\ content' \in {NewText(c), {}}
    /\ out' = [c \in ToolCalls |-> IF tool[c].pc = "staging" /\ tool[c].kind = "one"
                                   THEN {<<c, Single>>} ELSE out[c]]
    /\ tool' = [c \in ToolCalls |-> NoTool]
    /\ wipe' = "off"
    /\ backup' = {}
    /\ lock' = IF lock.owner = NoOwner THEN lock ELSE [lock EXCEPT !.owner = Wiper]
    /\ UNCHANGED <<spill, pending>>

ToolNext ==
    \/ \E c \in ToolCalls :
         \/ ToolCalled(c) \/ Busy(c)
         \/ TextStarts(c) \/ TextRefused(c) \/ TextFails(c) \/ TextWritten(c)
         \/ Rollback(c) \/ Finalize(c)
         \/ ShellStarts(c) \/ ShellEnds(c)
         \/ StageStarts(c) \/ StageRefused(c) \/ StageFile(c) \/ Publish(c)
    \/ WipeAsked \/ WipeStarts \/ WipeEnds
    \/ Background \/ LockTick \/ ContainerReplaced \/ ProcessDies

ToolSpec == ToolInit /\ [][ToolNext]_toolVars

(***************************************************************************)
(* Properties.                                                             *)
(***************************************************************************)
(* An edit is read, transformed and written back in several awaits.  No    *)
(* other call, no shell and no wipe changes the file in between, so what   *)
(* is written is the file as it stands plus the edit.                      *)
EditLosesNothing ==
    [][\A c \in ToolCalls :
         tool[c].kind = "edit" /\ tool[c].pc = "writing" /\ tool'[c].pc \in {"closing", "rolling"}
             => content' = content \cup {c}]_toolVars

(* "The write was rolled back" is said only of a file that is as the call  *)
(* found it, whatever the container and other calls did meanwhile.         *)
RolledBackMeansUndone ==
    [][\A c \in ToolCalls :
         tool[c].pc = "rolling" /\ tool'[c].undone
             => content' = tool[c].base]_toolVars

(* Several produced files are seen by the model all or not at all, even    *)
(* when the process dies while they are being written.                     *)
BatchIsWhole ==
    \A c \in ToolCalls : out[c] \cap (ToolCalls \X (1..Batch)) \in {{}, {c} \X (1..Batch)}
====
