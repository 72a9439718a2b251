---- MODULE StoreLock ----
(***************************************************************************)
(* The lock directory of ai/credentials/credentialStore.js, one provider:  *)
(* a process holds the store while <pool>.json.lock exists with its nonce  *)
(* in owner.json.  Processes share nothing but the file system, so every   *)
(* system call is a step of its own; everything a process does between two *)
(* awaits runs without its own callers in between, but not without other   *)
(* processes.  rmSync of the directory is one step: nobody can make the    *)
(* directory while the removal is half done.                               *)
(***************************************************************************)
EXTENDS Integers

CONSTANTS
    Procs,   \* processes that use the store
    NoOne,   \* no owner.json
    Ghost    \* the nonce of an acquisition that is over

ASSUME LockNames == NoOne \notin Procs /\ Ghost \notin Procs /\ NoOne # Ghost

VARIABLES
    lock,     \* the directory: there, the nonce in it, older than LOCK_STALE_MS
    at,       \* where _withFileLock stands in each process
    misfired  \* a reclaim has moved a directory that was not stale

lockVars == <<lock, at, misfired>>

NoLock == [there |-> FALSE, nonce |-> NoOne, old |-> FALSE]
NewLock == [there |-> TRUE, nonce |-> NoOne, old |-> FALSE]

Places == {"out", "made", "saw", "in", "leaving"}
Holding == {p \in Procs : at[p] \in {"made", "in", "leaving"}}

LockTypeOK ==
    /\ lock \in [there : BOOLEAN, nonce : Procs \cup {NoOne, Ghost}, old : BOOLEAN]
    /\ at \in [Procs -> Places]
    /\ misfired \in BOOLEAN

LockInit ==
    /\ lock = NoLock
    /\ at = [p \in Procs |-> "out"]
    /\ misfired = FALSE

MovesTo(p, place) == at' = [at EXCEPT ![p] = place]

\* Fault: the directory need not be new.
MakeDirAnyway(p) ==
    /\ at[p] = "out"
    /\ lock' = NewLock
    /\ MovesTo(p, "made")
    /\ UNCHANGED misfired
\* mkdir succeeds.
MakeDir(p) ==
    /\ at[p] = "out"
    /\ ~lock.there
    /\ lock' = NewLock
    /\ MovesTo(p, "made")
    /\ UNCHANGED misfired

\* owner.json is created by path, in whatever directory has the name by now.
WriteOwner(p) ==
    /\ at[p] = "made"
    /\ lock.there /\ lock.nonce = NoOne
    /\ lock' = [lock EXCEPT !.nonce = p, !.old = FALSE]
    /\ MovesTo(p, "in")
    /\ UNCHANGED misfired

\* Another process has an owner.json there: EEXIST, and the catch block
\* removes the directory of that name before the next attempt.
OwnerTaken(p) ==
    /\ at[p] = "made"
    /\ lock.there /\ lock.nonce # NoOne
    /\ lock' = NoLock
    /\ MovesTo(p, "out")
    /\ UNCHANGED misfired

\* Any other error: the directory of that name is removed and the call throws.
OwnerThrows(p) ==
    /\ at[p] = "made"
    /\ lock' = NoLock
    /\ MovesTo(p, "out")
    /\ UNCHANGED misfired

\* mkdir fails and stat shows a directory older than LOCK_STALE_MS ...
SeeStale(p) ==
    /\ at[p] = "out"
    /\ lock.there /\ lock.old
    /\ MovesTo(p, "saw")
    /\ UNCHANGED <<lock, misfired>>

\* ... which is then moved away by its name, whoever made the one that has
\* the name now.
Reclaim(p) ==
    /\ at[p] = "saw"
    /\ lock' = NoLock
    /\ misfired' = (misfired \/ (lock.there /\ ~lock.old))
    /\ MovesTo(p, "out")

\* LOCK_WAIT_MS is over and the directory is still there.
GiveUp(p) ==
    /\ at[p] = "out"
    /\ lock.there /\ ~lock.old
    /\ UNCHANGED lockVars

\* The finally block finds its nonce ...
Leave(p) ==
    /\ at[p] = "in"
    /\ lock.nonce = p
    /\ MovesTo(p, "leaving")
    /\ UNCHANGED <<lock, misfired>>

\* ... or another one, or none, and leaves the directory alone.
LeaveLost(p) ==
    /\ at[p] = "in"
    /\ lock.nonce # p
    /\ MovesTo(p, "out")
    /\ UNCHANGED <<lock, misfired>>

RemoveDir(p) ==
    /\ at[p] = "leaving"
    /\ lock' = NoLock
    /\ MovesTo(p, "out")
    /\ UNCHANGED misfired

\* The directory as an acquisition that is over, or whose process died, leaves it.
Deserted(p) == [lock EXCEPT !.nonce = IF @ = p THEN Ghost ELSE @]

\* rmSync fails: "next writer reclaims it".
RemoveFails(p) ==
    /\ at[p] = "leaving"
    /\ lock' = Deserted(p)
    /\ MovesTo(p, "out")
    /\ UNCHANGED misfired

Dies(p) ==
    /\ lock' = Deserted(p)
    /\ MovesTo(p, "out")
    /\ UNCHANGED misfired

\* Fault: LOCK_STALE_MS is shorter than the work done under the lock.
GoStaleAnyway ==
    /\ lock.there /\ ~lock.old
    /\ lock' = [lock EXCEPT !.old = TRUE]
    /\ UNCHANGED <<at, misfired>>
\* A directory nobody works under grows old.  A holder is done long before:
\* its only wait is the token endpoint's TOKEN_TIMEOUT_MS, a tenth of
\* LOCK_STALE_MS.
GoStale ==
    /\ lock.there /\ ~lock.old
    /\ Holding = {}
    /\ lock' = [lock EXCEPT !.old = TRUE]
    /\ UNCHANGED <<at, misfired>>
====
