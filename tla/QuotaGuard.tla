---- MODULE QuotaGuard ----
(***************************************************************************)
(* The size of a workspace's writable roots: the guard that is process 1   *)
(* of its container (sandbox/quota_guard.py), the commands it kills, and   *)
(* the writes the API makes from outside (assertRootCapacity,              *)
(* sandbox/workspaceFs.js).                                                *)
(*                                                                         *)
(* A tick is POLL_MIN_SECONDS.  Entries count like bytes and are left out, *)
(* and every directory can be read.                                        *)
(***************************************************************************)
EXTENDS Integers, FiniteSets, FiniteSetsExt

CONSTANTS
    Roots,          \* writable mounts
    RootLimit,      \* their byte limit
    WriteRate,      \* ASSUMED_WRITE_RATE, in bytes a tick
    PollMax,        \* POLL_MAX_SECONDS, in ticks
    ApiSizes,       \* sizes of an API write
    MaxSize         \* bound on the size of a root

ASSUME QuotaGuardConstants ==
    /\ {RootLimit, MaxSize} \subseteq Nat /\ RootLimit <= MaxSize
    /\ {WriteRate, PollMax} \subseteq Nat \ {0}
    /\ IsFiniteSet(Roots) /\ Roots # {} /\ ApiSizes \subseteq Nat \ {0}

VARIABLES
    size,       \* bytes in each root
    polled,     \* previous_size
    exceeded,   \* over_limit
    wait,       \* ticks until the next poll
    jobs,       \* sandbox processes run
    api,        \* the API write under way and the root it was admitted to
    base,       \* sizes when the processes began, or the API last wrote
    mixed       \* the API wrote since the last poll

guardVars == <<size, polled, exceeded, wait, jobs, api, base, mixed>>

NoWrite == [root |-> "none", bytes |-> 0]

GuardTypeOK ==
    /\ {size, polled, base} \subseteq [Roots -> 0..MaxSize]
    /\ exceeded \in [Roots -> BOOLEAN] /\ {jobs, mixed} \subseteq BOOLEAN /\ wait \in 0..PollMax
    /\ api \in {NoWrite} \cup [root : Roots, bytes : ApiSizes]

GuardInit ==
    /\ size \in [Roots -> {0, RootLimit}] /\ base = size /\ polled = [r \in Roots |-> 0]
    /\ exceeded = [r \in Roots |-> FALSE] /\ wait = 0 /\ jobs = FALSE /\ mixed = FALSE
    /\ api = NoWrite

CommandStarts ==
    /\ ~jobs /\ jobs' = TRUE /\ base' = size
    /\ UNCHANGED <<size, polled, exceeded, wait, api, mixed>>

CommandsEnd ==
    /\ jobs /\ jobs' = FALSE
    /\ UNCHANGED <<size, polled, exceeded, wait, api, base, mixed>>

(* A tick: running commands write to the disk, no faster than the guard    *)
(* assumes, or delete as much as they like.                                *)
GuardTick ==
    /\ wait > 0 /\ wait' = wait - 1
    /\ \/ UNCHANGED size
       \/ jobs /\ \E r \in Roots : \E bytes \in 0..size[r] + WriteRate :
             bytes <= MaxSize /\ size' = [size EXCEPT ![r] = bytes]
    /\ UNCHANGED <<polled, exceeded, jobs, api, base, mixed>>

(* assertRootCapacity, and the write that follows it.                      *)
ApiAdmits(r, bytes) ==
    /\ api = NoWrite /\ size[r] + bytes <= RootLimit
    /\ api' = [root |-> r, bytes |-> bytes]
    /\ UNCHANGED <<size, polled, exceeded, wait, jobs, base, mixed>>

ApiWrites ==
    /\ api # NoWrite /\ api' = NoWrite /\ mixed' = TRUE
    /\ size[api.root] + api.bytes <= MaxSize
    /\ size' = [size EXCEPT ![api.root] = @ + api.bytes]
    /\ base' = [base EXCEPT ![api.root] = Max({@, size'[api.root]})]
    /\ UNCHANGED <<polled, exceeded, wait, jobs>>

(* _should_kill_jobs *)
Kills(r) == size[r] > RootLimit /\ (~exceeded[r] \/ size[r] > polled[r])

(* _poll_seconds of the tightest headroom *)
PollTicks ==
    LET headroom == Min({RootLimit - size[r] : r \in Roots})
    IN Max({1, Min({PollMax, headroom \div WriteRate})})

Poll ==
    /\ wait = 0 /\ wait' = PollTicks
    /\ jobs' = (jobs /\ ~\E r \in Roots : Kills(r))
    /\ exceeded' = [r \in Roots |-> size[r] > RootLimit] /\ polled' = size /\ mixed' = FALSE
    /\ UNCHANGED <<size, api, base>>

GuardNext ==
    \/ CommandStarts \/ CommandsEnd \/ GuardTick \/ ApiWrites \/ Poll
    \/ \E r \in Roots, bytes \in ApiSizes : ApiAdmits(r, bytes)

GuardSpec == GuardInit /\ [][GuardNext]_guardVars

(***************************************************************************)
(* Properties.                                                             *)
(***************************************************************************)

(* What the commands of a container add beyond its limit, or beyond the    *)
(* size they found when that was over it, is what they can write between   *)
(* two polls that see no headroom.  An API write meanwhile uses up the     *)
(* headroom the guard counted on: then it is what fits in the longest      *)
(* interval.                                                               *)
Found(r) == Max({RootLimit, base[r]})

OvershootBounded ==
    jobs => \A r \in Roots :
        size[r] <= Found(r) + (IF mixed THEN PollMax * WriteRate ELSE WriteRate)
====
