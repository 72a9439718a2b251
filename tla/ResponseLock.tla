---- MODULE ResponseLock ----
(***************************************************************************)
(* utils/responseLock.js for one chat key: the lease that keeps a chat at  *)
(* one turn at a time, its renewal timer and its expiry.  Time is a set of *)
(* countdowns that Tick (in ChatTurn) decrements together; a countdown at  *)
(* zero or below is a timer that is due.  A lease is named by the message  *)
(* that opened it, NoOne is "no entry".                                    *)
(***************************************************************************)
EXTENDS Integers

CONSTANTS
    MaxMsgs,       \* messages that reach the chat in a behaviour
    TTL,           \* BATCH_LOCK_TTL_MS, the life of an unrenewed lease
    RenewEvery,    \* period of the renewal timer (a third of the TTL)
    MaxAutoRenew,  \* MAX_AUTO_RENEW_MS, after which a lease is not renewed
    MaxLag         \* how late a due timer may run (event loop busy, host asleep)

ASSUME LockConstants ==
    /\ MaxMsgs \in Nat \ {0}
    /\ TTL \in Nat \ {0}
    /\ RenewEvery \in Nat \ {0}
    /\ MaxAutoRenew \in Nat \ {0}
    /\ MaxLag \in Nat

Msgs == 1 .. MaxMsgs
NoOne == 0

VARIABLES
    owner,        \* lockId of the entry in the Map, NoOne when there is none
    left,         \* time until entry.expiresAt
    renewing,     \* leases whose renewal interval is armed
    renewIn,      \* time until the next firing of each interval
    renewUntil    \* time until each interval's MAX_AUTO_RENEW_MS ceiling

lockVars == <<owner, left, renewing, renewIn, renewUntil>>

LockTypeOK ==
    /\ owner \in Msgs \cup {NoOne}
    /\ left \in 0 .. TTL
    /\ renewing \subseteq Msgs
    /\ renewIn \in [Msgs -> -MaxLag .. RenewEvery]
    /\ renewUntil \in [Msgs -> 0 .. MaxAutoRenew]

LockInit ==
    /\ owner = NoOne
    /\ left = 0
    /\ renewing = {}
    /\ renewIn = [m \in Msgs |-> 0]
    /\ renewUntil = [m \in Msgs |-> 0]

\* An entry that has not expired; every operation ignores one that has.
Locked == owner # NoOne /\ left > 0
Owned(m) == owner = m /\ left > 0

\* Fault: tryLock does not look at the entry that is there.
AcquireAnyway(m) ==
    /\ owner' = m
    /\ left' = TTL
    /\ renewing' = renewing \cup {m}
    /\ renewIn' = [renewIn EXCEPT ![m] = RenewEvery]
    /\ renewUntil' = [renewUntil EXCEPT ![m] = MaxAutoRenew]
\* tryLock followed by startAutoRenew, as every caller does.
Acquire(m) ==
    /\ ~Locked
    /\ owner' = m
    /\ left' = TTL
    /\ renewing' = renewing \cup {m}
    /\ renewIn' = [renewIn EXCEPT ![m] = RenewEvery]
    /\ renewUntil' = [renewUntil EXCEPT ![m] = MaxAutoRenew]

\* Fault: a refresh that leaves expiresAt alone.
RefreshWithoutExtending(m) == Owned(m) /\ UNCHANGED <<owner, left>>
Refresh(m) ==
    /\ Owned(m)
    /\ left' = TTL
    /\ owner' = owner

StopRenew(m) ==
    /\ renewing' = renewing \ {m}
    /\ renewIn' = [renewIn EXCEPT ![m] = 0]
    /\ renewUntil' = [renewUntil EXCEPT ![m] = 0]

\* Faults: unlock deletes whatever entry is there; unlock never finds its entry.
UnlockAnyone(m) == owner' = NoOne /\ left' = 0
UnlockNothing(m) == UNCHANGED <<owner, left>>

\* Only the owner of a live entry deletes it.
Unlock(m) ==
    /\ owner' = IF Owned(m) THEN NoOne ELSE owner
    /\ left' = IF Owned(m) THEN 0 ELSE left

\* Fault: renewal without the MAX_AUTO_RENEW_MS ceiling.
RenewForever(m) ==
    /\ m \in renewing
    /\ renewIn[m] <= 0
    /\ IF ~Owned(m)
       THEN StopRenew(m) /\ UNCHANGED <<owner, left>>
       ELSE /\ Refresh(m)
            /\ renewIn' = [renewIn EXCEPT ![m] = RenewEvery]
            /\ UNCHANGED <<renewing, renewUntil>>

\* Fault: an interval as long as the lease itself.
RenewTooLate(m) ==
    /\ m \in renewing
    /\ renewIn[m] <= 0
    /\ IF renewUntil[m] = 0 \/ ~Owned(m)
       THEN StopRenew(m) /\ UNCHANGED <<owner, left>>
       ELSE /\ Refresh(m)
            /\ renewIn' = [renewIn EXCEPT ![m] = TTL]
            /\ UNCHANGED <<renewing, renewUntil>>

\* One firing of the interval: it stops at its ceiling or when the lease is
\* no longer its own, and otherwise pushes the expiry forward.
RenewTimer(m) ==
    /\ m \in renewing
    /\ renewIn[m] <= 0
    /\ IF renewUntil[m] = 0 \/ ~Owned(m)
       THEN StopRenew(m) /\ UNCHANGED <<owner, left>>
       ELSE /\ Refresh(m)
            /\ renewIn' = [renewIn EXCEPT ![m] = RenewEvery]
            /\ UNCHANGED <<renewing, renewUntil>>

\* The timeout of _armExpiry removes an entry that nobody renewed.
ExpiryTimer ==
    /\ owner # NoOne
    /\ left = 0
    /\ owner' = NoOne
    /\ UNCHANGED <<left, renewing, renewIn, renewUntil>>

\* The countdowns after one unit of time.
Down(x) == IF x > 0 THEN x - 1 ELSE 0
LockTick ==
    /\ left' = Down(left)
    /\ renewIn' = [m \in Msgs |-> IF m \in renewing THEN renewIn[m] - 1 ELSE 0]
    /\ renewUntil' = [m \in Msgs |-> Down(renewUntil[m])]
    /\ UNCHANGED <<owner, renewing>>
LockTimersInTime == \A m \in renewing : renewIn[m] > -MaxLag
====
