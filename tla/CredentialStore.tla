---- MODULE CredentialStore ----
(***************************************************************************)
(* One OAuth pool of GemiX: the accounts in the store file, the bot whose  *)
(* requests get, refresh and mark credentials                              *)
(* (nativeOAuthCredentialProvider.js) and the operator's auth CLI, all of  *)
(* them changing the file through credentialStore.js.  A token pair is a   *)
(* number, in the order pairs were issued; its refresh token is accepted   *)
(* once.                                                                   *)
(*                                                                         *)
(* Within a process the changes wait for each other in a chain             *)
(* (keyedLock.js), so only the first job of a process is at the lock.  A   *)
(* job reads the whole pool under the lock and writes the whole pool.      *)
(* Reads without the lock (readPool) see the last file renamed into place. *)
(***************************************************************************)
EXTENDS StoreLock, Sequences

CONSTANTS
    Bot,          \* the process with the provider; the others are CLIs
    MaxAccounts,  \* bound on account ids
    FirstPairs,   \* accounts in the pool at first, account a with pair a
    Callers,      \* requests the bot may have at work at once
    MaxPairs,     \* bound on token pairs
    MaxAdmin,     \* bound on changes made with the CLI
    MaxFaults     \* bound on process deaths and locks that cannot be removed

NoCaller == "none"

ASSUME StoreConstants ==
    /\ Bot \in Procs
    /\ MaxAccounts \in Nat \ {0}
    /\ MaxPairs \in Nat
    /\ FirstPairs \in 0 .. MaxAccounts
    /\ FirstPairs <= MaxPairs
    /\ NoCaller \notin Callers
    /\ MaxAdmin \in Nat
    /\ MaxFaults \in Nat

Accounts == 1 .. MaxAccounts
Pairs == 1 .. MaxPairs
NoPair == 0

VARIABLES
    \* the store file
    pool,     \* pair of each account, NoPair when it is not stored, and
              \* whether its lastStatus is 'ok'
    \* the provider's side
    issued,   \* pairs handed out so far
    fresh,    \* 2: longer than the refresh headroom, 1: still good, 0: expired
    spent,    \* pairs whose refresh token was accepted
    lost,     \* of these, those whose successor never reached the disk
    \* the processes
    queue,    \* jobs chained in each process, the first one at the lock
    stage,    \* how far that job is once it holds the lock
    buf,      \* the pool it is going to write
    tried,    \* the pair it presented to the token endpoint
    call,     \* where each request of the bot stands
    admin,
    faults

provider == <<issued, fresh, spent, lost>>
bounds == <<admin, faults>>
job == <<stage, buf, tried>>
vars == <<lockVars, pool, provider, queue, job, call, bounds>>

Pools == [Accounts -> [pair : Pairs \cup {NoPair}, ok : BOOLEAN]]
Entries == [account : Accounts, pair : Pairs, ok : BOOLEAN]
Jobs == [does : {"refresh", "blame", "mark", "upsert", "remove"}, account : Accounts,
         pair : Pairs \cup {NoPair}, flag : BOOLEAN, by : Callers \cup {NoCaller}]
\* at: what the request waits for.  op: get, refresh (forced) or the loop over
\* the other accounts.  account, pair: the account it refreshes, as it read it.
\* named: credentialSnapshot, the pair its error names.  todo: candidates of
\* the loop, as it read them.
Calls == [at : {"idle", "refreshing", "refused", "blaming", "blamed", "marking"},
          op : {"get", "refresh", "rotate"},
          account : Accounts, pair : Pairs \cup {NoPair}, named : Pairs \cup {NoPair},
          todo : SUBSET Entries]

TypeOK ==
    /\ LockTypeOK
    /\ pool \in Pools
    /\ issued \in 0 .. MaxPairs
    /\ fresh \in [Pairs -> 0 .. 2]
    /\ spent \subseteq Pairs
    /\ lost \subseteq Pairs
    /\ queue \in [Procs -> Seq(Jobs)]
    /\ stage \in [Procs -> {"start", "asking", "write", "stored", "failed"}]
    /\ buf \in [Procs -> Pools]
    /\ tried \in [Procs -> Pairs \cup {NoPair}]
    /\ call \in [Callers -> Calls]
    /\ admin \in 0 .. MaxAdmin
    /\ faults \in 0 .. MaxFaults

NoCall == [at |-> "idle", op |-> "get", account |-> 1, pair |-> NoPair, named |-> NoPair, todo |-> {}]
EmptyPool == [a \in Accounts |-> [pair |-> NoPair, ok |-> TRUE]]

Init ==
    /\ LockInit
    /\ pool = [a \in Accounts |-> [pair |-> IF a <= FirstPairs THEN a ELSE NoPair, ok |-> TRUE]]
    /\ issued = FirstPairs
    /\ fresh \in {f \in [Pairs -> 0 .. 2] : \A n \in Pairs : n > FirstPairs => f[n] = 0}
    /\ spent = {}
    /\ lost = {}
    /\ queue = [p \in Procs |-> <<>>]
    /\ stage = [p \in Procs |-> "start"]
    /\ buf = [p \in Procs |-> EmptyPool]
    /\ tried = [p \in Procs |-> NoPair]
    /\ call = [c \in Callers |-> NoCall]
    /\ admin = 0
    /\ faults = 0

----
(* What the provider reads of the pool. *)

NeedsRefresh(n) == fresh[n] < 2
HasRequiredLifetime(n) == fresh[n] > 0

IsStored(a) == pool[a].pair # NoPair
Entry(a) == [account |-> a, pair |-> pool[a].pair, ok |-> pool[a].ok]
Listed == {Entry(a) : a \in {b \in Accounts : IsStored(b)}}

\* orderPool: healthy accounts first.  Among equals any may be first: the
\* priorities are left out.
IsFirst(r, S) == r.ok \/ \A s \in S : ~s.ok

----
(* Requests of the bot. *)

\* Fault: a refresh that is under way is not found.
NeverInFlight(a) == FALSE
\* The refresh of an account is under way; whoever needs it joins.
InFlight(a) == \E i \in DOMAIN queue[Bot] :
                  queue[Bot][i].does = "refresh" /\ queue[Bot][i].account = a

Chain(p, j) == queue' = [queue EXCEPT ![p] = Append(@, j)]

\* _refreshAccount on an account as the request read it.
RefreshAccount(c, op, r, todo) ==
    /\ call' = [call EXCEPT ![c] = [at |-> "refreshing", op |-> op, account |-> r.account,
                                    pair |-> r.pair, named |-> NoPair, todo |-> todo]]
    /\ IF InFlight(r.account) THEN queue' = queue
       ELSE Chain(Bot, [does |-> "refresh", account |-> r.account, pair |-> r.pair,
                        flag |-> op = "refresh", by |-> c])

\* A request that has its credential, or none to hope for, is over.
Return(c) == call' = [call EXCEPT ![c] = NoCall]

\* get: the first account of the pool.  When its token has the headroom it is
\* handed over and nothing changes.
Get(c) ==
    /\ call[c].at = "idle"
    /\ \E r \in Listed :
          /\ IsFirst(r, Listed)
          /\ NeedsRefresh(r.pair)
          /\ RefreshAccount(c, "get", r, {})
    /\ UNCHANGED <<lockVars, pool, provider, job, bounds>>

\* refresh: the account whose token was rejected, or the first one when it is
\* no longer stored.
Refresh(c, a) ==
    /\ call[c].at = "idle"
    /\ \E r \in Listed :
          /\ IF IsStored(a) THEN r.account = a ELSE IsFirst(r, Listed)
          /\ RefreshAccount(c, "refresh", r, {})
    /\ UNCHANGED <<lockVars, pool, provider, job, bounds>>

\* The refresh failed.  A token that is still good is handed over, except to
\* a request that was refused with it; otherwise the account is marked.
AfterRefused(c) ==
    LET a == call[c].account
        latest == IF IsStored(a) THEN pool[a].pair ELSE call[c].pair
    IN  /\ call[c].at = "refused"
        /\ \/ /\ call[c].op # "refresh"
              /\ HasRequiredLifetime(latest)
              /\ Return(c)
              /\ queue' = queue
           \/ /\ call[c].op = "refresh" \/ ~HasRequiredLifetime(latest)
              /\ call' = [call EXCEPT ![c].at = "blaming"]
              /\ Chain(Bot, [does |-> "blame", account |-> a, flag |-> FALSE, by |-> c,
                             pair |-> IF call[c].named # NoPair THEN call[c].named
                                      ELSE call[c].pair])
        /\ UNCHANGED <<lockVars, pool, provider, job, bounds>>

\* _rotateToUsableAccount: the next of the other accounts, as they were when
\* the loop began.
Rotate(c) ==
    LET candidates == IF call[c].op = "rotate" THEN call[c].todo
                      ELSE {r \in Listed : r.account # call[c].account}
    IN  /\ call[c].at = "blamed"
        /\ \/ /\ candidates = {}
              /\ Return(c)
              /\ queue' = queue
           \/ \E r \in candidates :
                 /\ IsFirst(r, candidates)
                 /\ IF NeedsRefresh(r.pair)
                    THEN RefreshAccount(c, "rotate", r, candidates \ {r})
                    ELSE Return(c) /\ queue' = queue
        /\ UNCHANGED <<lockVars, pool, provider, job, bounds>>

\* markStatus: how the request went, when the store says otherwise.  Of the
\* failures 'auth_failed', 'quota' and 'error' one may follow another.
MarkStatus(c, a, flag) ==
    /\ call[c].at = "idle"
    /\ IsStored(a)
    /\ flag => ~pool[a].ok
    /\ call' = [call EXCEPT ![c] = [NoCall EXCEPT !.at = "marking"]]
    /\ Chain(Bot, [does |-> "mark", account |-> a, pair |-> NoPair, flag |-> flag, by |-> c])
    /\ UNCHANGED <<lockVars, pool, provider, job, bounds>>

----
(* The auth CLI. *)

\* login and import: an account with a pair nobody else has.
Upsert(p, a) ==
    /\ p # Bot
    /\ queue[p] = <<>>
    /\ admin < MaxAdmin
    /\ issued < MaxPairs
    /\ admin' = admin + 1
    /\ issued' = issued + 1
    /\ fresh' = [fresh EXCEPT ![issued + 1] = 2]
    /\ Chain(p, [does |-> "upsert", account |-> a, pair |-> issued + 1, flag |-> TRUE,
                 by |-> NoCaller])
    /\ UNCHANGED <<lockVars, pool, spent, lost, job, call, faults>>

Remove(p, a) ==
    /\ p # Bot
    /\ queue[p] = <<>>
    /\ admin < MaxAdmin
    /\ admin' = admin + 1
    /\ Chain(p, [does |-> "remove", account |-> a, pair |-> NoPair, flag |-> FALSE,
                 by |-> NoCaller])
    /\ UNCHANGED <<lockVars, pool, provider, job, call, faults>>

----
(* The job at the lock. *)

MyJob(p) == Head(queue[p])

\* Getting the lock.
Acquire(p) ==
    /\ queue[p] # <<>>
    /\ MakeDir(p) \/ WriteOwner(p) \/ OwnerTaken(p) \/ SeeStale(p) \/ Reclaim(p)
    /\ UNCHANGED <<pool, provider, queue, job, call, bounds>>

\* Fault: the pair is not compared.
StillStoredAtAll(j) == IsStored(j.account)
\* _markAuthFailedIfCurrent: the account still has the pair that failed.
StillRefused(j) == IsStored(j.account) /\ pool[j.account].pair = j.pair

\* The pool after a job that needs nothing but the pool.
Edited(j) ==
    CASE j.does = "upsert" -> [pool EXCEPT ![j.account] = [pair |-> j.pair, ok |-> TRUE]]
      [] j.does = "remove" -> [pool EXCEPT ![j.account] = [pair |-> NoPair, ok |-> TRUE]]
      [] j.does = "mark" /\ IsStored(j.account) -> [pool EXCEPT ![j.account].ok = j.flag]
      [] j.does = "blame" /\ StillRefused(j) -> [pool EXCEPT ![j.account].ok = FALSE]
      [] OTHER -> pool

\* The token under the lock is not the one that was to be refreshed and is
\* good, or it needs no refresh: it is the answer.
IsAnswer(n, j) ==
    \/ n # j.pair /\ HasRequiredLifetime(n)
    \/ ~j.flag /\ ~NeedsRefresh(n)

\* The pool is read.  A refresh presents its token within the same step.
Read(p) ==
    LET j == MyJob(p)
        n == pool[j.account].pair
    IN  /\ at[p] = "in"
        /\ stage[p] = "start"
        /\ IF j.does # "refresh"
           THEN /\ buf' = [buf EXCEPT ![p] = Edited(j)]
                /\ stage' = [stage EXCEPT ![p] = "write"]
                /\ tried' = tried
           ELSE /\ buf' = [buf EXCEPT ![p] = pool]
                /\ stage' = [stage EXCEPT ![p] = IF n = NoPair THEN "failed"
                                                 ELSE IF IsAnswer(n, j) THEN "write" ELSE "asking"]
                /\ tried' = [tried EXCEPT ![p] = IF n = NoPair \/ IsAnswer(n, j) THEN NoPair
                                                 ELSE n]
        /\ UNCHANGED <<lockVars, pool, provider, queue, call, bounds>>

\* The token endpoint accepts a refresh token once.
Exchange(n) ==
    /\ n \notin spent
    /\ issued < MaxPairs
    /\ issued' = issued + 1
    /\ fresh' = [fresh EXCEPT ![issued + 1] = 2]
    /\ spent' = spent \cup {n}

\* Its answer is the new pair ...
Accepted(p) ==
    /\ stage[p] = "asking"
    /\ Exchange(tried[p])
    /\ buf' = [buf EXCEPT ![p][MyJob(p).account] = [pair |-> issued + 1, ok |-> TRUE]]
    /\ stage' = [stage EXCEPT ![p] = "write"]
    /\ UNCHANGED <<lockVars, pool, lost, queue, tried, call, bounds>>

\* ... or never comes: TOKEN_TIMEOUT_MS, or an answer that cannot be read.
AnswerLost(p) ==
    /\ stage[p] = "asking"
    /\ Exchange(tried[p])
    /\ lost' = lost \cup {tried[p]}
    /\ stage' = [stage EXCEPT ![p] = "failed"]
    /\ UNCHANGED <<lockVars, pool, queue, buf, tried, call, bounds>>

\* The endpoint refuses, or cannot be reached.
Refused(p) ==
    /\ stage[p] = "asking"
    /\ stage' = [stage EXCEPT ![p] = "failed"]
    /\ UNCHANGED <<lockVars, pool, provider, queue, buf, tried, call, bounds>>

\* The file is replaced by a rename.
Write(p) ==
    /\ stage[p] = "write"
    /\ pool' = buf[p]
    /\ stage' = [stage EXCEPT ![p] = "stored"]
    /\ UNCHANGED <<lockVars, provider, queue, buf, tried, call, bounds>>

\* What was exchanged and is not on disk.
Unsaved(p) == IF stage[p] = "write" /\ tried[p] # NoPair THEN {tried[p]} ELSE {}

\* The file cannot be written: the error names no pair.
WriteFails(p) ==
    /\ stage[p] = "write"
    /\ lost' = lost \cup Unsaved(p)
    /\ stage' = [stage EXCEPT ![p] = "failed"]
    /\ tried' = [tried EXCEPT ![p] = NoPair]
    /\ UNCHANGED <<lockVars, pool, issued, fresh, spent, queue, buf, call, bounds>>

\* Fault: only the request that began a refresh hears of it.
AwaitsOwn(c, j) == c = j.by /\ j.does = "refresh"
\* Every request that needs the account awaits the same promise.
AwaitsRefresh(c, j) ==
    j.does = "refresh" /\ call[c].at = "refreshing" /\ call[c].account = j.account

\* How the requests that wait for the job of the bot go on.  A failed mark is
\* only logged; a failed blame ends its request.
Resumed(j, won) ==
    [c \in Callers |->
        IF AwaitsRefresh(c, j)
        THEN IF won THEN NoCall
             ELSE [call[c] EXCEPT !.at = "refused", !.named = tried[Bot]]
        ELSE IF c = j.by /\ j.does = "blame" /\ won THEN [call[c] EXCEPT !.at = "blamed"]
        ELSE IF c = j.by /\ j.does # "refresh" THEN NoCall
        ELSE call[c]]

\* The job is over and the next one of the chain begins.
Settle(p, won) ==
    /\ call' = IF p = Bot THEN Resumed(MyJob(p), won) ELSE call
    /\ queue' = [queue EXCEPT ![p] = Tail(@)]
    /\ stage' = [stage EXCEPT ![p] = "start"]
    /\ buf' = [buf EXCEPT ![p] = EmptyPool]
    /\ tried' = [tried EXCEPT ![p] = NoPair]
    /\ UNCHANGED <<pool, provider>>

\* No lock, no change.
NoLockForJob(p) ==
    /\ queue[p] # <<>>
    /\ GiveUp(p) \/ OwnerThrows(p)
    /\ Settle(p, FALSE)
    /\ UNCHANGED bounds

\* The finally block of _withFileLock.
BeginRelease(p) ==
    /\ stage[p] \in {"stored", "failed"}
    /\ Leave(p)
    /\ UNCHANGED <<pool, provider, queue, job, call, bounds>>

Release(p) ==
    /\ stage[p] \in {"stored", "failed"}
    /\ \/ /\ RemoveDir(p) \/ LeaveLost(p)
          /\ UNCHANGED faults
       \/ /\ RemoveFails(p)
          /\ faults < MaxFaults
          /\ faults' = faults + 1
    /\ Settle(p, stage[p] = "stored")
    /\ UNCHANGED admin

----
\* A process dies; the bot is started again and knows only the file.  A
\* request it had sent may still be accepted.
Crash(p) ==
    /\ faults < MaxFaults
    /\ faults' = faults + 1
    /\ Dies(p)
    /\ \/ /\ stage[p] = "asking"
          /\ Exchange(tried[p])
          /\ lost' = lost \cup {tried[p]}
       \/ /\ lost' = lost \cup Unsaved(p)
          /\ UNCHANGED <<issued, fresh, spent>>
    /\ queue' = [queue EXCEPT ![p] = <<>>]
    /\ stage' = [stage EXCEPT ![p] = "start"]
    /\ buf' = [buf EXCEPT ![p] = EmptyPool]
    /\ tried' = [tried EXCEPT ![p] = NoPair]
    /\ call' = IF p = Bot THEN [c \in Callers |-> NoCall] ELSE call
    /\ UNCHANGED <<pool, admin>>

Age(n) ==
    /\ n <= issued
    /\ fresh[n] > 0
    /\ fresh' = [fresh EXCEPT ![n] = @ - 1]
    /\ UNCHANGED <<lockVars, pool, issued, spent, lost, queue, job, call, bounds>>

LockAges ==
    /\ GoStale
    /\ UNCHANGED <<pool, provider, queue, job, call, bounds>>

JobStep(p) ==
    \/ Acquire(p) \/ NoLockForJob(p)
    \/ Read(p)
    \/ Accepted(p) \/ AnswerLost(p) \/ Refused(p)
    \/ Write(p) \/ WriteFails(p)
    \/ BeginRelease(p) \/ Release(p)

Continue(c) == AfterRefused(c) \/ Rotate(c)

Next ==
    \/ \E c \in Callers : Get(c) \/ Continue(c)
    \/ \E c \in Callers, a \in Accounts : Refresh(c, a)
    \/ \E c \in Callers, a \in Accounts, flag \in BOOLEAN : MarkStatus(c, a, flag)
    \/ \E p \in Procs, a \in Accounts : Upsert(p, a) \/ Remove(p, a)
    \/ \E p \in Procs : JobStep(p) \/ Crash(p)
    \/ \E n \in Pairs : Age(n)
    \/ LockAges

Spec == Init /\ [][Next]_vars

\* Jobs and requests go on by themselves: every await ends (timers, timeouts).
FairSpec ==
    /\ Spec
    /\ \A p \in Procs : WF_vars(JobStep(p))
    /\ \A c \in Callers : WF_vars(Continue(c))

----
(* Properties. *)

\* What a process is about to write is the pool as it is, with its own change.
UpToDate(p) ==
    LET j == MyJob(p) IN
    buf[p] = IF j.does = "refresh" THEN [pool EXCEPT ![j.account] = buf[p][j.account]]
             ELSE Edited(j)

\* As long as no process has moved away a lock that was not stale, a change of
\* the pool undoes no other, be it a rotation, a login or a status, however
\* the jobs of the bot and of the CLI interleave, die, leave locks behind and
\* reclaim them.
NothingClobbered == ~misfired => \A p \in Procs : stage[p] = "write" => UpToDate(p)

\* The header of credentialStore.js (12-14): all read-modify-writes hold both
\* locks, "so neither process can clobber a rotation".
NeitherClobbers == \A p \in Procs : stage[p] = "write" => UpToDate(p)

\* The refresh token on disk can still be used: when it was spent its
\* successor is about to be written by the process that has it, unless the
\* answer, the write or the process was lost in between.
StoreIsCurrent ==
    ~misfired => \A a \in Accounts : pool[a].pair \in spent \ lost =>
        \E p \in Procs : stage[p] = "write" /\ MyJob(p).account = a /\ tried[p] = pool[a].pair

\* A failed refresh marks only the pair that failed: not an account that was
\* logged in again or rotated while the mark waited for the store.
OnlyRefusedMarked ==
    [][\A p \in Procs :
          ~misfired /\ stage[p] = "write" /\ stage'[p] = "stored" /\ MyJob(p).does = "blame"
              => \A a \in Accounts : pool[a].pair # MyJob(p).pair => pool'[a] = pool[a]]_vars

\* The job of the bot that request c waits for.
AwaitedBy(c, j) ==
    \/ call[c].at = "refreshing" /\ j.does = "refresh" /\ j.account = call[c].account
    \/ call[c].at = "blaming" /\ j.does = "blame" /\ j.by = c
    \/ call[c].at = "marking" /\ j.does = "mark" /\ j.by = c

\* "Concurrent callers share the single in-flight exchange": an account never
\* has two refreshes in the chain, and whoever waits, for a refresh it began,
\* one it joined or a mark of its own, waits for a job that is still there,
\* through failed locks, lost answers and restarts of the bot.
NobodyForgotten ==
    /\ \A c \in Callers : call[c].at \in {"refreshing", "blaming", "marking"} =>
          \E i \in DOMAIN queue[Bot] : AwaitedBy(c, queue[Bot][i])
    /\ \A a \in Accounts : \A i, k \in DOMAIN queue[Bot] :
          /\ queue[Bot][i].does = "refresh" /\ queue[Bot][i].account = a
          /\ queue[Bot][k].does = "refresh" /\ queue[Bot][k].account = a
          => i = k

\* Every request gets a credential or an error, although the store may be
\* locked by a dead process and every account may fail.
CallEnds == \A c \in Callers : call[c].at # "idle" ~> call[c].at = "idle"
====
