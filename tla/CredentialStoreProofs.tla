---- MODULE CredentialStoreProofs ----
(***************************************************************************)
(* Theorems about CredentialStore for any number of processes, accounts,   *)
(* requests, token pairs, crashes and locks left behind.                   *)
(***************************************************************************)
EXTENDS CredentialStore, SequenceTheorems, TLAPS

\* A process past the first mkdir has a job, one that has read the pool holds
\* the lock, and one that waits for the token endpoint has presented a pair.
Busy ==
    \A p \in Procs :
        /\ at[p] # "out" => queue[p] # <<>>
        /\ stage[p] # "start" => at[p] \in {"in", "leaving"}
        /\ at[p] = "leaving" => stage[p] \in {"stored", "failed"}
        /\ stage[p] = "asking" => tried[p] # NoPair

Typed == TypeOK /\ Busy

----
(* What the actions do to the queues. *)

LEMMA HeadKept ==
    ASSUME NEW S, NEW s \in Seq(S), NEW j \in S
    PROVE  /\ Append(s, j) \in Seq(S)
           /\ Append(s, j) # <<>>
           /\ s # <<>> => Head(Append(s, j)) = Head(s)
    BY AppendProperties, HeadTailAppend

\* An action of a request changes what it waits for and may chain a job.
LEMMA RequestTyped ==
    ASSUME TypeOK, NEW c \in Callers, NEW a \in Accounts, NEW flag \in BOOLEAN,
           Get(c) \/ Refresh(c, a) \/ Continue(c) \/ MarkStatus(c, a, flag)
    PROVE  /\ call' \in [Callers -> Calls]
           /\ \/ queue' = queue
              \/ \E j \in Jobs : j.does # "upsert" /\ queue' = [queue EXCEPT ![Bot] = Append(@, j)]
           /\ UNCHANGED <<lockVars, pool, provider, job, bounds>>
<1> USE StoreConstants
<1>1. Listed \subseteq Entries
    BY DEF Listed, Entry, Entries, IsStored, TypeOK, Pools
<1>2. NoCall \in Calls
    BY DEF NoCall, Calls, Accounts
<1>3. ASSUME NEW op \in {"get", "refresh", "rotate"}, NEW r \in Entries,
             NEW todo \in SUBSET Entries, RefreshAccount(c, op, r, todo)
      PROVE  /\ call' \in [Callers -> Calls]
             /\ \/ queue' = queue
                \/ \E j \in Jobs : j.does # "upsert" /\ queue' = [queue EXCEPT ![Bot] = Append(@, j)]
  <2> DEFINE j == [does |-> "refresh", account |-> r.account, pair |-> r.pair,
                   flag |-> op = "refresh", by |-> c]
  <2>1. r.account \in Accounts /\ r.pair \in Pairs
      BY DEF Entries
  <2>2. call' \in [Callers -> Calls]
      BY <1>3, <2>1 DEF RefreshAccount, Calls, TypeOK
  <2>3. j \in Jobs /\ j.does # "upsert"
      BY <2>1 DEF Jobs
  <2>4. queue' = queue \/ queue' = [queue EXCEPT ![Bot] = Append(@, j)]
      BY <1>3 DEF RefreshAccount, Chain
  <2> QED BY <2>2, <2>3, <2>4
<1>4. CASE Get(c)
    BY <1>1, <1>3, <1>4 DEF Get
<1>5. CASE Refresh(c, a)
    BY <1>1, <1>3, <1>5 DEF Refresh
<1>6. CASE AfterRefused(c)
  <2>1. UNCHANGED <<lockVars, pool, provider, job, bounds>>
      BY <1>6 DEF AfterRefused
  <2>2. CASE Return(c) /\ queue' = queue
      BY <1>2, <2>1, <2>2 DEF Return, TypeOK
  <2>3. CASE ~(Return(c) /\ queue' = queue)
    <3> DEFINE j == [does |-> "blame", account |-> call[c].account, flag |-> FALSE, by |-> c,
                     pair |-> IF call[c].named # NoPair THEN call[c].named ELSE call[c].pair]
    <3>1. /\ call' = [call EXCEPT ![c].at = "blaming"]
          /\ queue' = [queue EXCEPT ![Bot] = Append(@, j)]
        BY <1>6, <2>3 DEF AfterRefused, Chain
    <3>2. call[c] \in Calls
        BY DEF TypeOK
    <3>3. call' \in [Callers -> Calls]
        BY <3>1, <3>2 DEF TypeOK, Calls
    <3>4. j \in Jobs /\ j.does # "upsert"
        BY <3>2 DEF Jobs, Calls
    <3> QED BY <2>1, <3>1, <3>3, <3>4
  <2> QED BY <2>2, <2>3
<1>7. CASE Rotate(c)
  <2> DEFINE candidates == IF call[c].op = "rotate" THEN call[c].todo
                           ELSE {r \in Listed : r.account # call[c].account}
  <2>1. candidates \in SUBSET Entries
      BY <1>1 DEF TypeOK, Calls
  <2>2. UNCHANGED <<lockVars, pool, provider, job, bounds>>
      BY <1>7 DEF Rotate
  <2>3. CASE Return(c) /\ queue' = queue
      BY <1>2, <2>2, <2>3 DEF Return, TypeOK
  <2>4. CASE ~(Return(c) /\ queue' = queue)
    <3>1. PICK r \in candidates : RefreshAccount(c, "rotate", r, candidates \ {r})
        BY <1>7, <2>4 DEF Rotate
    <3>2. r \in Entries /\ candidates \ {r} \in SUBSET Entries
        BY <2>1
    <3> HIDE DEF candidates
    <3> QED BY <1>3, <2>2, <3>1, <3>2
  <2> QED BY <2>3, <2>4
<1>8. CASE MarkStatus(c, a, flag)
  <2> DEFINE j == [does |-> "mark", account |-> a, pair |-> NoPair, flag |-> flag, by |-> c]
  <2>1. call' = [call EXCEPT ![c] = [NoCall EXCEPT !.at = "marking"]]
        /\ queue' = [queue EXCEPT ![Bot] = Append(@, j)]
        /\ UNCHANGED <<lockVars, pool, provider, job, bounds>>
      BY <1>8 DEF MarkStatus, Chain
  <2>2. [NoCall EXCEPT !.at = "marking"] \in Calls
      BY <1>2 DEF Calls
  <2>3. j \in Jobs /\ j.does # "upsert"
      BY DEF Jobs
  <2> QED BY <2>1, <2>2, <2>3 DEF TypeOK
<1> QED BY <1>4, <1>5, <1>6, <1>7, <1>8 DEF Continue

\* What the lock's own steps do to its types.
LEMMA LockSteps ==
    ASSUME LockTypeOK, NEW p \in Procs,
           \/ MakeDir(p) \/ WriteOwner(p) \/ OwnerTaken(p) \/ SeeStale(p) \/ Reclaim(p)
           \/ GiveUp(p) \/ OwnerThrows(p) \/ Leave(p)
           \/ RemoveDir(p) \/ RemoveFails(p) \/ LeaveLost(p) \/ Dies(p)
    PROVE  LockTypeOK'
<1>1. NoLock \in [there : BOOLEAN, nonce : Procs \cup {NoOne, Ghost}, old : BOOLEAN]
      /\ NewLock \in [there : BOOLEAN, nonce : Procs \cup {NoOne, Ghost}, old : BOOLEAN]
    BY DEF NoLock, NewLock
<1>2. Deserted(p) \in [there : BOOLEAN, nonce : Procs \cup {NoOne, Ghost}, old : BOOLEAN]
    BY DEF LockTypeOK, Deserted
<1>3. CASE MakeDir(p) \/ OwnerTaken(p) \/ OwnerThrows(p) \/ RemoveDir(p)
    BY <1>1, <1>3 DEF MakeDir, OwnerTaken, OwnerThrows, RemoveDir, MovesTo, LockTypeOK, Places
<1>4. CASE Reclaim(p)
    BY <1>1, <1>4 DEF Reclaim, MovesTo, LockTypeOK, Places
<1>5. CASE RemoveFails(p) \/ Dies(p)
    BY <1>2, <1>5 DEF RemoveFails, Dies, MovesTo, LockTypeOK, Places
<1>6. CASE WriteOwner(p)
    BY <1>6 DEF WriteOwner, MovesTo, LockTypeOK, Places
<1>7. CASE SeeStale(p) \/ Leave(p) \/ LeaveLost(p) \/ GiveUp(p)
    BY <1>7 DEF SeeStale, Leave, LeaveLost, GiveUp, lockVars, MovesTo, LockTypeOK, Places
<1> QED BY <1>3, <1>4, <1>5, <1>6, <1>7

LEMMA HeadTyped ==
    ASSUME TypeOK, NEW p \in Procs, queue[p] # <<>>
    PROVE  MyJob(p) \in Jobs /\ Tail(queue[p]) \in Seq(Jobs)
    BY HeadTailProperties DEF TypeOK, MyJob

LEMMA NothingTyped == StoreConstants => NoCall \in Calls /\ EmptyPool \in Pools
    BY DEF NoCall, Calls, Accounts, EmptyPool, Pools, StoreConstants

LEMMA ExchangeTyped ==
    ASSUME TypeOK, NEW n \in Pairs, Exchange(n)
    PROVE  /\ issued' \in 0 .. MaxPairs
           /\ issued' = issued + 1 /\ issued' \in Pairs
           /\ fresh' \in [Pairs -> 0 .. 2]
           /\ spent' = spent \cup {n} /\ spent' \subseteq Pairs
<1>1. issued + 1 \in Pairs /\ issued + 1 \in 0 .. MaxPairs
    BY StoreConstants DEF TypeOK, Exchange, Pairs
<1> QED BY <1>1 DEF TypeOK, Exchange

\* The end of a job.
LEMMA SettleTyped ==
    ASSUME TypeOK, NEW p \in Procs, queue[p] # <<>>, NEW won \in BOOLEAN, Settle(p, won)
    PROVE  /\ call' \in [Callers -> Calls]
           /\ queue' = [queue EXCEPT ![p] = Tail(@)] /\ queue' \in [Procs -> Seq(Jobs)]
           /\ stage' = [stage EXCEPT ![p] = "start"]
           /\ buf' \in [Procs -> Pools]
           /\ tried' \in [Procs -> Pairs \cup {NoPair}]
           /\ UNCHANGED <<pool, provider>>
<1> USE StoreConstants
<1>1. call' \in [Callers -> Calls]
  <2>1. Resumed(MyJob(p), won) \in [Callers -> Calls]
    <3>1. ASSUME NEW c \in Callers
          PROVE  [call[c] EXCEPT !.at = "refused", !.named = tried[Bot]] \in Calls
                 /\ [call[c] EXCEPT !.at = "blamed"] \in Calls
        BY DEF TypeOK, Calls
    <3> QED BY <3>1, NothingTyped DEF Resumed, TypeOK
  <2> QED BY <2>1 DEF Settle, TypeOK
<1>2. queue' \in [Procs -> Seq(Jobs)]
    BY HeadTyped DEF Settle, TypeOK
<1>3. buf' \in [Procs -> Pools] /\ tried' \in [Procs -> Pairs \cup {NoPair}]
    BY NothingTyped DEF Settle, TypeOK
<1> QED BY <1>1, <1>2, <1>3 DEF Settle

\* What chaining a job does to the queues.
LEMMA ChainKeeps ==
    ASSUME queue \in [Procs -> Seq(Jobs)], NEW q \in Procs, NEW j \in Jobs,
           queue' = [queue EXCEPT ![q] = Append(@, j)]
    PROVE  /\ queue' \in [Procs -> Seq(Jobs)]
           /\ \A p \in Procs : queue[p] # <<>> =>
                 queue'[p] # <<>> /\ Head(queue'[p]) = Head(queue[p])
           /\ queue[q] = <<>> => queue'[q] # <<>> /\ Head(queue'[q]) = j
<1>1. /\ queue'[q] = Append(queue[q], j) /\ queue'[q] \in Seq(Jobs) /\ queue'[q] # <<>>
      /\ queue[q] # <<>> => Head(queue'[q]) = Head(queue[q])
    BY HeadKept
<1>2. queue[q] = <<>> => Head(queue'[q]) = j
    BY <1>1
<1> QED BY <1>1, <1>2

LEMMA TypedInit == Init => Typed
<1> SUFFICES ASSUME Init PROVE Typed
    OBVIOUS
<1> USE StoreConstants
<1>1. LockTypeOK
    BY DEF Init, LockInit, LockTypeOK, NoLock, Places
<1>2. pool \in Pools /\ issued \in 0 .. MaxPairs
    BY DEF Init, Pools, Accounts, Pairs
<1>3. Busy
    BY DEF Init, LockInit, Busy
<1>4. /\ queue \in [Procs -> Seq(Jobs)]
      /\ buf \in [Procs -> Pools] /\ call \in [Callers -> Calls]
    BY NothingTyped DEF Init
<1>5. fresh \in [Pairs -> 0 .. 2] /\ spent = {} /\ lost = {} /\ admin = 0 /\ faults = 0
      /\ stage = [p \in Procs |-> "start"] /\ tried = [p \in Procs |-> NoPair]
    BY DEF Init
<1> QED BY <1>1, <1>2, <1>3, <1>4, <1>5 DEF Typed, TypeOK

LEMMA TypedStep == Typed /\ [Next]_vars => Typed'
<1> SUFFICES ASSUME Typed, [Next]_vars PROVE Typed'
    OBVIOUS
<1> USE StoreConstants
<1>0. TypeOK /\ Busy /\ LockTypeOK
    BY DEF Typed, TypeOK
<1>1. ASSUME NEW c \in Callers, NEW a \in Accounts, NEW flag \in BOOLEAN,
             Get(c) \/ Refresh(c, a) \/ Continue(c) \/ MarkStatus(c, a, flag)
      PROVE  Typed'
  <2>1. /\ call' \in [Callers -> Calls]
        /\ UNCHANGED <<lockVars, pool, provider, job, bounds>>
      BY <1>0, <1>1, RequestTyped
  <2>2. /\ queue' \in [Procs -> Seq(Jobs)]
        /\ \A p \in Procs : queue[p] # <<>> => queue'[p] # <<>>
    <3>1. CASE queue' = queue
        BY <1>0, <3>1 DEF TypeOK
    <3>2. ASSUME NEW j \in Jobs, queue' = [queue EXCEPT ![Bot] = Append(@, j)]
          PROVE  /\ queue' \in [Procs -> Seq(Jobs)]
                 /\ \A p \in Procs : queue[p] # <<>> => queue'[p] # <<>>
        BY <1>0, <3>2, ChainKeeps DEF TypeOK
    <3> QED BY <1>0, <1>1, <3>1, <3>2, RequestTyped
  <2> QED BY <1>0, <2>1, <2>2 DEF Typed, TypeOK, LockTypeOK, Busy, lockVars, provider, job, bounds
<1>2. ASSUME NEW p \in Procs, NEW a \in Accounts, Upsert(p, a) \/ Remove(p, a)
      PROVE  Typed'
  <2>1. (issued + 1 \in Pairs /\ issued + 1 \in 0 .. MaxPairs) \/ Remove(p, a)
      BY <1>0, <1>2 DEF Upsert, TypeOK, Pairs
  <2>2. PICK j \in Jobs : queue' = [queue EXCEPT ![p] = Append(@, j)]
      BY <1>2, <2>1 DEF Upsert, Remove, Chain, Jobs
  <2>3. /\ queue' \in [Procs -> Seq(Jobs)]
        /\ \A q \in Procs : queue[q] # <<>> => queue'[q] # <<>>
      BY <1>0, <2>2, ChainKeeps DEF TypeOK
  <2>4. issued' \in 0 .. MaxPairs /\ fresh' \in [Pairs -> 0 .. 2]
    <3>1. CASE Upsert(p, a)
        BY <1>0, <2>1, <3>1 DEF Upsert, TypeOK, Pairs
    <3>2. CASE Remove(p, a)
        BY <1>0, <3>2 DEF Remove, TypeOK, provider
    <3> QED BY <1>2, <3>1, <3>2
  <2>6. admin' \in 0 .. MaxAdmin
    <3>1. admin \in 0 .. MaxAdmin /\ admin < MaxAdmin /\ admin' = admin + 1
        BY <1>0, <1>2 DEF Upsert, Remove, TypeOK
    <3> QED BY <3>1
  <2>5. UNCHANGED <<lockVars, pool, spent, lost, job, call, faults>>
      BY <1>2 DEF Upsert, Remove, provider
  <2> QED BY <1>0, <2>3, <2>4, <2>5, <2>6 DEF Typed, TypeOK, LockTypeOK, Busy, lockVars, job
<1>3. ASSUME NEW p \in Procs, Acquire(p) PROVE Typed'
  <2>1. LockTypeOK'
      BY <1>0, <1>3, LockSteps DEF Acquire
  <2>2. Busy'
      BY <1>0, <1>3 DEF Acquire, MakeDir, WriteOwner, OwnerTaken, SeeStale, Reclaim, MovesTo,
                        Busy, job, LockTypeOK
  <2> QED BY <1>0, <1>3, <2>1, <2>2 DEF Typed, TypeOK, Acquire, provider, job, bounds
<1>4. ASSUME NEW p \in Procs, NoLockForJob(p) \/ Release(p) PROVE Typed'
  <2>1. LockTypeOK'
      BY <1>0, <1>4, LockSteps DEF NoLockForJob, Release
  <2>2. at' = [at EXCEPT ![p] = "out"]
      BY <1>0, <1>4 DEF NoLockForJob, Release, GiveUp, OwnerThrows, RemoveDir, LeaveLost,
                        RemoveFails, MovesTo, lockVars, LockTypeOK
  <2>3. PICK won \in BOOLEAN : Settle(p, won)
      BY <1>4 DEF NoLockForJob, Release
  <2>4. queue[p] # <<>>
      BY <1>0, <1>4 DEF NoLockForJob, Release, Busy
  <2>5. /\ call' \in [Callers -> Calls]
        /\ queue' = [queue EXCEPT ![p] = Tail(@)] /\ queue' \in [Procs -> Seq(Jobs)]
        /\ stage' = [stage EXCEPT ![p] = "start"]
        /\ buf' \in [Procs -> Pools]
        /\ tried' \in [Procs -> Pairs \cup {NoPair}]
        /\ UNCHANGED <<pool, provider>>
      BY <1>0, <2>3, <2>4, SettleTyped
  <2>6. admin' = admin /\ faults' \in 0 .. MaxFaults
    <3>1. /\ admin' = admin /\ faults \in 0 .. MaxFaults
          /\ faults' = faults \/ (faults < MaxFaults /\ faults' = faults + 1)
        BY <1>0, <1>4 DEF NoLockForJob, Release, bounds, TypeOK
    <3> QED BY <3>1
  <2>7. tried' = [tried EXCEPT ![p] = NoPair]
      BY <2>3 DEF Settle
  <2>8. Busy'
      BY <1>0, <2>2, <2>5, <2>7 DEF Busy, TypeOK, LockTypeOK
  <2> QED BY <1>0, <2>1, <2>5, <2>6, <2>8 DEF Typed, TypeOK, provider
<1>5. ASSUME NEW p \in Procs, Read(p) PROVE Typed'
  <2>1. queue[p] # <<>> /\ MyJob(p) \in Jobs
      BY <1>0, <1>5, HeadTyped DEF Read, Busy
  <2>2. Edited(MyJob(p)) \in Pools
    <3> DEFINE j == MyJob(p)
    <3>1. j \in Jobs /\ pool \in Pools
        BY <1>0, <2>1 DEF TypeOK
    <3> HIDE DEF j
    <3>2. /\ [pool EXCEPT ![j.account] = [pair |-> j.pair, ok |-> TRUE]] \in Pools
          /\ [pool EXCEPT ![j.account] = [pair |-> NoPair, ok |-> TRUE]] \in Pools
        BY <3>1 DEF Pools, Jobs
    <3>3. pool[j.account] \in [pair : Pairs \cup {NoPair}, ok : BOOLEAN] /\ j.flag \in BOOLEAN
        BY <3>1 DEF Pools, Jobs
    <3>4. /\ [pool EXCEPT ![j.account].ok = j.flag] \in Pools
          /\ [pool EXCEPT ![j.account].ok = FALSE] \in Pools
        BY <3>1, <3>3 DEF Pools
    <3>5. Edited(j) \in Pools
        BY <3>1, <3>2, <3>4 DEF Edited
    <3> QED BY <3>5 DEF j
  <2>3. pool[MyJob(p).account].pair \in Pairs \cup {NoPair}
      BY <1>0, <2>1 DEF Jobs, TypeOK, Pools
  <2>4. buf' \in [Procs -> Pools]
      BY <1>0, <1>5, <2>2 DEF Read, TypeOK
  <2>5. tried' \in [Procs -> Pairs \cup {NoPair}]
      BY <1>0, <1>5, <2>3 DEF Read, TypeOK
  <2>6. /\ stage' \in [Procs -> {"start", "asking", "write", "stored", "failed"}]
        /\ stage'[p] = "asking" => tried'[p] # NoPair
        /\ \A q \in Procs : q # p => stage'[q] = stage[q] /\ tried'[q] = tried[q]
      BY <1>0, <1>5, <2>3 DEF Read, TypeOK
  <2>7. at[p] = "in" /\ UNCHANGED <<lockVars, pool, provider, queue, call, bounds>>
      BY <1>5 DEF Read
  <2>8. Busy'
      BY <1>0, <2>1, <2>6, <2>7 DEF Busy, lockVars
  <2> QED BY <1>0, <2>4, <2>5, <2>6, <2>7, <2>8 DEF Typed, TypeOK, LockTypeOK, lockVars, provider, bounds
<1>6. ASSUME NEW p \in Procs, Accepted(p) \/ AnswerLost(p) \/ Refused(p) PROVE Typed'
  <2>1. stage[p] = "asking" /\ tried[p] \in Pairs /\ MyJob(p) \in Jobs /\ at[p] = "in"
      BY <1>0, <1>6, HeadTyped DEF Accepted, AnswerLost, Refused, Busy, TypeOK
  <2>2. /\ issued' \in 0 .. MaxPairs /\ fresh' \in [Pairs -> 0 .. 2]
        /\ spent' \subseteq Pairs /\ lost' \subseteq Pairs
        /\ Accepted(p) => issued + 1 \in Pairs
      BY <1>0, <1>6, <2>1, ExchangeTyped DEF Accepted, AnswerLost, Refused, provider, TypeOK
  <2>3. buf' \in [Procs -> Pools]
    <3>1. CASE Accepted(p)
      <4>1. [buf[p] EXCEPT ![MyJob(p).account] = [pair |-> issued + 1, ok |-> TRUE]] \in Pools
          BY <1>0, <2>1, <2>2, <3>1 DEF Pools, TypeOK, Jobs
      <4> QED BY <1>0, <3>1, <4>1 DEF Accepted, TypeOK
    <3>2. CASE ~Accepted(p)
        BY <1>0, <1>6, <3>2 DEF AnswerLost, Refused, TypeOK
    <3> QED BY <3>1, <3>2
  <2>4. /\ stage' = [stage EXCEPT ![p] = "write"] \/ stage' = [stage EXCEPT ![p] = "failed"]
        /\ UNCHANGED <<lockVars, pool, queue, tried, call, bounds>>
      BY <1>6 DEF Accepted, AnswerLost, Refused
  <2> QED BY <1>0, <2>1, <2>2, <2>3, <2>4 DEF Typed, TypeOK, LockTypeOK, Busy, lockVars, bounds
<1>7. ASSUME NEW p \in Procs, Write(p) \/ WriteFails(p) PROVE Typed'
  <2>1. stage[p] = "write" /\ at[p] = "in"
      BY <1>0, <1>7 DEF Write, WriteFails, Busy
  <2>2. pool' \in Pools /\ lost' \subseteq Pairs /\ tried' \in [Procs -> Pairs \cup {NoPair}]
      BY <1>0, <1>7 DEF Write, WriteFails, Unsaved, TypeOK, provider
  <2>3. stage' = [stage EXCEPT ![p] = "stored"] \/ stage' = [stage EXCEPT ![p] = "failed"]
      BY <1>7 DEF Write, WriteFails
  <2>4. UNCHANGED <<lockVars, issued, fresh, spent, queue, buf, call, bounds>>
      BY <1>7 DEF Write, WriteFails, provider
  <2>5. \A q \in Procs : q # p => tried'[q] = tried[q]
      BY <1>0, <1>7 DEF Write, WriteFails, TypeOK
  <2>6. Busy'
      BY <1>0, <2>1, <2>3, <2>4, <2>5 DEF Busy, lockVars, TypeOK
  <2> QED BY <1>0, <2>2, <2>3, <2>4, <2>6 DEF Typed, TypeOK, LockTypeOK, lockVars, bounds
<1>8. ASSUME NEW p \in Procs, BeginRelease(p) PROVE Typed'
  <2>1. LockTypeOK'
      BY <1>0, <1>8, LockSteps DEF BeginRelease
  <2>2. Busy'
      BY <1>0, <1>8 DEF BeginRelease, Leave, MovesTo, Busy, job, LockTypeOK
  <2> QED BY <1>0, <1>8, <2>1, <2>2 DEF Typed, TypeOK, BeginRelease, provider, job, bounds
<1>9. ASSUME NEW p \in Procs, Crash(p) PROVE Typed'
  <2>1. LockTypeOK' /\ at' = [at EXCEPT ![p] = "out"]
      BY <1>0, <1>9, LockSteps DEF Crash, Dies, MovesTo
  <2>2. stage[p] = "asking" => tried[p] \in Pairs
      BY <1>0 DEF Busy, TypeOK
  <2>3. /\ issued' \in 0 .. MaxPairs /\ fresh' \in [Pairs -> 0 .. 2]
        /\ spent' \subseteq Pairs /\ lost' \subseteq Pairs
    <3>1. CASE stage[p] = "asking" /\ Exchange(tried[p]) /\ lost' = lost \cup {tried[p]}
        BY <1>0, <2>2, <3>1, ExchangeTyped DEF TypeOK
    <3>2. CASE lost' = lost \cup Unsaved(p) /\ UNCHANGED <<issued, fresh, spent>>
        BY <1>0, <3>2 DEF Unsaved, TypeOK
    <3> QED BY <1>9, <3>1, <3>2 DEF Crash
  <2>4. /\ queue' \in [Procs -> Seq(Jobs)] /\ buf' \in [Procs -> Pools]
        /\ call' \in [Callers -> Calls]
      BY <1>0, <1>9, NothingTyped DEF Crash, TypeOK
  <2>5. /\ queue' = [queue EXCEPT ![p] = <<>>]
        /\ stage' = [stage EXCEPT ![p] = "start"] /\ tried' = [tried EXCEPT ![p] = NoPair]
        /\ UNCHANGED <<pool, admin>> /\ faults' \in 0 .. MaxFaults
      BY <1>0, <1>9 DEF Crash, TypeOK
  <2>6. Busy'
      BY <1>0, <2>1, <2>5 DEF Busy, TypeOK, LockTypeOK
  <2> QED BY <1>0, <2>1, <2>3, <2>4, <2>5, <2>6 DEF Typed, TypeOK
<1>10. ASSUME NEW n \in Pairs, Age(n) PROVE Typed'
  <2>1. fresh' \in [Pairs -> 0 .. 2]
      BY <1>0, <1>10 DEF Age, TypeOK
  <2> QED BY <1>0, <1>10, <2>1 DEF Typed, TypeOK, LockTypeOK, Busy, Age, lockVars, job, bounds
<1>11. CASE LockAges
    BY <1>0, <1>11 DEF Typed, TypeOK, LockTypeOK, Busy, LockAges, GoStale, provider, job, bounds
<1>12. CASE UNCHANGED vars
    BY <1>0, <1>12 DEF Typed, TypeOK, LockTypeOK, Busy, vars, lockVars, provider, job, bounds
<1>13. ASSUME NEW c \in Callers, Get(c) \/ Continue(c) PROVE Typed'
  <2>1. 1 \in Accounts /\ TRUE \in BOOLEAN
      BY DEF Accounts
  <2> QED BY <1>1, <1>13, <2>1
<1>14. ASSUME NEW c \in Callers, NEW a \in Accounts, Refresh(c, a) PROVE Typed'
  <2>1. TRUE \in BOOLEAN
      OBVIOUS
  <2> QED BY <1>1, <1>14, <2>1
<1> QED BY <1>1, <1>2, <1>3, <1>4, <1>5, <1>6, <1>7, <1>8, <1>9, <1>10, <1>11, <1>12, <1>13, <1>14
        DEF Next, JobStep

\* For any number of processes, accounts and requests every variable keeps its
\* type: no queue, pool or request of the provider reaches a shape the code
\* has no branch for.
THEOREM TypeCorrect == Spec => []TypeOK
<1>1. Init => Typed
    BY TypedInit
<1>2. Typed /\ [Next]_vars => Typed'
    BY TypedStep
<1>3. Typed => TypeOK
    BY DEF Typed
<1> QED BY <1>1, <1>2, <1>3, PTL DEF Spec

----
(* The inductive invariant. *)

\* While no lock was moved away wrongly, whoever is past mkdir has made the
\* directory that is there, and is alone.
Exclusive ==
    ~misfired =>
        /\ \A p \in Procs : at[p] = "made" => lock = NewLock
        /\ \A p \in Procs : at[p] \in {"in", "leaving"} =>
              lock = [there |-> TRUE, nonce |-> p, old |-> FALSE]
        /\ \A p, q \in Holding : p = q

\* What a job has read is still so: nobody else has written.
Current ==
    /\ \A p \in Procs :
          /\ stage[p] = "start" => tried[p] = NoPair
          /\ stage[p] = "write" /\ tried[p] # NoPair => MyJob(p).does = "refresh"
          /\ stage[p] = "asking" => MyJob(p).does = "refresh"
    /\ ~misfired =>
        \A p \in Procs :
            /\ stage[p] = "asking" =>
                  buf[p] = pool /\ tried[p] = pool[MyJob(p).account].pair
            /\ stage[p] = "write" => UpToDate(p)
            /\ stage[p] = "write" /\ MyJob(p).does = "refresh" /\ tried[p] = NoPair =>
                  buf[p] = pool

\* Pairs a process has obtained and not yet written.
Owes(p) ==
    {n \in Pairs :
        \/ /\ queue[p] # <<>> /\ stage[p] \in {"start", "write"}
           /\ MyJob(p).does = "upsert" /\ MyJob(p).pair = n
        \/ /\ stage[p] = "write" /\ tried[p] # NoPair
           /\ buf[p][MyJob(p).account].pair = n}

\* Only the first job of a process is an upsert.
UpsertFirst == \A p \in Procs : \A i \in 2 .. Len(queue[p]) : queue[p][i].does # "upsert"

\* Every pair is in one place: with one account, or owed by one process.
OnePlace ==
    ~misfired =>
        /\ spent \subseteq 1 .. issued
        /\ \A a \in Accounts : pool[a].pair <= issued
        /\ \A a, b \in Accounts : a # b /\ pool[a].pair = pool[b].pair => pool[a].pair = NoPair
        /\ \A p \in Procs : \A n \in Owes(p) :
              n <= issued /\ n \notin spent /\ \A a \in Accounts : pool[a].pair # n
        /\ \A p, q \in Procs : p # q => Owes(p) \cap Owes(q) = {}

StoreInv == Typed /\ Exclusive /\ Current /\ UpsertFirst /\ OnePlace /\ StoreIsCurrent

----
(* Groups of actions that do the same to the parts of the invariant. *)

\* A job that has begun is at the head of its queue, and alone at the lock.
LEMMA Begun ==
    ASSUME Busy, NEW p \in Procs, stage[p] # "start"
    PROVE  /\ queue[p] # <<>> /\ p \in Holding
           /\ Exclusive /\ ~misfired => \A q \in Procs : stage[q] # "start" => q = p
    BY DEF Busy, Holding, Exclusive

\* Nothing happens to the pool, the pairs or a job that is under way.
Quiet ==
    /\ UNCHANGED <<pool, issued, spent, lost, job>>
    /\ misfired => misfired'
    /\ \/ queue' = queue
       \/ \E q \in Procs, j \in Jobs :
             j.does # "upsert" /\ queue' = [queue EXCEPT ![q] = Append(@, j)]

LEMMA QuietHeads ==
    ASSUME Typed, Quiet
    PROVE  /\ \A p \in Procs : queue[p] # <<>> => queue'[p] # <<>> /\ MyJob(p)' = MyJob(p)
           /\ \A p \in Procs : queue[p] = <<>> /\ queue'[p] # <<>> => MyJob(p)'.does # "upsert"
<1>1. CASE queue' = queue
    BY <1>1 DEF MyJob
<1>2. ASSUME NEW q \in Procs, NEW j \in Jobs, j.does # "upsert",
             queue' = [queue EXCEPT ![q] = Append(@, j)]
      PROVE  /\ \A p \in Procs : queue[p] # <<>> => queue'[p] # <<>> /\ MyJob(p)' = MyJob(p)
             /\ \A p \in Procs : queue[p] = <<>> /\ queue'[p] # <<>> => MyJob(p)'.does # "upsert"
    BY <1>2, ChainKeeps DEF Typed, TypeOK, MyJob
<1> QED BY <1>1, <1>2 DEF Quiet

\* The first job of process p is over, or given up.
Ends(p) ==
    /\ UNCHANGED <<pool, misfired>>
    /\ queue' = [queue EXCEPT ![p] = <<>>] \/ (queue[p] # <<>> /\ queue' = [queue EXCEPT ![p] = Tail(@)])
    /\ stage' = [stage EXCEPT ![p] = "start"]
    /\ buf' = [buf EXCEPT ![p] = EmptyPool]
    /\ tried' = [tried EXCEPT ![p] = NoPair]
    /\ \/ UNCHANGED <<issued, spent>> /\ lost' = lost \cup Unsaved(p)
       \/ stage[p] = "asking" /\ Exchange(tried[p]) /\ lost' = lost \cup {tried[p]}

LEMMA QuietSteps ==
    ASSUME Typed, Next
    PROVE  \/ Quiet
           \/ \E p \in Procs, a \in Accounts : Upsert(p, a)
           \/ \E p \in Procs : Read(p) \/ Accepted(p) \/ AnswerLost(p) \/ Refused(p)
                               \/ Write(p) \/ WriteFails(p) \/ Ends(p)
<1> USE StoreConstants
<1>0. TypeOK /\ Busy
    BY DEF Typed
<1>1. ASSUME NEW c \in Callers, NEW a \in Accounts, NEW flag \in BOOLEAN,
             Get(c) \/ Refresh(c, a) \/ Continue(c) \/ MarkStatus(c, a, flag)
      PROVE  Quiet
  <2>1. UNCHANGED <<lockVars, pool, provider, job, bounds>>
      BY <1>0, <1>1, RequestTyped
  <2>2. \/ queue' = queue
        \/ \E j \in Jobs : j.does # "upsert" /\ queue' = [queue EXCEPT ![Bot] = Append(@, j)]
      BY <1>0, <1>1, RequestTyped
  <2> QED BY <2>1, <2>2 DEF Quiet, lockVars, provider
<1>2. ASSUME NEW p \in Procs, NEW a \in Accounts, Remove(p, a) PROVE Quiet
  <2> DEFINE j == [does |-> "remove", account |-> a, pair |-> NoPair, flag |-> FALSE,
                   by |-> NoCaller]
  <2>1. /\ queue' = [queue EXCEPT ![p] = Append(@, j)]
        /\ UNCHANGED <<lockVars, pool, provider, job, call, faults>>
      BY <1>2 DEF Remove, Chain
  <2>2. j \in Jobs /\ j.does # "upsert"
      BY DEF Jobs
  <2> HIDE DEF j
  <2> QED BY <2>1, <2>2 DEF Quiet, lockVars, provider
<1>3. ASSUME NEW p \in Procs, Acquire(p) \/ BeginRelease(p) PROVE Quiet
  <2>1. misfired => misfired'
      BY <1>3 DEF Acquire, BeginRelease, MakeDir, WriteOwner, OwnerTaken, SeeStale, Reclaim, Leave
  <2> QED BY <1>3, <2>1 DEF Acquire, BeginRelease, Quiet, provider
<1>4. ASSUME NEW p \in Procs, NoLockForJob(p) PROVE Ends(p)
  <2>1. stage[p] = "start" /\ UNCHANGED misfired
      BY <1>0, <1>4 DEF NoLockForJob, GiveUp, OwnerThrows, Busy, TypeOK, lockVars
  <2> QED BY <1>4, <2>1 DEF NoLockForJob, Settle, Ends, Unsaved, provider
<1>5. ASSUME NEW p \in Procs, Release(p) PROVE Ends(p)
  <2>1. stage[p] # "write" /\ queue[p] # <<>> /\ UNCHANGED misfired
      BY <1>0, <1>5 DEF Release, RemoveDir, LeaveLost, RemoveFails, Busy
  <2> QED BY <1>5, <2>1 DEF Release, Settle, Ends, Unsaved, provider
<1>6. ASSUME NEW p \in Procs, Crash(p) PROVE Ends(p)
    BY <1>6 DEF Crash, Dies, Ends
<1>7. ASSUME NEW n \in Pairs, Age(n) PROVE Quiet
    BY <1>7 DEF Age, Quiet, lockVars
<1>8. CASE LockAges
    BY <1>8 DEF LockAges, GoStale, Quiet, provider
<1>9. ASSUME NEW c \in Callers, Get(c) \/ Continue(c) PROVE Quiet
  <2>1. 1 \in Accounts /\ TRUE \in BOOLEAN
      BY DEF Accounts
  <2> QED BY <1>1, <1>9, <2>1
<1>10. ASSUME NEW c \in Callers, NEW a \in Accounts, Refresh(c, a) PROVE Quiet
  <2>1. TRUE \in BOOLEAN
      OBVIOUS
  <2> QED BY <1>1, <1>10, <2>1
<1> QED BY <1>1, <1>2, <1>3, <1>4, <1>5, <1>6, <1>7, <1>8, <1>9, <1>10 DEF Next, JobStep

----
(* The lock. *)

LEMMA ExclusiveInit == Init => Exclusive
    BY DEF Init, LockInit, Exclusive, Holding

LEMMA ExclusiveStep ==
    ASSUME Typed, Exclusive, [Next]_vars
    PROVE  Exclusive'
<1>0. TypeOK /\ LockTypeOK /\ Busy
    BY DEF Typed, TypeOK
<1> SUFFICES ASSUME ~misfired' PROVE Exclusive'
    BY DEF Exclusive
<1>1. CASE UNCHANGED lockVars
    BY <1>1 DEF Exclusive, Holding, lockVars
<1>2. ASSUME NEW p \in Procs, Acquire(p) PROVE Exclusive'
  <2>1. ~misfired
      BY <1>2 DEF Acquire, MakeDir, WriteOwner, OwnerTaken, SeeStale, Reclaim
  <2>2. CASE MakeDir(p)
      BY <1>0, <2>1, <2>2 DEF MakeDir, MovesTo, Exclusive, Holding, NewLock, LockTypeOK
  <2>3. CASE WriteOwner(p)
    <3>1. lock = NewLock /\ \A q \in Holding : q = p
        BY <2>1, <2>3 DEF WriteOwner, Exclusive, Holding
    <3>2. lock' = [there |-> TRUE, nonce |-> p, old |-> FALSE]
        BY <2>3, <3>1 DEF WriteOwner, NewLock
    <3>3. \A q \in Procs : at'[q] = IF q = p THEN "in" ELSE at[q]
        BY <1>0, <2>3 DEF WriteOwner, MovesTo, LockTypeOK
    <3> QED BY <3>1, <3>2, <3>3 DEF Exclusive, Holding
  <2>4. CASE OwnerTaken(p)
      BY <1>0, <2>1, <2>4 DEF OwnerTaken, Exclusive, NewLock
  <2>5. CASE SeeStale(p)
      BY <1>0, <2>1, <2>5 DEF SeeStale, MovesTo, Exclusive, Holding, LockTypeOK
  <2>6. CASE Reclaim(p)
      BY <1>0, <2>1, <2>6 DEF Reclaim, MovesTo, Exclusive, Holding, NewLock, LockTypeOK
  <2> QED BY <1>2, <2>2, <2>3, <2>4, <2>5, <2>6 DEF Acquire
<1>3. ASSUME NEW p \in Procs,
             OwnerThrows(p) \/ Leave(p) \/ LeaveLost(p) \/ RemoveDir(p)
      PROVE  Exclusive'
  <2>1. ~misfired
      BY <1>3 DEF OwnerThrows, Leave, LeaveLost, RemoveDir
  <2>2. CASE OwnerThrows(p) \/ RemoveDir(p)
      BY <1>0, <2>1, <2>2 DEF OwnerThrows, RemoveDir, MovesTo, Exclusive, Holding, LockTypeOK
  <2>3. CASE Leave(p)
      BY <1>0, <2>1, <2>3 DEF Leave, MovesTo, Exclusive, Holding, LockTypeOK
  <2>4. CASE LeaveLost(p)
      BY <1>0, <2>1, <2>4 DEF LeaveLost, MovesTo, Exclusive, Holding, LockTypeOK
  <2> QED BY <1>3, <2>2, <2>3, <2>4
<1>4. ASSUME NEW p \in Procs, RemoveFails(p) \/ Dies(p) PROVE Exclusive'
  <2>1. ~misfired /\ lock' = Deserted(p) /\ at' = [at EXCEPT ![p] = "out"]
      BY <1>4 DEF RemoveFails, Dies, MovesTo
  <2>2. \A q \in Holding : q # p => lock.nonce # p
      BY <2>1, LockNames DEF Exclusive, Holding, NewLock
  <2>3. \A q \in Holding : q # p => lock' = lock
      BY <1>0, <2>1, <2>2 DEF Deserted, LockTypeOK
  <2>4. Holding' = Holding \ {p}
      BY <1>0, <2>1 DEF Holding, LockTypeOK
  <2> QED BY <1>0, <2>1, <2>3, <2>4 DEF Exclusive, Holding, LockTypeOK
<1>5. CASE GoStale
    BY <1>0, <1>5 DEF GoStale, Exclusive, Holding
<1>6. ASSUME NEW c \in Callers, NEW a \in Accounts, NEW flag \in BOOLEAN, MarkStatus(c, a, flag)
      PROVE  Exclusive'
    BY <1>1, <1>6 DEF MarkStatus
<1>7. ASSUME NEW p \in Procs, NEW a \in Accounts, Upsert(p, a) \/ Remove(p, a)
      PROVE  Exclusive'
    BY <1>1, <1>7 DEF Upsert, Remove
<1>8. ASSUME NEW p \in Procs, JobStep(p) \/ Crash(p) PROVE Exclusive'
  <2>1. CASE Read(p) \/ Accepted(p) \/ AnswerLost(p) \/ Refused(p) \/ Write(p) \/ WriteFails(p)
      BY <1>1, <2>1 DEF Read, Accepted, AnswerLost, Refused, Write, WriteFails
  <2>2. CASE NoLockForJob(p)
      BY <1>1, <1>3, <2>2 DEF NoLockForJob, GiveUp
  <2>3. CASE BeginRelease(p)
      BY <1>3, <2>3 DEF BeginRelease
  <2>4. CASE Release(p)
      BY <1>3, <1>4, <2>4 DEF Release
  <2>5. CASE Crash(p)
      BY <1>4, <2>5 DEF Crash
  <2> QED BY <1>2, <1>8, <2>1, <2>2, <2>3, <2>4, <2>5 DEF JobStep
<1>9. ASSUME NEW n \in Pairs, Age(n) PROVE Exclusive'
    BY <1>1, <1>9 DEF Age
<1>10. CASE LockAges
    BY <1>5, <1>10 DEF LockAges
<1>11. CASE UNCHANGED vars
    BY <1>1, <1>11 DEF vars
<1>12. ASSUME NEW c \in Callers, Get(c) \/ Continue(c) PROVE Exclusive'
    BY <1>1, <1>12 DEF Get, Continue, AfterRefused, Rotate
<1>13. ASSUME NEW c \in Callers, NEW a \in Accounts, Refresh(c, a) PROVE Exclusive'
    BY <1>1, <1>13 DEF Refresh
<1> QED BY <1>6, <1>7, <1>8, <1>9, <1>10, <1>11, <1>12, <1>13 DEF Next

----
(* The queues. *)

LEMMA UpsertFirstInit == Init => UpsertFirst
    BY DEF Init, UpsertFirst

LEMMA UpsertFirstStep ==
    ASSUME Typed, UpsertFirst, [Next]_vars
    PROVE  UpsertFirst'
<1>0. TypeOK /\ Busy /\ queue \in [Procs -> Seq(Jobs)]
    BY DEF Typed, TypeOK
<1>1. CASE queue' = queue
    BY <1>1 DEF UpsertFirst
<1>2. ASSUME NEW q \in Procs, NEW j \in Jobs, queue' = [queue EXCEPT ![q] = Append(@, j)],
             j.does # "upsert" \/ queue[q] = <<>>
      PROVE  UpsertFirst'
  <2>1. /\ Len(Append(queue[q], j)) = Len(queue[q]) + 1 /\ Len(queue[q]) \in Nat
        /\ Append(queue[q], j)[Len(queue[q]) + 1] = j
        /\ \A i \in 1 .. Len(queue[q]) : Append(queue[q], j)[i] = queue[q][i]
      BY <1>0
  <2>2. \A i \in 2 .. Len(queue'[q]) : queue'[q][i].does # "upsert"
    <3> SUFFICES ASSUME NEW i \in 2 .. Len(queue'[q]) PROVE queue'[q][i].does # "upsert"
        OBVIOUS
    <3>1. queue'[q] = Append(queue[q], j)
        BY <1>0, <1>2
    <3>2. CASE i \in 2 .. Len(queue[q])
        BY <2>1, <3>1, <3>2 DEF UpsertFirst
    <3>3. CASE i = Len(queue[q]) + 1
        BY <1>2, <2>1, <3>1, <3>3
    <3> QED BY <2>1, <3>1, <3>2, <3>3
  <2>3. \A p \in Procs : p # q => queue'[p] = queue[p]
      BY <1>0, <1>2
  <2> QED BY <2>2, <2>3 DEF UpsertFirst
<1>3. ASSUME NEW q \in Procs, Ends(q) PROVE UpsertFirst'
  <2>1. CASE queue' = [queue EXCEPT ![q] = <<>>]
      BY <1>0, <2>1 DEF UpsertFirst
  <2>2. CASE queue[q] # <<>> /\ queue' = [queue EXCEPT ![q] = Tail(@)]
    <3>1. /\ queue'[q] = Tail(queue[q]) /\ Len(queue'[q]) = Len(queue[q]) - 1
          /\ Len(queue[q]) \in Nat
          /\ \A i \in 1 .. Len(queue'[q]) : queue'[q][i] = queue[q][i + 1]
        BY <1>0, <2>2
    <3>2. \A i \in 2 .. Len(queue'[q]) : queue'[q][i].does # "upsert"
        BY <3>1 DEF UpsertFirst
    <3>3. \A p \in Procs : p # q => queue'[p] = queue[p]
        BY <1>0, <2>2
    <3> QED BY <3>2, <3>3 DEF UpsertFirst
  <2> QED BY <1>3, <2>1, <2>2 DEF Ends
<1>4. ASSUME NEW p \in Procs, NEW a \in Accounts, Upsert(p, a) PROVE UpsertFirst'
  <2> DEFINE j == [does |-> "upsert", account |-> a, pair |-> issued + 1, flag |-> TRUE,
                   by |-> NoCaller]
  <2>1. issued + 1 \in Pairs
      BY <1>0, <1>4, StoreConstants DEF Upsert, TypeOK, Pairs
  <2>2. j \in Jobs
      BY <2>1 DEF Jobs
  <2>3. queue[p] = <<>> /\ queue' = [queue EXCEPT ![p] = Append(@, j)]
      BY <1>4 DEF Upsert, Chain
  <2> HIDE DEF j
  <2> QED BY <1>2, <2>2, <2>3
<1>5. ASSUME NEW p \in Procs,
             Read(p) \/ Accepted(p) \/ AnswerLost(p) \/ Refused(p) \/ Write(p) \/ WriteFails(p)
      PROVE  UpsertFirst'
    BY <1>1, <1>5 DEF Read, Accepted, AnswerLost, Refused, Write, WriteFails
<1>6. CASE Quiet
    BY <1>1, <1>2, <1>6 DEF Quiet
<1>7. CASE UNCHANGED vars
    BY <1>1, <1>7 DEF vars
<1> QED BY <1>3, <1>4, <1>5, <1>6, <1>7, QuietSteps

----
(* What a job has read. *)

LEMMA CurrentInit == Init => Current
    BY DEF Init, Current

\* A job that is not at work and a pool that stays leave all of it as it is.
LEMMA CurrentKept ==
    ASSUME Current, UNCHANGED <<pool, stage, buf, tried>>, ~misfired' => ~misfired,
           \A p \in Procs : stage[p] # "start" => MyJob(p)' = MyJob(p)
    PROVE  Current'
<1>1. \A p \in Procs : stage[p] = "write" =>
         /\ Edited(MyJob(p))' = Edited(MyJob(p))
         /\ MyJob(p)' = MyJob(p)
    BY DEF Edited, StillRefused, IsStored
<1>2. \A p \in Procs : stage[p] = "write" /\ UpToDate(p) => UpToDate(p)'
    BY <1>1 DEF UpToDate
<1>3. \A p \in Procs :
          /\ stage'[p] = "start" => tried'[p] = NoPair
          /\ stage'[p] = "write" /\ tried'[p] # NoPair => MyJob(p)'.does = "refresh"
          /\ stage'[p] = "asking" => MyJob(p)'.does = "refresh"
    BY DEF Current
<1>4. ASSUME ~misfired', NEW p \in Procs
      PROVE  /\ stage'[p] = "asking" => buf'[p] = pool' /\ tried'[p] = pool'[MyJob(p)'.account].pair
             /\ stage'[p] = "write" => UpToDate(p)'
             /\ stage'[p] = "write" /\ MyJob(p)'.does = "refresh" /\ tried'[p] = NoPair =>
                   buf'[p] = pool'
    BY <1>2, <1>4 DEF Current
<1> QED BY <1>3, <1>4 DEF Current

LEMMA CurrentStep ==
    ASSUME Typed, Exclusive, Current, [Next]_vars
    PROVE  Current'
<1>0. TypeOK /\ Busy
    BY DEF Typed
<1>1. CASE Quiet \/ UNCHANGED vars
  <2>1. UNCHANGED <<pool, stage, buf, tried>> /\ (~misfired' => ~misfired)
      BY <1>1 DEF Quiet, vars, job, lockVars
  <2>2. \A p \in Procs : stage[p] # "start" => MyJob(p)' = MyJob(p)
    <3>1. CASE Quiet
        BY <1>0, <3>1, QuietHeads DEF Busy
    <3>2. CASE UNCHANGED vars
        BY <3>2 DEF vars, MyJob
    <3> QED BY <1>1, <3>1, <3>2
  <2> QED BY <2>1, <2>2, CurrentKept
<1>2. ASSUME NEW p \in Procs, NEW a \in Accounts, Upsert(p, a) PROVE Current'
  <2>1. UNCHANGED <<pool, stage, buf, tried, misfired>>
      BY <1>2 DEF Upsert, job, lockVars
  <2>2. queue[p] = <<>> /\ \A q \in Procs : q # p => queue'[q] = queue[q]
      BY <1>0, <1>2 DEF Upsert, Chain, TypeOK
  <2>3. \A q \in Procs : stage[q] # "start" => MyJob(q)' = MyJob(q)
      BY <1>0, <2>2 DEF MyJob, Busy
  <2> QED BY <2>1, <2>3, CurrentKept
<1>3. ASSUME NEW p \in Procs,
             UNCHANGED <<pool, misfired>>,
             \A q \in Procs : q # p => /\ stage'[q] = stage[q] /\ buf'[q] = buf[q]
                                       /\ tried'[q] = tried[q] /\ queue'[q] = queue[q],
             /\ stage'[p] = "start" => tried'[p] = NoPair
             /\ stage'[p] = "write" /\ tried'[p] # NoPair => MyJob(p)'.does = "refresh"
             /\ stage'[p] = "asking" => MyJob(p)'.does = "refresh",
             ~misfired =>
                /\ stage'[p] = "asking" => buf'[p] = pool /\ tried'[p] = pool[MyJob(p)'.account].pair
                /\ stage'[p] = "write" => UpToDate(p)'
                /\ stage'[p] = "write" /\ MyJob(p)'.does = "refresh" /\ tried'[p] = NoPair =>
                      buf'[p] = pool
      PROVE  Current'
  <2>1. \A q \in Procs : q # p => MyJob(q)' = MyJob(q)
      BY <1>3 DEF MyJob
  <2>2. \A q \in Procs : q # p /\ UpToDate(q) => UpToDate(q)'
      BY <1>3, <2>1 DEF UpToDate, Edited, StillRefused, IsStored
  <2> QED BY <1>3, <2>1, <2>2 DEF Current
<1>4. ASSUME NEW p \in Procs, Read(p) PROVE Current'
  <2>1. /\ UNCHANGED <<pool, misfired, queue>> /\ stage[p] = "start" /\ tried[p] = NoPair
        /\ \A q \in Procs : q # p => /\ stage'[q] = stage[q] /\ buf'[q] = buf[q]
                                     /\ tried'[q] = tried[q] /\ queue'[q] = queue[q]
      BY <1>0, <1>4 DEF Read, Current, TypeOK, lockVars
  <2>2. MyJob(p)' = MyJob(p) /\ Edited(MyJob(p))' = Edited(MyJob(p))
      BY <2>1 DEF MyJob, Edited, StillRefused, IsStored
  <2>3. CASE MyJob(p).does # "refresh"
    <3>1. /\ buf'[p] = Edited(MyJob(p)) /\ stage'[p] = "write" /\ tried'[p] = NoPair
        BY <1>0, <1>4, <2>1, <2>3 DEF Read, TypeOK
    <3> QED BY <1>3, <2>1, <2>2, <2>3, <3>1 DEF UpToDate
  <2>4. CASE MyJob(p).does = "refresh"
    <3>1. /\ buf'[p] = pool /\ stage'[p] \in {"failed", "write", "asking"}
          /\ stage'[p] = "asking" => tried'[p] = pool[MyJob(p).account].pair
          /\ stage'[p] = "write" => tried'[p] = NoPair
        BY <1>0, <1>4, <2>4 DEF Read, TypeOK
    <3>2. [pool EXCEPT ![MyJob(p).account] = pool[MyJob(p).account]] = pool
        BY <1>0 DEF TypeOK, Pools
    <3> QED BY <1>3, <2>1, <2>2, <2>4, <3>1, <3>2 DEF UpToDate
  <2> QED BY <2>3, <2>4
<1>5. ASSUME NEW p \in Procs, Accepted(p) PROVE Current'
  <2> DEFINE a == MyJob(p).account
             r == [pair |-> issued + 1, ok |-> TRUE]
  <2>1. /\ UNCHANGED <<pool, misfired, queue>> /\ stage[p] = "asking" /\ tried[p] # NoPair
        /\ \A q \in Procs : q # p => /\ stage'[q] = stage[q] /\ buf'[q] = buf[q]
                                     /\ tried'[q] = tried[q] /\ queue'[q] = queue[q]
      BY <1>0, <1>5 DEF Accepted, Busy, TypeOK, lockVars
  <2>2. MyJob(p)' = MyJob(p) /\ MyJob(p).does = "refresh" /\ a \in Accounts
      BY <1>0, <2>1, HeadTyped DEF MyJob, Current, Busy, Jobs
  <2>3. /\ buf'[p] = [buf[p] EXCEPT ![a] = r] /\ stage'[p] = "write" /\ tried'[p] = tried[p]
      BY <1>0, <1>5 DEF Accepted, TypeOK
  <2>4. ~misfired => UpToDate(p)'
    <3> SUFFICES ASSUME ~misfired PROVE buf'[p] = [pool EXCEPT ![a] = buf'[p][a]]
        BY <2>1, <2>2 DEF UpToDate
    <3>1. buf[p] = pool /\ pool \in Pools
        BY <1>0, <2>1 DEF Current, TypeOK
    <3> QED BY <2>2, <2>3, <3>1 DEF Pools
  <2> QED BY <1>3, <2>1, <2>2, <2>3, <2>4
<1>6. ASSUME NEW p \in Procs, AnswerLost(p) \/ Refused(p) \/ WriteFails(p) PROVE Current'
  <2>1. /\ UNCHANGED <<pool, misfired, queue>> /\ stage'[p] = "failed"
        /\ \A q \in Procs : q # p => /\ stage'[q] = stage[q] /\ buf'[q] = buf[q]
                                     /\ tried'[q] = tried[q] /\ queue'[q] = queue[q]
      BY <1>0, <1>6 DEF AnswerLost, Refused, WriteFails, TypeOK, lockVars
  <2> QED BY <1>3, <2>1
<1>7. ASSUME NEW p \in Procs, Ends(p) PROVE Current'
  <2>1. /\ UNCHANGED <<pool, misfired>> /\ stage'[p] = "start" /\ tried'[p] = NoPair
        /\ \A q \in Procs : q # p => /\ stage'[q] = stage[q] /\ buf'[q] = buf[q]
                                     /\ tried'[q] = tried[q] /\ queue'[q] = queue[q]
      BY <1>0, <1>7 DEF Ends, TypeOK
  <2> QED BY <1>3, <2>1
<1>8. ASSUME NEW p \in Procs, Write(p) PROVE Current'
  <2>1. /\ UNCHANGED <<misfired, queue, buf, tried>> /\ stage[p] = "write"
        /\ stage' = [stage EXCEPT ![p] = "stored"]
      BY <1>8 DEF Write, lockVars
  <2>2. ~misfired => \A q \in Procs : stage[q] # "start" => q = p
      BY <1>0, <2>1, Begun
  <2>3. \A q \in Procs : MyJob(q)' = MyJob(q)
      BY <2>1 DEF MyJob
  <2> QED BY <1>0, <2>1, <2>2, <2>3 DEF Current, TypeOK
<1> QED BY <1>1, <1>2, <1>4, <1>5, <1>6, <1>7, <1>8, QuietSteps

----
(* Where the pairs are. *)

LEMMA OnePlaceInit == Init => OnePlace
<1> SUFFICES ASSUME Init PROVE OnePlace
    OBVIOUS
<1>1. \A p \in Procs : Owes(p) = {}
    BY DEF Init, Owes
<1>2. /\ spent = {} /\ issued = FirstPairs /\ FirstPairs \in Nat
      /\ \A a \in Accounts : pool[a].pair = IF a <= FirstPairs THEN a ELSE NoPair
    BY StoreConstants DEF Init
<1> QED BY <1>1, <1>2, StoreConstants DEF OnePlace, Accounts, NoPair

LEMMA OwesSame ==
    ASSUME NEW q \in Procs, stage'[q] = stage[q], buf'[q] = buf[q], tried'[q] = tried[q],
           queue'[q] = queue[q]
    PROVE  Owes(q)' = Owes(q)
    BY DEF Owes, MyJob

\* A job that hands over its pairs, or never had one, owes nothing.
LEMMA OwesLess ==
    ASSUME OnePlace, UNCHANGED <<pool, issued, spent>>, ~misfired' => ~misfired,
           \A q \in Procs : Owes(q)' \subseteq Owes(q)
    PROVE  OnePlace'
<1> SUFFICES ASSUME ~misfired' PROVE OnePlace'
    BY DEF OnePlace
<1>1. \A p \in Procs : \A n \in Owes(p)' :
         n <= issued /\ n \notin spent /\ \A a \in Accounts : pool[a].pair # n
    BY DEF OnePlace
<1>2. \A p, q \in Procs : p # q => Owes(p)' \cap Owes(q)' = {}
    BY DEF OnePlace
<1> QED BY <1>1, <1>2 DEF OnePlace

LEMMA QuietOwes == ASSUME Typed, Quiet, NEW q \in Procs PROVE Owes(q)' \subseteq Owes(q)
<1>1. queue[q] # <<>> => queue'[q] # <<>> /\ MyJob(q)' = MyJob(q)
    BY QuietHeads
<1>2. queue[q] = <<>> /\ queue'[q] # <<>> => MyJob(q)'.does # "upsert"
    BY QuietHeads
<1>3. stage[q] # "start" => queue[q] # <<>>
    BY DEF Typed, Busy
<1>4. UNCHANGED <<stage, buf, tried>>
    BY DEF Quiet, job
<1> QED BY <1>1, <1>2, <1>3, <1>4 DEF Owes

LEMMA EndsOwes ==
    ASSUME Typed, UpsertFirst, NEW p \in Procs, Ends(p)
    PROVE  /\ Owes(p)' = {}
           /\ \A q \in Procs : q # p => Owes(q)' = Owes(q)
<1>0. TypeOK /\ queue \in [Procs -> Seq(Jobs)]
    BY DEF Typed, TypeOK
<1>1. stage'[p] = "start"
    BY <1>0 DEF Ends, TypeOK
<1>2. queue'[p] # <<>> => MyJob(p)'.does # "upsert"
  <2>1. CASE queue' = [queue EXCEPT ![p] = <<>>]
      BY <1>0, <2>1
  <2>2. CASE queue[p] # <<>> /\ queue' = [queue EXCEPT ![p] = Tail(@)]
    <3> SUFFICES ASSUME queue'[p] # <<>> PROVE queue'[p][1].does # "upsert"
        BY DEF MyJob
    <3>1. /\ queue'[p] = Tail(queue[p]) /\ queue[p] \in Seq(Jobs)
        BY <1>0, <2>2
    <3>2. /\ Len(queue[p]) \in Nat /\ Len(queue'[p]) = Len(queue[p]) - 1
          /\ \A i \in 1 .. Len(queue'[p]) : queue'[p][i] = queue[p][i + 1]
        BY <1>0, <2>2
    <3>3. queue'[p] \in Seq(Jobs) /\ Len(queue'[p]) # 0
        BY <2>2, <3>1, HeadTailProperties, EmptySeq
    <3>4. 2 \in 2 .. Len(queue[p]) /\ queue'[p][1] = queue[p][2]
        BY <3>2, <3>3
    <3> QED BY <3>4 DEF UpsertFirst
  <2> QED BY <2>1, <2>2 DEF Ends
<1>3. Owes(p)' = {}
    BY <1>1, <1>2 DEF Owes
<1>4. ASSUME NEW q \in Procs, q # p PROVE Owes(q)' = Owes(q)
  <2>1. /\ stage'[q] = stage[q] /\ buf'[q] = buf[q]
        /\ tried'[q] = tried[q] /\ queue'[q] = queue[q]
      BY <1>0, <1>4 DEF Ends, TypeOK
  <2> QED BY <2>1, OwesSame
<1> QED BY <1>3, <1>4

\* The next pair is nowhere yet.
LEMMA NextPairNew ==
    ASSUME Typed, OnePlace, ~misfired
    PROVE  /\ issued + 1 \notin spent
           /\ \A a \in Accounts : pool[a].pair # issued + 1
           /\ \A q \in Procs : issued + 1 \notin Owes(q)
<1>1. issued \in Nat
    BY StoreConstants DEF Typed, TypeOK
<1>2. \A a \in Accounts : pool[a].pair \in Nat /\ pool[a].pair <= issued
    BY StoreConstants DEF OnePlace, Typed, TypeOK, Pools, Pairs, NoPair
<1>3. \A q \in Procs : \A n \in Owes(q) : n \in Nat /\ n <= issued
    BY StoreConstants DEF OnePlace, Owes, Pairs
<1>4. issued + 1 \notin spent
    BY <1>1 DEF OnePlace
<1> QED BY <1>1, <1>2, <1>3, <1>4

\* What Write puts on disk: a pair changes only where the job's own does, to
\* none or to one it owed.
LEMMA WritePairs ==
    ASSUME Typed, Current, ~misfired, NEW p \in Procs, Write(p), NEW b \in Accounts
    PROVE  \/ pool'[b].pair = pool[b].pair
           \/ b = MyJob(p).account /\ (pool'[b].pair = NoPair \/ pool'[b].pair \in Owes(p))
<1>0. TypeOK /\ Busy /\ pool \in Pools /\ pool' = buf[p] /\ stage[p] = "write" /\ buf[p] \in Pools
    BY DEF Typed, TypeOK, Write
<1> DEFINE j == MyJob(p)
<1>1. queue[p] # <<>> /\ j \in Jobs /\ UpToDate(p)
    BY <1>0, HeadTyped DEF Busy, Current
<1>2. j.account \in Accounts /\ j.pair \in Pairs \cup {NoPair}
    BY <1>1 DEF Jobs
<1>3. CASE j.does = "refresh" /\ tried[p] = NoPair
    BY <1>0, <1>3 DEF Current
<1>4. CASE j.does = "refresh" /\ tried[p] # NoPair
  <2>1. b # j.account => pool'[b] = pool[b]
      BY <1>0, <1>1, <1>2, <1>4 DEF UpToDate, Pools
  <2>2. buf[p][j.account].pair \in Pairs \cup {NoPair}
      BY <1>0, <1>2 DEF Pools
  <2>3. buf[p][j.account].pair \in Pairs => buf[p][j.account].pair \in Owes(p)
      BY <1>0, <1>4 DEF Owes
  <2> QED BY <1>0, <2>1, <2>2, <2>3
<1>5. CASE j.does # "refresh"
  <2>1. pool' = Edited(j)
      BY <1>0, <1>1, <1>5 DEF UpToDate
  <2>2. CASE j.does = "upsert"
    <3>1. pool' = [pool EXCEPT ![j.account] = [pair |-> j.pair, ok |-> TRUE]]
        BY <2>1, <2>2 DEF Edited
    <3>2. j.pair \in Pairs => j.pair \in Owes(p)
        BY <1>0, <1>1, <2>2 DEF Owes
    <3>3. pool \in [Accounts -> [pair : Pairs \cup {NoPair}, ok : BOOLEAN]]
        BY <1>0 DEF Pools
    <3> QED BY <1>2, <3>1, <3>2, <3>3
  <2>3. CASE j.does = "remove"
    <3>1. pool' = [pool EXCEPT ![j.account] = [pair |-> NoPair, ok |-> TRUE]]
        BY <2>1, <2>3 DEF Edited
    <3> QED BY <1>0, <1>2, <3>1 DEF Pools
  <2>4. CASE j.does \in {"mark", "blame"}
    <3>1. \/ pool' = pool
          \/ \E flag \in BOOLEAN : pool' = [pool EXCEPT ![j.account].ok = flag]
        BY <1>1, <2>1, <2>4 DEF Edited, Jobs
    <3>2. ASSUME NEW flag \in BOOLEAN, pool' = [pool EXCEPT ![j.account].ok = flag]
          PROVE  pool'[b].pair = pool[b].pair
        BY <1>0, <1>2, <3>2 DEF Pools
    <3> QED BY <3>1, <3>2
  <2> QED BY <1>1, <1>5, <2>2, <2>3, <2>4 DEF Jobs
<1> QED BY <1>3, <1>4, <1>5

LEMMA OnePlaceStep ==
    ASSUME Typed, Exclusive, Current, UpsertFirst, OnePlace, [Next]_vars
    PROVE  OnePlace'
<1>0. TypeOK /\ Busy
    BY DEF Typed
<1> SUFFICES ASSUME ~misfired' PROVE OnePlace'
    BY DEF OnePlace
<1>1. CASE Quiet
    BY <1>1, QuietOwes, OwesLess DEF Quiet
<1>2. CASE UNCHANGED vars
  <2>1. \A q \in Procs : Owes(q)' = Owes(q)
      BY <1>2, OwesSame DEF vars, job
  <2> QED BY <1>2, <2>1, OwesLess DEF vars, lockVars, provider
<1>3. ASSUME NEW p \in Procs, NEW a \in Accounts, Upsert(p, a) PROVE OnePlace'
  <2> DEFINE n == issued + 1
             j == [does |-> "upsert", account |-> a, pair |-> n, flag |-> TRUE,
                   by |-> NoCaller]
  <2>1. /\ UNCHANGED <<pool, spent, stage, buf, tried, misfired>> /\ queue[p] = <<>>
        /\ issued' = n /\ queue' = [queue EXCEPT ![p] = Append(@, j)]
      BY <1>3 DEF Upsert, Chain, lockVars, job
  <2>2. /\ n \notin spent
        /\ \A b \in Accounts : pool[b].pair # n
        /\ \A q \in Procs : n \notin Owes(q)
      BY <2>1, NextPairNew
  <2>3. /\ issued \in Nat /\ spent \subseteq 1 .. n
        /\ \A b \in Accounts : pool[b].pair <= n
        /\ \A q \in Procs : \A m \in Owes(q) : m <= n
    <3>1. issued \in Nat
        BY <1>0, StoreConstants DEF TypeOK
    <3>2. \A b \in Accounts : pool[b].pair \in Nat /\ pool[b].pair <= issued
        BY <1>0, <2>1, StoreConstants DEF OnePlace, TypeOK, Pools, Pairs, NoPair
    <3>3. \A q \in Procs : \A m \in Owes(q) : m \in Nat /\ m <= issued
        BY <2>1, StoreConstants DEF OnePlace, Owes, Pairs
    <3>4. spent \subseteq 1 .. issued
        BY <2>1 DEF OnePlace
    <3> QED BY <3>1, <3>2, <3>3, <3>4
  <2>4. j \in Jobs
    <3>1. n \in Pairs
        BY <1>0, <1>3, StoreConstants DEF Upsert, TypeOK, Pairs
    <3> QED BY <3>1 DEF Jobs
  <2>5. MyJob(p)' = j /\ stage'[p] = "start"
      BY <1>0, <2>1, <2>4, ChainKeeps DEF MyJob, TypeOK, Busy
  <2>6. Owes(p)' \subseteq {n}
      BY <2>5 DEF Owes
  <2>7. \A q \in Procs : q # p => Owes(q)' = Owes(q)
      BY <1>0, <2>1, OwesSame DEF TypeOK
  <2> HIDE DEF n, j
  <2>8. \A q \in Procs : \A m \in Owes(q)' :
           m <= n /\ m \notin spent /\ \A b \in Accounts : pool[b].pair # m
      BY <2>1, <2>2, <2>3, <2>6, <2>7 DEF OnePlace, n
  <2>9. \A q, r \in Procs : q # r => Owes(q)' \cap Owes(r)' = {}
      BY <2>1, <2>2, <2>6, <2>7 DEF OnePlace
  <2> QED BY <2>1, <2>3, <2>8, <2>9 DEF OnePlace
<1>4. ASSUME NEW p \in Procs, Read(p) PROVE OnePlace'
  <2>1. /\ UNCHANGED <<pool, issued, spent, misfired, queue>> /\ stage[p] = "start"
        /\ tried[p] = NoPair /\ queue[p] # <<>>
        /\ \A q \in Procs : q # p => /\ stage'[q] = stage[q] /\ buf'[q] = buf[q]
                                     /\ tried'[q] = tried[q] /\ queue'[q] = queue[q]
      BY <1>0, <1>4 DEF Read, Current, TypeOK, Busy, lockVars, provider
  <2>2. stage'[p] = "write" => tried'[p] = NoPair
      BY <1>0, <1>4, <2>1 DEF Read, TypeOK
  <2>3. Owes(p)' \subseteq Owes(p)
      BY <2>1, <2>2 DEF Owes, MyJob
  <2>4. \A q \in Procs : q # p => Owes(q)' = Owes(q)
      BY <2>1, OwesSame
  <2> QED BY <2>1, <2>3, <2>4, OwesLess
<1>5. ASSUME NEW p \in Procs, Refused(p) \/ WriteFails(p) PROVE OnePlace'
  <2>1. /\ UNCHANGED <<pool, issued, spent, misfired, queue>> /\ stage'[p] = "failed"
        /\ \A q \in Procs : q # p => /\ stage'[q] = stage[q] /\ buf'[q] = buf[q]
                                     /\ tried'[q] = tried[q] /\ queue'[q] = queue[q]
      BY <1>0, <1>5 DEF Refused, WriteFails, TypeOK, lockVars, provider
  <2>2. Owes(p)' = {}
      BY <2>1 DEF Owes
  <2>3. \A q \in Procs : q # p => Owes(q)' = Owes(q)
      BY <2>1, OwesSame
  <2> QED BY <2>1, <2>2, <2>3, OwesLess
<1>6. ASSUME NEW p \in Procs, stage[p] = "asking", Exchange(tried[p]),
             UNCHANGED <<pool, misfired>>,
             Owes(p)' \subseteq {issued + 1},
             \A q \in Procs : q # p => Owes(q)' = Owes(q)
      PROVE  OnePlace'
  <2> DEFINE n == issued + 1
             m == tried[p]
  <2>1. issued' = n /\ spent' = spent \cup {m} /\ m \in Pairs
      BY <1>0, <1>6 DEF Exchange, Busy, TypeOK
  <2>2. \E a \in Accounts : pool[a].pair = m
    <3>1. MyJob(p) \in Jobs
        BY <1>0, <1>6, HeadTyped DEF Busy
    <3> QED BY <1>6, <3>1 DEF Current, Jobs
  <2>3. m <= issued /\ \A q \in Procs : m \notin Owes(q)
      BY <1>6, <2>2 DEF OnePlace
  <2>4. /\ n \notin spent /\ n # m
        /\ \A b \in Accounts : pool[b].pair # n
        /\ \A q \in Procs : n \notin Owes(q)
      BY <1>6, <2>2, NextPairNew
  <2>5. issued \in Nat /\ m \in 1 .. issued
      BY <1>0, <2>1, <2>3, StoreConstants DEF TypeOK, Pairs
  <2>6. spent' \subseteq 1 .. n
      BY <1>6, <2>1, <2>5 DEF OnePlace
  <2>7. \A b \in Accounts : pool[b].pair <= n
    <3>1. \A b \in Accounts : pool[b].pair \in Nat /\ pool[b].pair <= issued
        BY <1>0, <1>6, StoreConstants DEF OnePlace, TypeOK, Pools, Pairs, NoPair
    <3> QED BY <2>5, <3>1
  <2>8. \A q \in Procs : \A k \in Owes(q) : k <= n
    <3>1. \A q \in Procs : \A k \in Owes(q) : k \in Nat /\ k <= issued
        BY <1>6, StoreConstants DEF OnePlace, Owes, Pairs
    <3> QED BY <2>5, <3>1
  <2>9. \A q \in Procs : \A k \in Owes(q)' :
           k <= n /\ k \notin spent' /\ \A b \in Accounts : pool[b].pair # k
    <3>1. ASSUME NEW k \in Owes(p)'
          PROVE  k <= n /\ k \notin spent' /\ \A b \in Accounts : pool[b].pair # k
        BY <1>6, <2>1, <2>4, <2>5, <3>1
    <3>2. ASSUME NEW q \in Procs, q # p, NEW k \in Owes(q)
          PROVE  k <= n /\ k \notin spent' /\ \A b \in Accounts : pool[b].pair # k
        BY <1>6, <2>1, <2>3, <2>8, <3>2 DEF OnePlace
    <3> QED BY <1>6, <3>1, <3>2
  <2>10. \A q, r \in Procs : q # r => Owes(q)' \cap Owes(r)' = {}
      BY <1>6, <2>4 DEF OnePlace
  <2> QED BY <1>6, <2>1, <2>6, <2>7, <2>9, <2>10 DEF OnePlace
<1>7. ASSUME NEW p \in Procs, Accepted(p) \/ AnswerLost(p) PROVE OnePlace'
  <2>1. /\ stage[p] = "asking" /\ Exchange(tried[p]) /\ UNCHANGED <<pool, misfired, queue>>
        /\ \A q \in Procs : q # p => /\ stage'[q] = stage[q] /\ buf'[q] = buf[q]
                                     /\ tried'[q] = tried[q] /\ queue'[q] = queue[q]
      BY <1>0, <1>7 DEF Accepted, AnswerLost, TypeOK, lockVars
  <2>2. \A q \in Procs : q # p => Owes(q)' = Owes(q)
      BY <2>1, OwesSame
  <2>3. Owes(p)' \subseteq {issued + 1}
    <3>1. CASE Accepted(p)
      <4>1. MyJob(p) \in Jobs /\ MyJob(p)' = MyJob(p) /\ MyJob(p).does = "refresh"
          BY <1>0, <2>1, HeadTyped DEF Busy, Current, MyJob
      <4>2. buf[p] \in Pools /\ MyJob(p).account \in Accounts
          BY <1>0, <4>1 DEF TypeOK, Jobs
      <4>3. buf'[p] = [buf[p] EXCEPT ![MyJob(p).account] = [pair |-> issued + 1, ok |-> TRUE]]
          BY <1>0, <3>1 DEF Accepted, TypeOK
      <4>4. buf'[p][MyJob(p).account].pair = issued + 1
          BY <4>2, <4>3 DEF Pools
      <4> QED BY <4>1, <4>4 DEF Owes
    <3>2. CASE AnswerLost(p)
        BY <1>0, <3>2 DEF AnswerLost, TypeOK, Owes
    <3> QED BY <1>7, <3>1, <3>2
  <2> QED BY <1>6, <2>1, <2>2, <2>3
<1>8. ASSUME NEW p \in Procs, Ends(p) PROVE OnePlace'
  <2>1. /\ Owes(p)' = {}
        /\ \A q \in Procs : q # p => Owes(q)' = Owes(q)
      BY <1>8, EndsOwes
  <2>2. CASE UNCHANGED <<issued, spent>>
      BY <1>8, <2>1, <2>2, OwesLess DEF Ends
  <2>3. CASE stage[p] = "asking" /\ Exchange(tried[p])
      BY <1>6, <1>8, <2>1, <2>3 DEF Ends
  <2> QED BY <1>8, <2>2, <2>3 DEF Ends
<1>9. ASSUME NEW p \in Procs, Write(p) PROVE OnePlace'
  <2>1. /\ UNCHANGED <<issued, spent, misfired, queue>> /\ stage'[p] = "stored"
        /\ \A q \in Procs : q # p => /\ stage'[q] = stage[q] /\ buf'[q] = buf[q]
                                     /\ tried'[q] = tried[q] /\ queue'[q] = queue[q]
      BY <1>0, <1>9 DEF Write, TypeOK, lockVars, provider
  <2>2. Owes(p)' = {}
      BY <2>1 DEF Owes
  <2>3. \A q \in Procs : q # p => Owes(q)' = Owes(q)
      BY <2>1, OwesSame
  <2>4. \A b \in Accounts :
           \/ pool'[b].pair = pool[b].pair
           \/ b = MyJob(p).account /\ (pool'[b].pair = NoPair \/ pool'[b].pair \in Owes(p))
      BY <1>9, <2>1, WritePairs
  <2>5. NoPair <= issued
      BY <1>0, StoreConstants DEF TypeOK, NoPair
  <2>6. \A b \in Accounts : pool'[b].pair <= issued
      BY <2>1, <2>4, <2>5 DEF OnePlace
  <2>7. \A a, b \in Accounts : a # b /\ pool'[a].pair = pool'[b].pair => pool'[a].pair = NoPair
      BY <2>1, <2>4 DEF OnePlace
  <2>8. \A q \in Procs : \A n \in Owes(q)' : \A b \in Accounts : pool'[b].pair # n
    <3> SUFFICES ASSUME NEW q \in Procs, q # p, NEW n \in Owes(q), NEW b \in Accounts
                 PROVE  pool'[b].pair # n
        BY <2>2, <2>3
    <3>1. n # NoPair
        BY StoreConstants DEF Owes, Pairs, NoPair
    <3>2. pool[b].pair # n /\ n \notin Owes(p)
        BY <2>1 DEF OnePlace
    <3> QED BY <2>4, <3>1, <3>2
  <2> QED BY <2>1, <2>2, <2>3, <2>6, <2>7, <2>8 DEF OnePlace
<1> QED BY <1>1, <1>2, <1>3, <1>4, <1>5, <1>7, <1>8, <1>9, QuietSteps

----
(* The refresh token on disk. *)

\* Process q is about to write the successor of the pair on disk.
Replaces(q, a) == stage[q] = "write" /\ MyJob(q).account = a /\ tried[q] = pool[a].pair

LEMMA CurrentPairInit == Init => StoreIsCurrent
    BY DEF Init, StoreIsCurrent

\* Whoever is about to write stays so when neither it nor the pool changes.
LEMMA ReplacesKept ==
    ASSUME NEW q \in Procs, NEW a \in Accounts, Replaces(q, a), pool' = pool,
           stage'[q] = stage[q], tried'[q] = tried[q], MyJob(q)' = MyJob(q)
    PROVE  Replaces(q, a)'
    BY DEF Replaces

LEMMA CurrentPairStep ==
    ASSUME Typed, Exclusive, Current, OnePlace, StoreIsCurrent, [Next]_vars
    PROVE  StoreIsCurrent'
<1>0. TypeOK /\ Busy
    BY DEF Typed
<1> SUFFICES ASSUME ~misfired', NEW a \in Accounts, pool'[a].pair \in spent' \ lost'
             PROVE  \E p \in Procs : Replaces(p, a)'
    BY DEF StoreIsCurrent, Replaces
<1>1. CASE Quiet \/ UNCHANGED vars
  <2>1. UNCHANGED <<pool, spent, lost, stage, buf, tried>> /\ ~misfired
      BY <1>1 DEF Quiet, vars, job, lockVars, provider
  <2>2. \A p \in Procs : stage[p] # "start" => MyJob(p)' = MyJob(p)
    <3>1. CASE Quiet
        BY <1>0, <3>1, QuietHeads DEF Busy
    <3>2. CASE UNCHANGED vars
        BY <3>2 DEF vars, MyJob
    <3> QED BY <1>1, <3>1, <3>2
  <2>3. PICK q \in Procs : Replaces(q, a)
      BY <2>1 DEF StoreIsCurrent, Replaces
  <2> QED BY <2>1, <2>2, <2>3, ReplacesKept DEF Replaces
<1>2. ASSUME NEW p \in Procs, NEW b \in Accounts, Upsert(p, b)
      PROVE  \E q \in Procs : Replaces(q, a)'
  <2>1. UNCHANGED <<pool, spent, lost, stage, buf, tried, misfired>> /\ queue[p] = <<>>
        /\ \A q \in Procs : q # p => queue'[q] = queue[q]
      BY <1>0, <1>2 DEF Upsert, Chain, job, lockVars, TypeOK
  <2>2. \A q \in Procs : stage[q] # "start" => MyJob(q)' = MyJob(q)
      BY <1>0, <2>1 DEF MyJob, Busy
  <2>3. PICK q \in Procs : Replaces(q, a)
      BY <2>1 DEF StoreIsCurrent, Replaces
  <2> QED BY <2>1, <2>2, <2>3, ReplacesKept DEF Replaces
\* The other processes are left alone; what process p had to write is not
\* wanted any more.
<1>3. ASSUME NEW p \in Procs, UNCHANGED <<pool, misfired>>, pool[a].pair \in spent \ lost,
             \A q \in Procs : q # p => /\ stage'[q] = stage[q] /\ tried'[q] = tried[q]
                                       /\ queue'[q] = queue[q],
             ~Replaces(p, a)
      PROVE  \E q \in Procs : Replaces(q, a)'
  <2>1. PICK q \in Procs : Replaces(q, a)
      BY <1>3 DEF StoreIsCurrent, Replaces
  <2>2. q # p /\ MyJob(q)' = MyJob(q)
      BY <1>3, <2>1 DEF MyJob
  <2> QED BY <1>3, <2>1, <2>2, ReplacesKept
<1>4. ASSUME NEW p \in Procs, Read(p) \/ Refused(p) PROVE \E q \in Procs : Replaces(q, a)'
  <2>1. /\ UNCHANGED <<pool, misfired, spent, lost>> /\ stage[p] # "write"
        /\ \A q \in Procs : q # p => /\ stage'[q] = stage[q] /\ tried'[q] = tried[q]
                                     /\ queue'[q] = queue[q]
      BY <1>0, <1>4 DEF Read, Refused, TypeOK, lockVars, provider
  <2> QED BY <1>3, <2>1 DEF Replaces
<1>5. ASSUME NEW p \in Procs, Accepted(p) PROVE \E q \in Procs : Replaces(q, a)'
  <2>1. /\ UNCHANGED <<pool, misfired, lost, queue, tried>>
        /\ stage[p] = "asking" /\ stage'[p] = "write" /\ spent' = spent \cup {tried[p]}
        /\ \A q \in Procs : q # p => stage'[q] = stage[q]
      BY <1>0, <1>5 DEF Accepted, Exchange, TypeOK, lockVars
  <2>2. CASE pool[a].pair = tried[p]
    <3>1. MyJob(p).account \in Accounts /\ tried[p] # NoPair
        BY <1>0, <2>1, HeadTyped DEF Busy, Jobs
    <3>2. tried[p] = pool[MyJob(p).account].pair
        BY <2>1 DEF Current
    <3>3. MyJob(p).account = a
        BY <2>1, <2>2, <3>1, <3>2 DEF OnePlace
    <3> QED BY <2>1, <2>2, <3>3 DEF Replaces, MyJob
  <2>3. CASE pool[a].pair # tried[p]
      BY <1>3, <2>1, <2>3 DEF Replaces
  <2> QED BY <2>2, <2>3
<1>6. ASSUME NEW p \in Procs, AnswerLost(p) PROVE \E q \in Procs : Replaces(q, a)'
  <2>1. /\ UNCHANGED <<pool, misfired, queue, tried>>
        /\ stage[p] = "asking"
        /\ spent' = spent \cup {tried[p]} /\ lost' = lost \cup {tried[p]}
        /\ \A q \in Procs : q # p => stage'[q] = stage[q]
      BY <1>0, <1>6 DEF AnswerLost, Exchange, TypeOK, lockVars
  <2> QED BY <1>3, <2>1 DEF Replaces
<1>7. ASSUME NEW p \in Procs, stage[p] = "write" => lost' = lost \cup Unsaved(p),
             UNCHANGED <<pool, misfired>>, lost \subseteq lost',
             spent' = spent \/ (spent' = spent \cup {tried[p]} /\ tried[p] \in lost'),
             \A q \in Procs : q # p => /\ stage'[q] = stage[q] /\ tried'[q] = tried[q]
                                       /\ queue'[q] = queue[q]
      PROVE  \E q \in Procs : Replaces(q, a)'
  <2>1. pool[a].pair \in spent \ lost
      BY <1>7
  <2>2. pool[a].pair # NoPair
      BY <1>0, <2>1, StoreConstants DEF TypeOK, Pairs, NoPair
  <2>3. ~Replaces(p, a)
      BY <1>7, <2>2 DEF Replaces, Unsaved
  <2> QED BY <1>3, <1>7, <2>1, <2>3
<1>8. ASSUME NEW p \in Procs, WriteFails(p) PROVE \E q \in Procs : Replaces(q, a)'
  <2>1. /\ lost' = lost \cup Unsaved(p) /\ UNCHANGED <<pool, misfired, spent>>
        /\ \A q \in Procs : q # p => /\ stage'[q] = stage[q] /\ tried'[q] = tried[q]
                                     /\ queue'[q] = queue[q]
      BY <1>0, <1>8 DEF WriteFails, TypeOK, lockVars
  <2> QED BY <1>7, <2>1
<1>9. ASSUME NEW p \in Procs, Ends(p) PROVE \E q \in Procs : Replaces(q, a)'
  <2>1. /\ UNCHANGED <<pool, misfired>>
        /\ \A q \in Procs : q # p => /\ stage'[q] = stage[q] /\ tried'[q] = tried[q]
                                     /\ queue'[q] = queue[q]
      BY <1>0, <1>9 DEF Ends, TypeOK
  <2>2. /\ stage[p] = "write" => lost' = lost \cup Unsaved(p)
        /\ lost \subseteq lost'
        /\ spent' = spent \/ (spent' = spent \cup {tried[p]} /\ tried[p] \in lost')
      BY <1>9 DEF Ends, Exchange
  <2> QED BY <1>7, <2>1, <2>2
<1>10. ASSUME NEW p \in Procs, Write(p) PROVE \E q \in Procs : Replaces(q, a)'
  <2>1. /\ stage[p] = "write" /\ UNCHANGED <<misfired, spent, lost>>
      BY <1>10 DEF Write, lockVars, provider
  <2>2. pool'[a].pair # NoPair /\ pool'[a].pair \notin Owes(p)
      BY <1>0, <2>1, StoreConstants DEF OnePlace, TypeOK, Pairs, NoPair
  <2>3. pool'[a].pair = pool[a].pair
      BY <1>10, <2>1, <2>2, WritePairs
  <2>4. PICK q \in Procs : Replaces(q, a)
      BY <2>1, <2>3 DEF StoreIsCurrent, Replaces
  <2>5. q = p
      BY <1>0, <2>1, <2>4, Begun DEF Replaces
  <2>6. tried[p] # NoPair /\ pool'[a].pair = buf[p][MyJob(p).account].pair
      BY <1>10, <2>2, <2>3, <2>4, <2>5 DEF Replaces, Write
  <2>7. pool'[a].pair \in Pairs
      BY <1>0, <2>1 DEF TypeOK
  <2>8. pool'[a].pair \in Owes(p)
      BY <2>1, <2>6, <2>7 DEF Owes
  <2> QED BY <2>2, <2>8
<1> QED BY <1>1, <1>2, <1>4, <1>5, <1>6, <1>8, <1>9, <1>10, QuietSteps

----
(* The theorems. *)

LEMMA StoreInvInit == Init => StoreInv
    BY TypedInit, ExclusiveInit, CurrentInit, UpsertFirstInit, OnePlaceInit, CurrentPairInit
       DEF StoreInv

LEMMA StoreInvStep == StoreInv /\ [Next]_vars => StoreInv'
    BY TypedStep, ExclusiveStep, CurrentStep, UpsertFirstStep, OnePlaceStep, CurrentPairStep
       DEF StoreInv

\* The inductive invariant of the store holds in every state.
THEOREM InvHolds == Spec => []StoreInv
    BY StoreInvInit, StoreInvStep, PTL DEF Spec

\* Whatever the bot, the CLIs and their crashes do, a process that is about to
\* write the pool has read what is there now: a change undoes no other, as
\* long as no reclaim has moved away a lock that was not stale.
THEOREM NoChangeLost == Spec => []NothingClobbered
<1>1. StoreInv => NothingClobbered
    BY DEF StoreInv, Current, NothingClobbered
<1> QED BY <1>1, InvHolds, PTL

\* The refresh token on disk is one the endpoint has not accepted yet, or its
\* successor is about to be written; only a lost answer, a failed write or the
\* end of the process in between loses the account.
THEOREM TokenOnDiskUsable == Spec => []StoreIsCurrent
<1>1. StoreInv => StoreIsCurrent
    BY DEF StoreInv
<1> QED BY <1>1, InvHolds, PTL

\* Of a failed refresh only the account that still has the failed pair is
\* marked.
THEOREM BlameHitsRefused == Spec => OnlyRefusedMarked
<1> DEFINE A == \A p \in Procs :
          ~misfired /\ stage[p] = "write" /\ stage'[p] = "stored" /\ MyJob(p).does = "blame"
              => \A a \in Accounts : pool[a].pair # MyJob(p).pair => pool'[a] = pool[a]
<1>1. StoreInv /\ [Next]_vars => [A]_vars
  <2> SUFFICES ASSUME StoreInv, Next, NEW p \in Procs, ~misfired,
                      stage[p] = "write", stage'[p] = "stored", MyJob(p).does = "blame",
                      NEW a \in Accounts, pool[a].pair # MyJob(p).pair
               PROVE  pool'[a] = pool[a]
      BY DEF A
  <2>0. Typed /\ TypeOK /\ Busy /\ Exclusive /\ Current
      BY DEF StoreInv, Typed
  <2>1. pool' = buf[p] \/ pool' = pool
    <3>1. ASSUME NEW q \in Procs, Write(q) PROVE pool' = buf[p]
        BY <2>0, <3>1, Begun DEF Write
    <3>2. ASSUME NEW q \in Procs, Read(q) \/ Accepted(q) \/ AnswerLost(q) \/ Refused(q)
                                  \/ WriteFails(q) \/ Ends(q)
          PROVE  pool' = pool
        BY <3>2 DEF Read, Accepted, AnswerLost, Refused, WriteFails, Ends
    <3> QED BY <2>0, <3>1, <3>2, QuietSteps DEF Quiet, Upsert
  <2>2. buf[p] = Edited(MyJob(p))
      BY <2>0 DEF Current, UpToDate
  <2>3. \/ Edited(MyJob(p)) = pool
        \/ /\ Edited(MyJob(p)) = [pool EXCEPT ![MyJob(p).account].ok = FALSE]
           /\ pool[MyJob(p).account].pair = MyJob(p).pair
      BY DEF Edited, StillRefused
  <2> QED BY <2>0, <2>1, <2>2, <2>3 DEF TypeOK, Pools
<1>2. Spec => [][A]_vars
    BY <1>1, InvHolds, PTL DEF Spec
<1> QED BY <1>2 DEF OnlyRefusedMarked

----
(* Requests and the jobs they wait for. *)

Waiting == {"refreshing", "blaming", "marking"}

\* What a request does to its own entry and to the chain: it goes on without
\* waiting, joins the refresh of its account, or chains the job it waits for.
Starts(c) ==
    \E r \in Calls :
        /\ call' = [call EXCEPT ![c] = r]
        /\ \/ r.at \notin Waiting /\ queue' = queue
           \/ r.at = "refreshing" /\ InFlight(r.account) /\ queue' = queue
           \/ \E j \in Jobs :
                 /\ queue' = [queue EXCEPT ![Bot] = Append(@, j)]
                 /\ \/ /\ r.at = "refreshing" /\ j.does = "refresh"
                       /\ j.account = r.account /\ ~InFlight(r.account)
                    \/ r.at = "blaming" /\ j.does = "blame" /\ j.by = c
                    \/ r.at = "marking" /\ j.does = "mark" /\ j.by = c

LEMMA RequestStarts ==
    ASSUME TypeOK, NEW c \in Callers, NEW a \in Accounts, NEW flag \in BOOLEAN,
           Get(c) \/ Refresh(c, a) \/ Continue(c) \/ MarkStatus(c, a, flag)
    PROVE  Starts(c)
<1> USE StoreConstants
<1>1. Listed \subseteq Entries
    BY DEF Listed, Entry, Entries, IsStored, TypeOK, Pools
<1>2. NoCall \in Calls /\ NoCall.at \notin Waiting
    BY DEF NoCall, Calls, Accounts, Waiting
<1>3. ASSUME NEW op \in {"get", "refresh", "rotate"}, NEW r \in Entries,
             NEW todo \in SUBSET Entries, RefreshAccount(c, op, r, todo)
      PROVE  Starts(c)
  <2> DEFINE j == [does |-> "refresh", account |-> r.account, pair |-> r.pair,
                   flag |-> op = "refresh", by |-> c]
             e == [at |-> "refreshing", op |-> op, account |-> r.account,
                   pair |-> r.pair, named |-> NoPair, todo |-> todo]
  <2>1. r.account \in Accounts /\ r.pair \in Pairs
      BY DEF Entries
  <2>2. e \in Calls /\ j \in Jobs
      BY <2>1 DEF Calls, Jobs
  <2>3. /\ call' = [call EXCEPT ![c] = e]
        /\ IF InFlight(r.account) THEN queue' = queue
           ELSE queue' = [queue EXCEPT ![Bot] = Append(@, j)]
      BY <1>3 DEF RefreshAccount, Chain
  <2>4. /\ e.at = "refreshing" /\ e.account = r.account
        /\ j.does = "refresh" /\ j.account = r.account
      OBVIOUS
  <2> HIDE DEF e, j
  <2> QED BY <2>2, <2>3, <2>4 DEF Starts
<1>4. CASE Get(c)
    BY <1>1, <1>3, <1>4 DEF Get
<1>5. CASE Refresh(c, a)
    BY <1>1, <1>3, <1>5 DEF Refresh
<1>6. ASSUME Return(c), queue' = queue PROVE Starts(c)
    BY <1>2, <1>6 DEF Return, Starts
<1>7. CASE AfterRefused(c)
  <2>1. CASE ~(Return(c) /\ queue' = queue)
    <3> DEFINE j == [does |-> "blame", account |-> call[c].account, flag |-> FALSE, by |-> c,
                     pair |-> IF call[c].named # NoPair THEN call[c].named ELSE call[c].pair]
               e == [call[c] EXCEPT !.at = "blaming"]
    <3>1. /\ call' = [call EXCEPT ![c] = e]
          /\ queue' = [queue EXCEPT ![Bot] = Append(@, j)]
        BY <1>7, <2>1 DEF AfterRefused, Chain
    <3>2. call[c] \in Calls
        BY DEF TypeOK
    <3>3. e \in Calls /\ e.at = "blaming" /\ j \in Jobs /\ j.does = "blame" /\ j.by = c
        BY <3>2 DEF Calls, Jobs
    <3> HIDE DEF e, j
    <3> QED BY <3>1, <3>3 DEF Starts
  <2> QED BY <1>6, <2>1
<1>8. CASE Rotate(c)
  <2> DEFINE candidates == IF call[c].op = "rotate" THEN call[c].todo
                           ELSE {r \in Listed : r.account # call[c].account}
  <2>1. candidates \in SUBSET Entries
      BY <1>1 DEF TypeOK, Calls
  <2>2. CASE ~(Return(c) /\ queue' = queue)
    <3>1. PICK r \in candidates : RefreshAccount(c, "rotate", r, candidates \ {r})
        BY <1>8, <2>2 DEF Rotate
    <3>2. r \in Entries /\ candidates \ {r} \in SUBSET Entries
        BY <2>1
    <3> HIDE DEF candidates
    <3> QED BY <1>3, <3>1, <3>2
  <2> QED BY <1>6, <2>2
<1>9. CASE MarkStatus(c, a, flag)
  <2> DEFINE j == [does |-> "mark", account |-> a, pair |-> NoPair, flag |-> flag, by |-> c]
             e == [NoCall EXCEPT !.at = "marking"]
  <2>1. /\ call' = [call EXCEPT ![c] = e]
        /\ queue' = [queue EXCEPT ![Bot] = Append(@, j)]
      BY <1>9 DEF MarkStatus, Chain
  <2>2. e \in Calls /\ e.at = "marking" /\ j \in Jobs /\ j.does = "mark" /\ j.by = c
      BY <1>2 DEF Calls, Jobs, NoCall
  <2> HIDE DEF e, j
  <2> QED BY <2>1, <2>2 DEF Starts
<1> QED BY <1>4, <1>5, <1>7, <1>8, <1>9 DEF Continue

\* A job appended to the chain leaves those before it in their places.
LEMMA Appended ==
    ASSUME NEW s \in Seq(Jobs), NEW j \in Jobs
    PROVE  /\ DOMAIN Append(s, j) = DOMAIN s \cup {Len(s) + 1}
           /\ Len(s) + 1 \notin DOMAIN s
           /\ Append(s, j)[Len(s) + 1] = j
           /\ \A i \in DOMAIN s : Append(s, j)[i] = s[i]
    BY AppendProperties, LenProperties

LEMMA StartsKeeps ==
    ASSUME TypeOK, NobodyForgotten, NEW c \in Callers, Starts(c)
    PROVE  NobodyForgotten'
<1> USE StoreConstants
<1>0. queue[Bot] \in Seq(Jobs)
    BY DEF TypeOK
<1>1. PICK r \in Calls :
        /\ call' = [call EXCEPT ![c] = r]
        /\ \/ r.at \notin Waiting /\ queue' = queue
           \/ r.at = "refreshing" /\ InFlight(r.account) /\ queue' = queue
           \/ \E j \in Jobs :
                 /\ queue' = [queue EXCEPT ![Bot] = Append(@, j)]
                 /\ \/ /\ r.at = "refreshing" /\ j.does = "refresh"
                       /\ j.account = r.account /\ ~InFlight(r.account)
                    \/ r.at = "blaming" /\ j.does = "blame" /\ j.by = c
                    \/ r.at = "marking" /\ j.does = "mark" /\ j.by = c
    BY DEF Starts
<1>2. call'[c] = r /\ \A d \in Callers : d # c => call'[d] = call[d]
    BY <1>1 DEF TypeOK
<1>3. CASE queue' = queue
  <2>1. r.at \in Waiting => \E i \in DOMAIN queue[Bot] : AwaitedBy(c, queue[Bot][i])'
    <3> SUFFICES ASSUME r.at \in Waiting
                 PROVE  \E i \in DOMAIN queue[Bot] : AwaitedBy(c, queue[Bot][i])'
        OBVIOUS
    <3>1. CASE r.at = "refreshing" /\ InFlight(r.account)
        BY <1>2, <1>3, <3>1 DEF InFlight, AwaitedBy
    <3>2. CASE ~(r.at = "refreshing" /\ InFlight(r.account))
      <4>1. PICK j \in Jobs : queue' = [queue EXCEPT ![Bot] = Append(@, j)]
          BY <1>1, <3>2
      <4>2. queue[Bot] = Append(queue[Bot], j)
          BY <1>3, <4>1 DEF TypeOK
      <4> QED BY <1>0, <4>2, Appended
    <3> QED BY <3>1, <3>2
  <2>2. \A d \in Callers : d # c /\ call'[d].at \in Waiting =>
           \E i \in DOMAIN queue'[Bot] : AwaitedBy(d, queue[Bot][i])'
      BY <1>2, <1>3 DEF NobodyForgotten, AwaitedBy, Waiting
  <2> QED BY <1>2, <1>3, <2>1, <2>2 DEF NobodyForgotten, Waiting
<1>4. ASSUME NEW j \in Jobs,
             queue' = [queue EXCEPT ![Bot] = Append(@, j)],
             \/ /\ r.at = "refreshing" /\ j.does = "refresh"
                /\ j.account = r.account /\ ~InFlight(r.account)
             \/ r.at = "blaming" /\ j.does = "blame" /\ j.by = c
             \/ r.at = "marking" /\ j.does = "mark" /\ j.by = c
      PROVE  NobodyForgotten'
  <2>1. queue'[Bot] = Append(queue[Bot], j)
      BY <1>4 DEF TypeOK
  <2>2. PICK n :
        /\ DOMAIN queue'[Bot] = DOMAIN queue[Bot] \cup {n}
        /\ n \notin DOMAIN queue[Bot]
        /\ queue'[Bot][n] = j
        /\ \A i \in DOMAIN queue[Bot] : queue'[Bot][i] = queue[Bot][i]
      BY <1>0, <2>1, Appended
  <2>3. AwaitedBy(c, queue[Bot][n])'
      BY <1>2, <1>4, <2>2 DEF AwaitedBy
  <2>4. ASSUME NEW d \in Callers, d # c, call'[d].at \in Waiting
        PROVE  \E i \in DOMAIN queue'[Bot] : AwaitedBy(d, queue[Bot][i])'
    <3>1. PICK i \in DOMAIN queue[Bot] : AwaitedBy(d, queue[Bot][i])
        BY <1>2, <2>4 DEF NobodyForgotten, Waiting
    <3>2. AwaitedBy(d, queue[Bot][i])'
        BY <1>2, <2>2, <2>4, <3>1 DEF AwaitedBy
    <3> QED BY <2>2, <3>2
  <2>5. ASSUME NEW b \in Accounts, NEW i \in DOMAIN queue'[Bot], NEW k \in DOMAIN queue'[Bot],
               queue'[Bot][i].does = "refresh", queue'[Bot][i].account = b,
               queue'[Bot][k].does = "refresh", queue'[Bot][k].account = b
        PROVE  i = k
    <3>1. CASE i # n /\ k # n
        BY <2>2, <2>5, <3>1 DEF NobodyForgotten
    <3>2. ASSUME NEW h \in DOMAIN queue[Bot], queue[Bot][h].does = "refresh",
                 queue[Bot][h].account = b
          PROVE  j.does = "refresh" => j.account # b
        BY <1>4, <3>2 DEF InFlight
    <3> QED BY <2>2, <2>5, <3>1, <3>2
  <2> QED BY <2>2, <2>3, <2>4, <2>5 DEF NobodyForgotten, Waiting
<1> QED BY <1>1, <1>3, <1>4

\* The end of a job of the bot wakes everyone who waited for it.
LEMMA SettleKeeps ==
    ASSUME TypeOK, NobodyForgotten, queue[Bot] # <<>>, NEW won, Settle(Bot, won)
    PROVE  NobodyForgotten'
<1> USE StoreConstants
<1> DEFINE s == queue[Bot]
<1>1. s \in Seq(Jobs) /\ s # <<>>
    BY DEF TypeOK
<1>2. /\ queue'[Bot] = Tail(s) /\ MyJob(Bot) = s[1]
      /\ \A c \in Callers : call'[c] = Resumed(MyJob(Bot), won)[c]
    BY HeadTailProperties, <1>1 DEF Settle, MyJob, TypeOK
<1>3. /\ 1 \in DOMAIN s
      /\ \A i \in DOMAIN s : i # 1 => i - 1 \in DOMAIN Tail(s) /\ Tail(s)[i - 1] = s[i]
      /\ \A i \in DOMAIN Tail(s) : i + 1 \in DOMAIN s /\ Tail(s)[i] = s[i + 1]
      /\ \A i, k \in DOMAIN Tail(s) : i + 1 = k + 1 => i = k
    BY <1>1, HeadTailProperties, LenProperties
<1>4. ASSUME NEW c \in Callers, call'[c].at \in Waiting
      PROVE  \E i \in DOMAIN queue'[Bot] : AwaitedBy(c, queue[Bot][i])'
  <2>0. call'[c] =
          IF AwaitsRefresh(c, s[1])
          THEN IF won THEN NoCall
               ELSE [call[c] EXCEPT !.at = "refused", !.named = tried[Bot]]
          ELSE IF c = s[1].by /\ s[1].does = "blame" /\ won
               THEN [call[c] EXCEPT !.at = "blamed"]
          ELSE IF c = s[1].by /\ s[1].does # "refresh" THEN NoCall
          ELSE call[c]
      BY <1>2, Zenon DEF Resumed
  <2>r. /\ [call[c] EXCEPT !.at = "refused", !.named = tried[Bot]].at = "refused"
        /\ [call[c] EXCEPT !.at = "blamed"].at = "blamed"
      BY DEF TypeOK, Calls
  <2>1. call'[c] = call[c] /\ ~AwaitsRefresh(c, s[1])
      BY <1>4, <2>0, <2>r DEF NoCall, Waiting
  <2>2. ~(c = s[1].by /\ s[1].does # "refresh")
      BY <1>4, <2>0, <2>r, <2>1 DEF NoCall, Waiting
  <2>3. PICK i \in DOMAIN s : AwaitedBy(c, s[i])
      BY <1>4, <2>1 DEF NobodyForgotten, Waiting
  <2>4. i # 1
      BY <2>1, <2>2, <2>3 DEF AwaitedBy, AwaitsRefresh
  <2>5. i - 1 \in DOMAIN queue'[Bot] /\ queue'[Bot][i - 1] = s[i]
      BY <1>2, <1>3, <2>4
  <2>6. AwaitedBy(c, queue[Bot][i - 1])'
      BY <2>1, <2>3, <2>5 DEF AwaitedBy
  <2> QED BY <2>5, <2>6
<1>5. ASSUME NEW b \in Accounts, NEW i \in DOMAIN queue'[Bot], NEW k \in DOMAIN queue'[Bot],
             queue'[Bot][i].does = "refresh", queue'[Bot][i].account = b,
             queue'[Bot][k].does = "refresh", queue'[Bot][k].account = b
      PROVE  i = k
  <2>1. /\ i + 1 \in DOMAIN s /\ queue'[Bot][i] = s[i + 1]
        /\ k + 1 \in DOMAIN s /\ queue'[Bot][k] = s[k + 1]
      BY <1>2, <1>3
  <2>2. i + 1 = k + 1
      BY <1>5, <2>1 DEF NobodyForgotten
  <2> QED BY <1>2, <1>3, <2>2
<1> QED BY <1>4, <1>5 DEF NobodyForgotten, Waiting

LEMMA NobodyStep == Typed /\ NobodyForgotten /\ [Next]_vars => NobodyForgotten'
<1> SUFFICES ASSUME Typed, NobodyForgotten, [Next]_vars PROVE NobodyForgotten'
    OBVIOUS
<1> USE StoreConstants
<1>0. TypeOK /\ Busy
    BY DEF Typed
<1>1. ASSUME UNCHANGED <<call, queue[Bot]>> PROVE NobodyForgotten'
    BY <1>1 DEF NobodyForgotten, AwaitedBy
<1>2. ASSUME NEW c \in Callers, NEW a \in Accounts, NEW flag \in BOOLEAN,
             Get(c) \/ Refresh(c, a) \/ Continue(c) \/ MarkStatus(c, a, flag)
      PROVE  NobodyForgotten'
  <2>1. Starts(c)
      BY <1>0, <1>2, RequestStarts
  <2> QED BY <1>0, <2>1, StartsKeeps
<1>3. ASSUME NEW c \in Callers, Get(c) \/ Continue(c) PROVE NobodyForgotten'
  <2>1. 1 \in Accounts /\ TRUE \in BOOLEAN
      BY DEF Accounts
  <2> QED BY <1>2, <1>3, <2>1
<1>4. ASSUME NEW c \in Callers, NEW a \in Accounts, Refresh(c, a) PROVE NobodyForgotten'
  <2>1. TRUE \in BOOLEAN
      OBVIOUS
  <2> QED BY <1>2, <1>4, <2>1
<1>5. ASSUME NEW p \in Procs, NEW a \in Accounts, Upsert(p, a) \/ Remove(p, a)
      PROVE  NobodyForgotten'
  <2>1. p # Bot /\ UNCHANGED call
      BY <1>5 DEF Upsert, Remove
  <2>2. queue'[Bot] = queue[Bot]
      BY <1>0, <1>5, <2>1 DEF Upsert, Remove, Chain, TypeOK
  <2> QED BY <1>1, <2>1, <2>2
<1>6. ASSUME NEW p \in Procs, NoLockForJob(p) \/ Release(p) PROVE NobodyForgotten'
  <2>1. queue[p] # <<>>
      BY <1>0, <1>6 DEF NoLockForJob, Release, Busy
  <2>2. PICK won \in BOOLEAN : Settle(p, won)
      BY <1>6 DEF NoLockForJob, Release
  <2>3. CASE p = Bot
      BY <1>0, <2>1, <2>2, <2>3, SettleKeeps
  <2>4. CASE p # Bot
    <3>1. queue'[Bot] = queue[Bot] /\ UNCHANGED call
        BY <1>0, <2>2, <2>4 DEF Settle, TypeOK
    <3> QED BY <1>1, <3>1
  <2> QED BY <2>3, <2>4
<1>7. ASSUME NEW p \in Procs, Crash(p) PROVE NobodyForgotten'
  <2>1. CASE p = Bot
    <3>1. queue'[Bot] = <<>> /\ \A c \in Callers : call'[c] = NoCall
        BY <1>0, <1>7, <2>1 DEF Crash, TypeOK
    <3>2. DOMAIN queue'[Bot] = {}
        BY <3>1
    <3> QED BY <3>1, <3>2 DEF NobodyForgotten, NoCall
  <2>2. CASE p # Bot
    <3>1. queue'[Bot] = queue[Bot] /\ UNCHANGED call
        BY <1>0, <1>7, <2>2 DEF Crash, TypeOK
    <3> QED BY <1>1, <3>1
  <2> QED BY <2>1, <2>2
<1>8. ASSUME NEW p \in Procs,
             \/ Acquire(p) \/ Read(p) \/ Accepted(p) \/ AnswerLost(p) \/ Refused(p)
             \/ Write(p) \/ WriteFails(p) \/ BeginRelease(p)
      PROVE  NobodyForgotten'
  <2>1. UNCHANGED <<queue, call>>
      BY <1>8 DEF Acquire, Read, Accepted, AnswerLost, Refused, Write, WriteFails, BeginRelease
  <2> QED BY <1>1, <2>1
<1>9. ASSUME LockAges \/ UNCHANGED vars \/ \E n \in Pairs : Age(n) PROVE NobodyForgotten'
  <2>1. UNCHANGED <<queue, call>>
      BY <1>9 DEF LockAges, Age, vars
  <2> QED BY <1>1, <2>1
<1> QED BY <1>2, <1>3, <1>4, <1>5, <1>6, <1>7, <1>8, <1>9 DEF Next, JobStep

\* Callers share a refresh: never two of an account in the chain, and every
\* request that waits has the job it waits for still in the chain, for any
\* number of requests, accounts, processes and crashes.
THEOREM RefreshShared == Spec => []NobodyForgotten
<1>1. Init => Typed /\ NobodyForgotten
  <2>1. Init => NobodyForgotten
    <3> SUFFICES ASSUME Init PROVE NobodyForgotten
        OBVIOUS
    <3>1. queue[Bot] = <<>> /\ \A c \in Callers : call[c] = NoCall
        BY StoreConstants DEF Init
    <3>2. DOMAIN queue[Bot] = {}
        BY <3>1
    <3> QED BY <3>1, <3>2 DEF NobodyForgotten, NoCall
  <2> QED BY <2>1, TypedInit
<1>2. Typed /\ NobodyForgotten /\ [Next]_vars => Typed' /\ NobodyForgotten'
    BY TypedStep, NobodyStep
<1> QED BY <1>1, <1>2, PTL DEF Spec
====
