---- MODULE WorkspacePool ----
(***************************************************************************)
(* sandbox/workspaceRuntime.js: the pool that gives each workspace one     *)
(* Docker container, against commands, dying containers, the idle reaper,  *)
(* shutdown of one workspace and of all, and the clean-up at start.        *)
(*                                                                         *)
(* _pool maps a workspace to a generation: the promise of a boot, which    *)
(* resolves to an entry, or of a closing, which resolves to null.  What    *)
(* runs between two awaits is one step; a settled promise resumes each of  *)
(* its waiters in a step of its own.                                       *)
(***************************************************************************)
EXTENDS Integers, FiniteSets

CONSTANTS
    Workspaces,
    Callers,      \* commands: callers of execInWorkspace
    Gens,         \* promises; their number bounds a behaviour
    NoGen,        \* neither a workspace nor a generation
    Cap,          \* SANDBOX_MAX_CONTAINERS
    IdleTTL,      \* SANDBOX_IDLE_TTL_MS, in ticks
    CmdMax,       \* a command's host-side ceiling, in ticks
    MaxShutdowns  \* bound on calls of shutdown(workspaceId)

ASSUME PoolConstants ==
    /\ NoGen \notin Workspaces \cup Gens
    /\ Cap \in Nat
    /\ IdleTTL \in Nat
    /\ CmdMax \in Nat
    /\ CmdMax <= IdleTTL
    /\ MaxShutdowns \in Nat

VARIABLES
    pool,      \* _pool
    gen,       \* every generation made
    box,       \* the container a boot made, named by its boot
    age,       \* ticks since the entry's lastUsedAt
    lost,      \* containers whose failed removal nobody will try again
    call,      \* where each caller of execInWorkspace stands
    stopping,  \* _shuttingDown
    cleanup,   \* cleanupOrphanContainers: before its listing, or the containers listed
    shutdowns

poolVars == <<pool, gen, box, age, lost, call, stopping, cleanup, shutdowns>>

NotMade == [phase |-> "unused", kind |-> "none", ws |-> NoGen, prev |-> NoGen, victim |-> NoGen]
NoCall == [pc |-> "idle", ws |-> NoGen, on |-> NoGen, entry |-> NoGen, ran |-> 0]
Phases == {"unused", "waiting", "killing", "spawning", "ok", "failed"}
GenKinds == {"none", "boot", "shutdown", "shutdownAll", "reap"}

PoolTypeOK ==
    /\ pool \in [Workspaces -> Gens \cup {NoGen}]
    /\ gen \in [Gens -> [phase : Phases, kind : GenKinds, ws : Workspaces \cup {NoGen},
                         prev : Gens \cup {NoGen}, victim : Gens \cup {NoGen}]]
    /\ box \in [Gens -> {"none", "up", "dead"}]
    /\ age \in [Gens -> 0..IdleTTL + 1]
    /\ lost \subseteq Gens
    /\ call \in [Callers -> [pc : {"idle", "await", "probe", "replace", "run"},
                             ws : Workspaces \cup {NoGen}, on : Gens \cup {NoGen},
                             entry : Gens \cup {NoGen}, ran : 0..CmdMax]]
    /\ stopping \in BOOLEAN
    /\ cleanup \in [listed : BOOLEAN, boxes : SUBSET Gens]
    /\ shutdowns \in 0..MaxShutdowns

PoolInit ==
    /\ pool = [w \in Workspaces |-> NoGen]
    /\ gen = [g \in Gens |-> NotMade]
    /\ box = [g \in Gens |-> "none"]
    /\ age = [g \in Gens |-> 0]
    /\ lost = {}
    /\ call = [c \in Callers |-> NoCall]
    /\ stopping = FALSE
    /\ cleanup = [listed |-> FALSE, boxes |-> {}]
    /\ shutdowns = 0

(***************************************************************************)
(* Generations.                                                            *)
(***************************************************************************)
Settled(g) == gen[g].phase \in {"ok", "failed"}

(* What awaiting a generation gives: a boot its own container, a closing   *)
(* null.                                                                   *)
EntryOf(g) == IF gen[g].kind = "boot" THEN g ELSE NoGen

Pooled == {w \in Workspaces : pool[w] # NoGen}

\* Fault: the cap is off by one.
AdmitsOneMore == Cardinality(Pooled) <= Cap

Admits == Cardinality(Pooled) < Cap
CommandIn(e) == \E c \in Callers : call[c].pc = "run" /\ call[c].entry = e

Unused == {g \in Gens : gen[g].phase = "unused"}

(* _replacePoolGeneration, once pool.get(key) === expected is known: the   *)
(* new generation takes the place of the expected one.  Which of the       *)
(* unused names it gets is immaterial.                                     *)
Replace(g, w, kind, phase, victim) ==
    /\ g \in Unused /\ g = CHOOSE h \in Unused : TRUE
    /\ gen' = [gen EXCEPT ![g] = [phase |-> phase, kind |-> kind, ws |-> w,
                                  prev |-> pool[w], victim |-> victim]]
    /\ pool' = [pool EXCEPT ![w] = g]

\* Fault: a failed closing frees its key.
RestoredToNothing(g) ==
    IF pool[gen[g].ws] = g THEN [pool EXCEPT ![gen[g].ws] = NoGen] ELSE pool

(* The generation's own catch: one that is still current gives the key back*)
(* to the generation it replaced; one that is not leaves whatever it could *)
(* not remove to nobody.                                                   *)
Restored(g) ==
    IF pool[gen[g].ws] = g THEN [pool EXCEPT ![gen[g].ws] = gen[g].prev] ELSE pool

FailGen(g) ==
    /\ gen' = [gen EXCEPT ![g].phase = "failed"]
    /\ pool' = Restored(g)

(***************************************************************************)
(* Boots: _bootGeneration, _spawnContainer.                                *)
(***************************************************************************)
Boot(g, w, stale) ==
    Replace(g, w, "boot", IF stale = NoGen THEN "spawning" ELSE "killing", stale)

SpawnOK(g) ==
    /\ gen[g].phase = "spawning"
    /\ gen' = [gen EXCEPT ![g].phase = "ok"]
    /\ box' = [box EXCEPT ![g] = "up"]
    /\ age' = [age EXCEPT ![g] = 0]
    /\ UNCHANGED <<pool, lost, call, stopping, cleanup, shutdowns>>

(* A failed spawn removes what it made, as far as Docker lets it.          *)
SpawnFails(g) ==
    /\ gen[g].phase = "spawning"
    /\ FailGen(g)
    /\ \/ UNCHANGED <<box, lost>>
       \/ box' = [box EXCEPT ![g] = "up"] /\ lost' = lost \cup {g}
    /\ UNCHANGED <<age, call, stopping, cleanup, shutdowns>>

(***************************************************************************)
(* _killEntry, by a boot of its stale entry or by a closing.  A container  *)
(* that is gone already counts as removed.                                 *)
(***************************************************************************)
KillOK(g) ==
    /\ gen[g].phase = "killing"
    /\ gen' = [gen EXCEPT ![g].phase = IF gen[g].kind = "boot" THEN "spawning" ELSE "ok"]
    /\ box' = [box EXCEPT ![gen[g].victim] = "dead"]
    /\ UNCHANGED <<pool, age, lost, call, stopping, cleanup, shutdowns>>

KillFails(g) ==
    /\ gen[g].phase = "killing"
    /\ IF gen[g].kind = "shutdownAll"
       THEN gen' = [gen EXCEPT ![g].phase = "ok"] /\ UNCHANGED pool
       ELSE FailGen(g)
    /\ lost' = IF gen[g].kind = "shutdownAll" \/ pool[gen[g].ws] # g
               THEN lost \cup {gen[g].victim} ELSE lost
    /\ UNCHANGED <<box, age, call, stopping, cleanup, shutdowns>>

(***************************************************************************)
(* getOrCreate and execInWorkspace.                                        *)
(***************************************************************************)
(* The top of the loop: refuse at the cap, boot, or wait for the current   *)
(* generation.  _shuttingDown is not looked at again.                      *)
LoopTop(c, w) ==
    \/ /\ pool[w] = NoGen /\ ~Admits
       /\ call' = [call EXCEPT ![c] = NoCall]
       /\ UNCHANGED <<pool, gen>>
    \/ /\ pool[w] = NoGen /\ Admits
       /\ \E g \in Gens :
            /\ Boot(g, w, NoGen)
            /\ call' = [call EXCEPT ![c] = [NoCall EXCEPT !.pc = "await", !.ws = w, !.on = g]]
    \/ /\ pool[w] # NoGen
       /\ call' = [call EXCEPT ![c] = [NoCall EXCEPT !.pc = "await", !.ws = w, !.on = pool[w]]]
       /\ UNCHANGED <<pool, gen>>

Exec(c, w) ==
    /\ call[c].pc = "idle"
    /\ ~stopping
    /\ LoopTop(c, w)
    /\ UNCHANGED <<box, age, lost, stopping, cleanup, shutdowns>>

(* _replacePoolGeneration for a replacement: the caller's own boot when    *)
(* nothing took the place of the generation it waited for, otherwise the   *)
(* generation that did, and with none there the loop again.                *)
Replacement(c, stale) ==
    LET w == call[c].ws
        WaitFor(g) == call' = [call EXCEPT ![c].pc = "replace", ![c].on = g, ![c].entry = NoGen]
    IN \/ /\ pool[w] = call[c].on
          /\ \E g \in Gens : Boot(g, w, stale) /\ WaitFor(g)
       \/ /\ pool[w] \notin {call[c].on, NoGen}
          /\ WaitFor(pool[w])
          /\ UNCHANGED <<pool, gen>>
       \/ pool[w] = NoGen /\ LoopTop(c, w)

(* const entry = await pending                                             *)
Awaited(c) ==
    LET g == call[c].on
        w == call[c].ws
    IN /\ call[c].pc = "await"
       /\ Settled(g)
       /\ \/ /\ gen[g].phase = "failed"
             /\ pool' = [pool EXCEPT ![w] = IF @ = g THEN NoGen ELSE @]
             /\ call' = [call EXCEPT ![c] = NoCall]
             /\ UNCHANGED gen
          \/ gen[g].phase = "ok" /\ pool[w] # g /\ LoopTop(c, w)
          \/ /\ gen[g].phase = "ok" /\ pool[w] = g /\ EntryOf(g) # NoGen
             /\ call' = [call EXCEPT ![c].pc = "probe", ![c].entry = EntryOf(g)]
             /\ UNCHANGED <<pool, gen>>
          \/ gen[g].phase = "ok" /\ pool[w] = g /\ EntryOf(g) = NoGen /\ Replacement(c, NoGen)
       /\ UNCHANGED <<box, age, lost, stopping, cleanup, shutdowns>>

(* _isAlive: true only for a container that is up; false also when the     *)
(* inspection itself fails.                                                *)
ProbeAlive(c) ==
    LET e == call[c].entry
    IN /\ call[c].pc = "probe"
       /\ box[e] = "up"
       /\ \/ /\ pool[call[c].ws] = call[c].on
             /\ call' = [call EXCEPT ![c].pc = "run"]
             /\ age' = [age EXCEPT ![e] = 0]
             /\ UNCHANGED <<pool, gen>>
          \/ /\ pool[call[c].ws] # call[c].on
             /\ LoopTop(c, call[c].ws)
             /\ UNCHANGED age
       /\ UNCHANGED <<box, lost, stopping, cleanup, shutdowns>>

ProbeDead(c) ==
    /\ call[c].pc = "probe"
    /\ Replacement(c, call[c].entry)
    /\ UNCHANGED <<box, age, lost, stopping, cleanup, shutdowns>>

(* return await replacement: with a generation another made, its entry is  *)
(* not looked at, and a closing's is null, which execInWorkspace trips on. *)
GotReplacement(c) ==
    LET g == call[c].on
        w == call[c].ws
    IN /\ call[c].pc = "replace"
       /\ Settled(g)
       /\ \/ /\ gen[g].phase = "failed"
             /\ pool' = [pool EXCEPT ![w] = IF @ = g THEN NoGen ELSE @]
             /\ call' = [call EXCEPT ![c] = NoCall]
             /\ UNCHANGED age
          \/ /\ gen[g].phase = "ok" /\ EntryOf(g) = NoGen
             /\ call' = [call EXCEPT ![c] = NoCall]
             /\ UNCHANGED <<pool, age>>
          \/ /\ gen[g].phase = "ok" /\ EntryOf(g) # NoGen
             /\ call' = [call EXCEPT ![c].pc = "run", ![c].entry = g]
             /\ age' = [age EXCEPT ![g] = 0]
             /\ UNCHANGED pool
       /\ UNCHANGED <<gen, box, lost, stopping, cleanup, shutdowns>>

(* The command ends: its exit, its kill or the host-side timer.            *)
CommandEnds(c) ==
    /\ call[c].pc = "run"
    /\ age' = [age EXCEPT ![call[c].entry] = 0]
    /\ call' = [call EXCEPT ![c] = NoCall]
    /\ UNCHANGED <<pool, gen, box, lost, stopping, cleanup, shutdowns>>

(***************************************************************************)
(* shutdown, shutdownAll, the idle reaper.                                 *)
(***************************************************************************)
Shutdown(w) ==
    /\ shutdowns < MaxShutdowns
    /\ pool[w] # NoGen
    /\ \E g \in Gens : Replace(g, w, "shutdown", "waiting", NoGen)
    /\ shutdowns' = shutdowns + 1
    /\ UNCHANGED <<box, age, lost, call, stopping, cleanup>>

(* Both closings await the generation they replaced: its failure, or an    *)
(* entry that is null, leaves nothing to remove.                           *)
CloserProceeds(g) ==
    LET p == gen[g].prev
        nothing == gen[p].phase = "failed" \/ EntryOf(p) = NoGen
    IN /\ gen[g].phase = "waiting"
       /\ Settled(p)
       /\ gen' = [gen EXCEPT ![g].phase = IF nothing THEN "ok" ELSE "killing",
                             ![g].victim = IF nothing THEN NoGen ELSE EntryOf(p)]
       /\ UNCHANGED <<pool, box, age, lost, call, stopping, cleanup, shutdowns>>

(* A closing of one workspace, or of the reaper, frees its key once done.  *)
FreeKey(g) ==
    /\ gen[g].phase = "ok" /\ gen[g].kind \in {"shutdown", "reap"}
    /\ pool[gen[g].ws] = g
    /\ pool' = [pool EXCEPT ![gen[g].ws] = NoGen]
    /\ UNCHANGED <<gen, box, age, lost, call, stopping, cleanup, shutdowns>>

ShutdownAll ==
    /\ ~stopping
    /\ stopping' = TRUE
    /\ \E closer \in [Pooled -> Unused] :
         /\ \A v, w \in Pooled : v # w => closer[v] # closer[w]
         /\ gen' = [g \in Gens |->
                      IF \E w \in Pooled : closer[w] = g
                      THEN LET w == CHOOSE w \in Pooled : closer[w] = g
                           IN [phase |-> "waiting", kind |-> "shutdownAll", ws |-> w,
                               prev |-> pool[w], victim |-> NoGen]
                      ELSE gen[g]]
         /\ pool' = [w \in Workspaces |-> IF w \in Pooled THEN closer[w] ELSE NoGen]
    /\ UNCHANGED <<box, age, lost, call, cleanup, shutdowns>>

(* Promise.all over every closing, then each key that still holds its own. *)
FreeAll ==
    LET closers == {g \in Gens : gen[g].kind = "shutdownAll"}
    IN /\ closers # {} /\ \A g \in closers : gen[g].phase = "ok"
       /\ \E w \in Workspaces : pool[w] \in closers
       /\ pool' = [w \in Workspaces |-> IF pool[w] \in closers THEN NoGen ELSE pool[w]]
       /\ UNCHANGED <<gen, box, age, lost, call, stopping, cleanup, shutdowns>>

(* _reapIdleContainers: an entry not used for longer than the TTL, still   *)
(* the one in the pool.                                                    *)
Reap(w) ==
    LET p == pool[w]
    IN /\ p # NoGen
       /\ gen[p].phase = "ok" /\ EntryOf(p) # NoGen
       /\ age[p] > IdleTTL
       /\ \E g \in Gens : Replace(g, w, "reap", "killing", p)
       /\ UNCHANGED <<box, age, lost, call, stopping, cleanup, shutdowns>>

(***************************************************************************)
(* Docker, time, and the clean-up at start.                                *)
(***************************************************************************)
(* PID 1 of a container exits: out of memory, or the host.                 *)
ContainerDies(e) ==
    /\ box[e] = "up"
    /\ box' = [box EXCEPT ![e] = "dead"]
    /\ UNCHANGED <<pool, gen, age, lost, call, stopping, cleanup, shutdowns>>

\* Fault: no host-side timer.
NoTimer(c) == TRUE

WithinTimer(c) == call[c].ran < CmdMax

(* Time passes: Docker answers an inspection within a tick, and no command *)
(* outlasts its ceiling.                                                   *)
PoolTick ==
    /\ \A c \in Callers : call[c].pc # "probe"
    /\ \A c \in Callers : call[c].pc = "run" => WithinTimer(c)
    /\ \E g \in Gens : box[g] # "none" /\ age[g] <= IdleTTL
    /\ age' = [g \in Gens |-> IF box[g] # "none" /\ age[g] <= IdleTTL THEN age[g] + 1 ELSE age[g]]
    /\ call' = [c \in Callers |->
                  IF call[c].pc = "run" THEN [call[c] EXCEPT !.ran = @ + 1] ELSE call[c]]
    /\ UNCHANGED <<pool, gen, box, lost, stopping, cleanup, shutdowns>>

(* cleanupOrphanContainers runs once, in init, after the platforms are up. *)
(* It takes a container of its own process for an orphan.                  *)
ListOrphans ==
    /\ ~cleanup.listed
    /\ cleanup' = [listed |-> TRUE, boxes |-> {e \in Gens : box[e] = "up"}]
    /\ UNCHANGED <<pool, gen, box, age, lost, call, stopping, shutdowns>>

RemoveOrphan(e) ==
    /\ e \in cleanup.boxes
    /\ cleanup' = [cleanup EXCEPT !.boxes = @ \ {e}]
    /\ \/ box' = [box EXCEPT ![e] = "dead"]
       \/ UNCHANGED box
    /\ UNCHANGED <<pool, gen, age, lost, call, stopping, shutdowns>>

PoolNext ==
    \/ \E c \in Callers, w \in Workspaces : Exec(c, w)
    \/ \E c \in Callers :
         \/ Awaited(c) \/ ProbeAlive(c) \/ ProbeDead(c) \/ GotReplacement(c) \/ CommandEnds(c)
    \/ \E g \in Gens :
         \/ SpawnOK(g) \/ SpawnFails(g) \/ KillOK(g) \/ KillFails(g)
         \/ CloserProceeds(g) \/ FreeKey(g) \/ ContainerDies(g) \/ RemoveOrphan(g)
    \/ \E w \in Workspaces : Shutdown(w) \/ Reap(w)
    \/ ShutdownAll \/ FreeAll \/ PoolTick \/ ListOrphans

PoolSpec == PoolInit /\ [][PoolNext]_poolVars

(***************************************************************************)
(* Properties.                                                             *)
(***************************************************************************)
(* The containers the process still answers for.                           *)
Held(w) == {e \in Gens : box[e] = "up" /\ e \notin lost /\ gen[e].ws = w}

(* However boots, failed probes, failed removals and closings of one       *)
(* workspace overlap, two containers over the same directory are up only   *)
(* when a removal failed and nobody is left to try it again.               *)
OneContainer == \A w \in Workspaces : Cardinality(Held(w)) <= 1

(* The cap counts keys of the pool.  A key is not freed while its container *)
(* is up, but for removals that failed for good, so the host never holds   *)
(* more other containers than the cap.                                     *)
CapHolds == Cardinality(UNION {Held(w) : w \in Workspaces}) <= Cap

(* The reaper decides on a lastUsedAt written when a command starts and    *)
(* ends: it never starts to remove a container a command is running in.    *)
ReaperSparesCommands ==
    [][\A g \in Gens : gen'[g].kind = "reap" /\ gen[g].phase = "unused"
                         => ~CommandIn(gen'[g].victim)]_poolVars

(* getOrCreate's promise, "get (or spawn) the running container": a caller *)
(* is not answered with the null of a closing while the process goes on.   *)
CallerGetsContainer ==
    [][\A c \in Callers :
         call[c].pc = "replace" /\ call'[c].pc = "idle" /\ ~stopping
             => gen[call[c].on].phase = "failed"]_poolVars
====
