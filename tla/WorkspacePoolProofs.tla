---- MODULE WorkspacePoolProofs ----
(***************************************************************************)
(* For any number of workspaces, callers and containers and any limits     *)
(* that keep a command's ceiling within the idle TTL: the idle reaper      *)
(* never starts to remove a container a command runs in, a workspace never *)
(* has two containers at once, and the pool keeps to its cap.              *)
(*                                                                         *)
(* The reaper sees lastUsedAt only.  Fresh is what makes it tell: the age  *)
(* of an entry never passes the time the command in it has run.  What      *)
(* keeps containers apart is told at the second part.                      *)
(***************************************************************************)
EXTENDS WorkspacePool, FiniteSetTheorems, TLAPS

GenRecord == [phase : Phases, kind : GenKinds, ws : Workspaces \cup {NoGen},
              prev : Gens \cup {NoGen}, victim : Gens \cup {NoGen}]
CallRecord == [pc : {"idle", "await", "probe", "replace", "run"}, ws : Workspaces \cup {NoGen},
               on : Gens \cup {NoGen}, entry : Gens \cup {NoGen}, ran : 0..CmdMax]

(* A generation has a workspace, a closing something to wait for, a kill a *)
(* container.                                                              *)
GenFine(r) ==
    /\ r \in GenRecord
    /\ r.phase = "unused" => r.kind # "reap"
    /\ r.phase # "unused" => r.ws \in Workspaces
    /\ r.phase = "waiting" => r.prev \in Gens
    /\ r.phase = "killing" => r.victim \in Gens

GenOK ==
    /\ pool \in [Workspaces -> Gens \cup {NoGen}]
    /\ gen \in [Gens -> GenRecord]
    /\ \A g \in Gens : GenFine(gen[g])

(* A caller waits for a generation, and probes or runs in a container.     *)
CallFine(k) ==
    /\ k \in CallRecord
    /\ k.pc # "idle" => k.ws \in Workspaces /\ k.on \in Gens
    /\ k.pc \in {"probe", "run"} => k.entry \in Gens

CallOK ==
    /\ call \in [Callers -> CallRecord]
    /\ \A c \in Callers : CallFine(call[c])

Fresh == \A c \in Callers : call[c].pc = "run" => age[call[c].entry] <= call[c].ran

RestOK ==
    /\ box \in [Gens -> {"none", "up", "dead"}]
    /\ age \in [Gens -> 0..IdleTTL + 1]
    /\ lost \subseteq Gens
    /\ stopping \in BOOLEAN
    /\ cleanup \in [listed : BOOLEAN, boxes : SUBSET Gens]
    /\ shutdowns \in 0..MaxShutdowns

PoolInv == GenOK /\ CallOK /\ Fresh /\ RestOK

(* No generation made in this step is the reaper's.                        *)
NoNewReap == \A g \in Gens : gen[g].phase = "unused" => gen'[g].kind # "reap"

LEMMA InvTyped == PoolInv => PoolTypeOK
  BY DEF PoolInv, GenOK, CallOK, RestOK, PoolTypeOK, GenRecord, CallRecord

----
(* What the pieces of a step do. *)

LEMMA ReplaceFine ==
    ASSUME GenOK, NEW g \in Gens, NEW w \in Workspaces, NEW kind \in GenKinds, kind # "none",
           NEW phase \in {"waiting", "killing", "spawning"}, NEW victim \in Gens \cup {NoGen},
           phase = "waiting" => pool[w] \in Gens,
           phase = "killing" => victim \in Gens,
           Replace(g, w, kind, phase, victim)
    PROVE  GenOK' /\ (kind # "reap" => NoNewReap)
<1> DEFINE r == [phase |-> phase, kind |-> kind, ws |-> w, prev |-> pool[w], victim |-> victim]
<1>1. gen' = [gen EXCEPT ![g] = r] /\ pool' = [pool EXCEPT ![w] = g]
  BY DEF Replace
<1>2. pool[w] \in Gens \cup {NoGen}
  BY DEF GenOK
<1>3. GenFine(r)
  BY <1>2 DEF GenFine, GenRecord, Phases
<1>4. \A h \in Gens : gen'[h] = IF h = g THEN r ELSE gen[h]
  BY <1>1 DEF GenOK
<1>5. gen' \in [Gens -> GenRecord]
  BY <1>1, <1>3 DEF GenOK, GenFine
<1>6. GenOK'
  <2>1. \A h \in Gens : GenFine(gen'[h])
    BY <1>3, <1>4 DEF GenOK
  <2>2. pool' \in [Workspaces -> Gens \cup {NoGen}]
    BY <1>1 DEF GenOK
  <2> QED
    BY <1>5, <2>1, <2>2 DEF GenOK, GenFine
<1>7. kind # "reap" => NoNewReap
  BY <1>4 DEF NoNewReap, GenOK, GenFine
<1> QED
  BY <1>6, <1>7

LEMMA BootFine ==
    ASSUME GenOK, NEW g \in Gens, NEW w \in Workspaces, NEW stale \in Gens \cup {NoGen}, Boot(g, w, stale)
    PROVE  GenOK' /\ NoNewReap
<1> DEFINE phase == IF stale = NoGen THEN "spawning" ELSE "killing"
<1>1. phase \in {"waiting", "killing", "spawning"} /\ phase # "waiting"
      /\ (phase = "killing" => stale \in Gens)
  BY DEF phase
<1>2. Replace(g, w, "boot", phase, stale)
  BY DEF Boot
<1>3. "boot" \in GenKinds /\ "boot" # "none" /\ "boot" # "reap"
  BY DEF GenKinds
<1> HIDE DEF phase
<1> QED
  BY <1>1, <1>2, <1>3, ReplaceFine

LEMMA IdleFine == CallFine(NoCall) /\ NoCall.pc = "idle" /\ NoCall.ran = 0
<1>1. 0 \in 0..CmdMax
  BY PoolConstants
<1> QED
  BY <1>1 DEF CallFine, CallRecord, NoCall

LEMMA AwaitFine ==
    ASSUME NEW w \in Workspaces, NEW g \in Gens
    PROVE  CallFine([NoCall EXCEPT !.pc = "await", !.ws = w, !.on = g])
           /\ [NoCall EXCEPT !.pc = "await", !.ws = w, !.on = g].pc # "run"
<1>1. 0 \in 0..CmdMax
  BY PoolConstants
<1> QED
  BY <1>1 DEF CallFine, CallRecord, NoCall

(* A step of one caller that ends in no command leaves the rest in order.  *)
LEMMA CallerStep ==
    ASSUME CallOK, Fresh, NEW c \in Callers, NEW k, CallFine(k), k.pc # "run",
           call' = [call EXCEPT ![c] = k], UNCHANGED age
    PROVE  CallOK' /\ Fresh'
<1>1. \A d \in Callers : call'[d] = IF d = c THEN k ELSE call[d]
  BY DEF CallOK
<1>2. call' \in [Callers -> CallRecord]
  BY DEF CallOK, CallFine
<1>3. \A d \in Callers : CallFine(call'[d])
  BY <1>1 DEF CallOK
<1>4. Fresh'
  BY <1>1 DEF Fresh
<1> QED
  BY <1>2, <1>3, <1>4 DEF CallOK, CallFine

(* So does one whose command begins or ends: lastUsedAt is written.        *)
LEMMA CommandStep ==
    ASSUME CallOK, Fresh, age \in [Gens -> 0..IdleTTL + 1], NEW c \in Callers, NEW e \in Gens, NEW k,
           CallFine(k), k.pc = "run" => k.entry = e,
           call' = [call EXCEPT ![c] = k], age' = [age EXCEPT ![e] = 0]
    PROVE  CallOK' /\ Fresh' /\ age' \in [Gens -> 0..IdleTTL + 1]
<1>1. \A d \in Callers : call'[d] = IF d = c THEN k ELSE call[d]
  BY DEF CallOK
<1>2. call' \in [Callers -> CallRecord]
  BY DEF CallOK, CallFine
<1>3. \A d \in Callers : CallFine(call'[d])
  BY <1>1 DEF CallOK
<1>4. CallOK'
  BY <1>2, <1>3 DEF CallOK, CallFine
<1>5. 0 \in 0..IdleTTL + 1
  BY PoolConstants
<1>6. age' \in [Gens -> 0..IdleTTL + 1]
  BY <1>5
<1>7. Fresh'
  <2> SUFFICES ASSUME NEW d \in Callers, call'[d].pc = "run"
               PROVE  age'[call'[d].entry] <= call'[d].ran
    BY DEF Fresh
  <2>1. CASE d = c
    <3>1. k.ran \in 0..CmdMax
      BY DEF CallFine, CallRecord
    <3> QED
      BY <1>1, <2>1, <3>1, PoolConstants
  <2>2. CASE d # c
    <3>1. call'[d] = call[d] /\ CallFine(call[d])
      BY <1>1, <2>2 DEF CallOK
    <3>2. call[d].ran \in 0..CmdMax /\ call[d].entry \in Gens /\ age[call[d].entry] <= call[d].ran
      BY <3>1 DEF Fresh, CallFine, CallRecord
    <3> QED
      BY <3>1, <3>2, PoolConstants
  <2> QED
    BY <2>1, <2>2
<1> QED
  BY <1>4, <1>6, <1>7

LEMMA LoopFine ==
    ASSUME PoolInv, NEW c \in Callers, NEW w \in Workspaces, LoopTop(c, w), UNCHANGED age
    PROVE  GenOK' /\ NoNewReap /\ CallOK' /\ Fresh'
<1>1. CASE call' = [call EXCEPT ![c] = NoCall] /\ UNCHANGED <<pool, gen>>
  BY <1>1, IdleFine, CallerStep DEF PoolInv, GenOK, GenFine, NoNewReap
<1>2. CASE \E g \in Gens : /\ Boot(g, w, NoGen)
                           /\ call' = [call EXCEPT ![c] = [NoCall EXCEPT !.pc = "await", !.ws = w, !.on = g]]
  <2>1. PICK g \in Gens : /\ Boot(g, w, NoGen)
                          /\ call' = [call EXCEPT ![c] = [NoCall EXCEPT !.pc = "await", !.ws = w, !.on = g]]
    BY <1>2
  <2>2. GenOK' /\ NoNewReap
    BY <2>1, BootFine DEF PoolInv
  <2>3. CallOK' /\ Fresh'
    BY <2>1, AwaitFine, CallerStep DEF PoolInv
  <2> QED
    BY <2>2, <2>3
<1>3. CASE /\ pool[w] # NoGen
           /\ call' = [call EXCEPT ![c] = [NoCall EXCEPT !.pc = "await", !.ws = w, !.on = pool[w]]]
           /\ UNCHANGED <<pool, gen>>
  <2>1. pool[w] \in Gens
    BY <1>3 DEF PoolInv, GenOK
  <2>2. CallOK' /\ Fresh'
    BY <1>3, <2>1, AwaitFine, CallerStep DEF PoolInv
  <2>3. GenOK' /\ NoNewReap
    BY <1>3 DEF PoolInv, GenOK, GenFine, NoNewReap
  <2> QED
    BY <2>2, <2>3
<1> QED
  BY <1>1, <1>2, <1>3 DEF LoopTop

LEMMA ReplacementFine ==
    ASSUME PoolInv, NEW c \in Callers, call[c].pc # "idle", NEW stale \in Gens \cup {NoGen},
           Replacement(c, stale), UNCHANGED age
    PROVE  GenOK' /\ NoNewReap /\ CallOK' /\ Fresh'
<1> DEFINE w == call[c].ws
           k(g) == [call[c] EXCEPT !.pc = "replace", !.on = g, !.entry = NoGen]
           WaitFor(g) == call' = [call EXCEPT ![c].pc = "replace", ![c].on = g, ![c].entry = NoGen]
<1>1. w \in Workspaces /\ CallFine(call[c])
  BY DEF PoolInv, CallOK, CallFine
<1>2. ASSUME NEW g \in Gens, WaitFor(g)
      PROVE  CallOK' /\ Fresh'
  <2>1. CallFine(k(g)) /\ k(g).pc # "run"
    BY <1>1 DEF CallFine, CallRecord
  <2>2. call' = [call EXCEPT ![c] = k(g)]
    BY <1>1, <1>2 DEF CallFine, CallRecord, PoolInv, CallOK
  <2> HIDE DEF k
  <2> QED
    BY <2>1, <2>2, CallerStep DEF PoolInv
<1>3. CASE \E g \in Gens : Boot(g, w, stale) /\ WaitFor(g)
  BY <1>1, <1>2, <1>3, BootFine DEF PoolInv
<1>4. CASE pool[w] \notin {call[c].on, NoGen} /\ WaitFor(pool[w]) /\ UNCHANGED <<pool, gen>>
  <2>1. pool[w] \in Gens
    BY <1>1, <1>4 DEF PoolInv, GenOK
  <2>2. GenOK' /\ NoNewReap
    BY <1>4 DEF PoolInv, GenOK, GenFine, NoNewReap
  <2> QED
    BY <1>2, <1>4, <2>1, <2>2
<1>5. CASE LoopTop(c, w)
  BY <1>1, <1>5, LoopFine
<1> QED
  BY <1>3, <1>4, <1>5 DEF Replacement

(* A step that changes one generation's phase to "ok", "failed" or         *)
(* "spawning", or gives a key of the pool back.                            *)
LEMMA PhaseFine ==
    ASSUME GenOK, NEW g \in Gens, gen[g].phase # "unused",
           NEW phase \in {"ok", "failed", "spawning"}, gen' = [gen EXCEPT ![g].phase = phase],
           pool' \in [Workspaces -> Gens \cup {NoGen}]
    PROVE  GenOK' /\ NoNewReap
<1> DEFINE r == [gen[g] EXCEPT !.phase = phase]
<1>1. GenFine(gen[g])
  BY DEF GenOK
<1>2. GenFine(r)
  BY <1>1 DEF GenFine, GenRecord, Phases
<1>3. gen' = [gen EXCEPT ![g] = r]
  BY DEF GenOK
<1>4. \A h \in Gens : gen'[h] = IF h = g THEN r ELSE gen[h]
  BY <1>3 DEF GenOK
<1>5. gen' \in [Gens -> GenRecord]
  BY <1>2, <1>3 DEF GenOK, GenFine
<1> HIDE DEF r
<1>6. \A h \in Gens : GenFine(gen'[h])
  BY <1>2, <1>4 DEF GenOK
<1>7. NoNewReap
  BY <1>4 DEF NoNewReap, GenOK, GenFine
<1> QED
  BY <1>5, <1>6, <1>7 DEF GenOK, GenFine

LEMMA RestoredFine ==
    ASSUME GenOK, NEW g \in Gens, gen[g].phase # "unused"
    PROVE  Restored(g) \in [Workspaces -> Gens \cup {NoGen}]
  BY DEF GenOK, GenFine, GenRecord, Restored

LEMMA FreedFine ==
    ASSUME GenOK, NEW w \in Workspaces, NEW g
    PROVE  [pool EXCEPT ![w] = IF @ = g THEN NoGen ELSE @] \in [Workspaces -> Gens \cup {NoGen}]
  BY DEF GenOK

LEMMA GenFrame == GenOK /\ UNCHANGED gen /\ pool' \in [Workspaces -> Gens \cup {NoGen}] => GenOK' /\ NoNewReap
  BY DEF GenOK, GenFine, NoNewReap
LEMMA CallFrame == CallOK /\ UNCHANGED call => CallOK'
  BY DEF CallOK, CallFine
LEMMA FreshFrame == Fresh /\ UNCHANGED <<call, age>> => Fresh'
  BY DEF Fresh

----
(* One step. *)

LEMMA InitInv == PoolInit => PoolInv
<1> SUFFICES ASSUME PoolInit PROVE PoolInv
  OBVIOUS
<1>1. GenFine(NotMade)
  BY DEF GenFine, GenRecord, NotMade, Phases, GenKinds
<1>2. GenOK
  BY <1>1 DEF PoolInit, GenOK, GenFine
<1>3. CallOK
  BY IdleFine DEF PoolInit, CallOK, CallFine
<1>4. Fresh
  BY IdleFine DEF PoolInit, Fresh
<1>5. 0 \in 0..IdleTTL + 1 /\ 0 \in 0..MaxShutdowns
  BY PoolConstants
<1>6. RestOK
  BY <1>5 DEF PoolInit, RestOK
<1> QED
  BY <1>2, <1>3, <1>4, <1>6 DEF PoolInv

LEMMA CallerKeeps ==
    ASSUME PoolInv, NEW c \in Callers,
           (\E w \in Workspaces : Exec(c, w)) \/ Awaited(c) \/ ProbeAlive(c) \/ ProbeDead(c)
              \/ GotReplacement(c) \/ CommandEnds(c)
    PROVE  PoolInv' /\ NoNewReap
<1> USE DEF PoolInv
<1>0. CallFine(call[c]) /\ call[c] \in CallRecord
  BY DEF CallOK
<1>1. CASE \E w \in Workspaces : Exec(c, w)
  <2>1. PICK w \in Workspaces : Exec(c, w)
    BY <1>1
  <2>2. GenOK' /\ NoNewReap /\ CallOK' /\ Fresh'
    BY <2>1, LoopFine DEF Exec
  <2> QED
    BY <2>1, <2>2 DEF Exec, RestOK
<1>2. CASE Awaited(c)
  <2> DEFINE g == call[c].on
             w == call[c].ws
  <2>0. g \in Gens /\ w \in Workspaces /\ call[c].pc # "idle"
    BY <1>0, <1>2 DEF Awaited, CallFine
  <2>1. UNCHANGED <<box, age, lost, stopping, cleanup, shutdowns>>
    BY <1>2 DEF Awaited
  <2>2. CASE /\ pool' = [pool EXCEPT ![w] = IF @ = g THEN NoGen ELSE @]
             /\ call' = [call EXCEPT ![c] = NoCall] /\ UNCHANGED gen
    <3>1. pool' \in [Workspaces -> Gens \cup {NoGen}]
      BY <2>0, <2>2, FreedFine
    <3>2. CallOK' /\ Fresh'
      BY <2>1, <2>2, IdleFine, CallerStep
    <3> QED
      BY <2>1, <2>2, <3>1, <3>2, GenFrame DEF RestOK
  <2>3. CASE LoopTop(c, w)
    BY <2>0, <2>1, <2>3, LoopFine DEF RestOK
  <2>4. CASE /\ EntryOf(g) # NoGen
             /\ call' = [call EXCEPT ![c].pc = "probe", ![c].entry = EntryOf(g)]
             /\ UNCHANGED <<pool, gen>>
    <3> DEFINE k == [call[c] EXCEPT !.pc = "probe", !.entry = g]
    <3>1. EntryOf(g) = g
      BY <2>4 DEF EntryOf
    <3>2. CallFine(k) /\ k.pc # "run"
      BY <1>0, <2>0 DEF CallFine, CallRecord
    <3>3. call' = [call EXCEPT ![c] = k]
      BY <1>0, <2>4, <3>1 DEF CallOK, CallRecord
    <3> HIDE DEF k
    <3>4. CallOK' /\ Fresh'
      BY <2>1, <3>2, <3>3, CallerStep
    <3> QED
      BY <2>1, <2>4, <3>4, GenFrame DEF RestOK, GenOK
  <2>5. CASE Replacement(c, NoGen)
    BY <2>0, <2>1, <2>5, ReplacementFine DEF RestOK
  <2> QED
    BY <1>2, <2>2, <2>3, <2>4, <2>5 DEF Awaited
<1>3. CASE ProbeAlive(c)
  <2> DEFINE e == call[c].entry
  <2>0. e \in Gens /\ call[c].ws \in Workspaces /\ call[c].on \in Gens
    BY <1>0, <1>3 DEF ProbeAlive, CallFine
  <2>1. CASE /\ call' = [call EXCEPT ![c].pc = "run"]
             /\ age' = [age EXCEPT ![e] = 0]
             /\ UNCHANGED <<pool, gen>>
    <3> DEFINE k == [call[c] EXCEPT !.pc = "run"]
    <3>1. CallFine(k) /\ k.entry = e
      BY <1>0, <2>0 DEF CallFine, CallRecord
    <3>2. call' = [call EXCEPT ![c] = k]
      BY <1>0, <2>1 DEF CallOK, CallRecord
    <3> HIDE DEF k
    <3>3. CallOK' /\ Fresh' /\ age' \in [Gens -> 0..IdleTTL + 1]
      BY <2>0, <2>1, <3>1, <3>2, CommandStep DEF RestOK
    <3> QED
      BY <1>3, <2>1, <3>3, GenFrame DEF ProbeAlive, RestOK, GenOK
  <2>2. CASE LoopTop(c, call[c].ws) /\ UNCHANGED age
    BY <1>3, <2>0, <2>2, LoopFine DEF ProbeAlive, RestOK
  <2> QED
    BY <1>3, <2>1, <2>2 DEF ProbeAlive
<1>4. CASE ProbeDead(c)
  <2>1. call[c].entry \in Gens \cup {NoGen} /\ call[c].pc # "idle"
    BY <1>0, <1>4 DEF ProbeDead, CallFine
  <2> QED
    BY <1>4, <2>1, ReplacementFine DEF ProbeDead, RestOK
<1>5. CASE GotReplacement(c)
  <2> DEFINE g == call[c].on
             w == call[c].ws
  <2>0. g \in Gens /\ w \in Workspaces
    BY <1>0, <1>5 DEF GotReplacement, CallFine
  <2>1. UNCHANGED <<gen, box, lost, stopping, cleanup, shutdowns>>
    BY <1>5 DEF GotReplacement
  <2>2. CASE /\ pool' = pool \/ pool' = [pool EXCEPT ![w] = IF @ = g THEN NoGen ELSE @]
             /\ call' = [call EXCEPT ![c] = NoCall] /\ UNCHANGED age
    <3>1. pool' \in [Workspaces -> Gens \cup {NoGen}]
      BY <2>0, <2>2, FreedFine DEF GenOK
    <3>2. CallOK' /\ Fresh'
      BY <2>2, IdleFine, CallerStep
    <3> QED
      BY <2>1, <2>2, <3>1, <3>2, GenFrame DEF RestOK
  <2>3. CASE /\ call' = [call EXCEPT ![c].pc = "run", ![c].entry = g]
             /\ age' = [age EXCEPT ![g] = 0]
             /\ UNCHANGED pool
    <3> DEFINE k == [call[c] EXCEPT !.pc = "run", !.entry = g]
    <3>1. CallFine(k) /\ k.entry = g
      BY <1>0, <1>5, <2>0 DEF CallFine, CallRecord, GotReplacement
    <3>2. call' = [call EXCEPT ![c] = k]
      BY <1>0, <2>3 DEF CallOK, CallRecord
    <3> HIDE DEF k
    <3>3. CallOK' /\ Fresh' /\ age' \in [Gens -> 0..IdleTTL + 1]
      BY <2>0, <2>3, <3>1, <3>2, CommandStep DEF RestOK
    <3> QED
      BY <2>1, <2>3, <3>3, GenFrame DEF RestOK, GenOK
  <2> QED
    BY <1>5, <2>2, <2>3 DEF GotReplacement
<1>6. CASE CommandEnds(c)
  <2> DEFINE e == call[c].entry
  <2>0. e \in Gens
    BY <1>0, <1>6 DEF CommandEnds, CallFine
  <2>1. call' = [call EXCEPT ![c] = NoCall] /\ age' = [age EXCEPT ![e] = 0]
        /\ UNCHANGED <<pool, gen, box, lost, stopping, cleanup, shutdowns>>
    BY <1>6 DEF CommandEnds
  <2>2. CallOK' /\ Fresh' /\ age' \in [Gens -> 0..IdleTTL + 1]
    BY <2>0, <2>1, IdleFine, CommandStep DEF RestOK
  <2> QED
    BY <2>1, <2>2, GenFrame DEF RestOK, GenOK
<1> QED
  BY <1>1, <1>2, <1>3, <1>4, <1>5, <1>6

(* The steps of a generation, of the closings, of Docker and of time.      *)
LEMMA GenKeeps ==
    ASSUME PoolInv, NEW g \in Gens,
           SpawnOK(g) \/ SpawnFails(g) \/ KillOK(g) \/ KillFails(g) \/ CloserProceeds(g)
              \/ FreeKey(g) \/ ContainerDies(g) \/ RemoveOrphan(g)
    PROVE  PoolInv' /\ NoNewReap
<1> USE DEF PoolInv
<1>0. GenFine(gen[g]) /\ gen[g] \in GenRecord
  BY DEF GenOK
<1>1. CASE SpawnOK(g)
  <2>1. GenOK' /\ NoNewReap
    BY <1>1, PhaseFine DEF SpawnOK, GenOK
  <2>2. 0 \in 0..IdleTTL + 1
    BY PoolConstants
  <2>3. RestOK'
    BY <1>1, <2>2 DEF SpawnOK, RestOK
  <2>4. CallOK'
    BY <1>1, CallFrame DEF SpawnOK
  <2>5. Fresh'
    <3> SUFFICES ASSUME NEW d \in Callers, call[d].pc = "run"
                 PROVE  age'[call[d].entry] <= call[d].ran
      BY <1>1 DEF Fresh, SpawnOK
    <3>1. call[d].ran \in 0..CmdMax /\ call[d].entry \in Gens /\ age[call[d].entry] <= call[d].ran
      BY DEF CallOK, CallFine, CallRecord, Fresh
    <3> QED
      BY <1>1, <3>1, PoolConstants DEF SpawnOK, RestOK
  <2> QED
    BY <2>1, <2>3, <2>4, <2>5
<1>2. CASE SpawnFails(g)
  <2>1. GenOK' /\ NoNewReap
    <3>1. pool' \in [Workspaces -> Gens \cup {NoGen}]
      BY <1>2, RestoredFine DEF SpawnFails, FailGen
    <3> QED
      BY <1>2, <3>1, PhaseFine DEF SpawnFails, FailGen
  <2>2. RestOK'
    BY <1>2 DEF SpawnFails, RestOK
  <2> QED
    BY <1>2, <2>1, <2>2, CallFrame, FreshFrame DEF SpawnFails
<1>3. CASE KillOK(g)
  <2>1. GenOK' /\ NoNewReap
    BY <1>3, PhaseFine DEF KillOK, GenOK
  <2>2. RestOK'
    BY <1>3 DEF KillOK, RestOK
  <2> QED
    BY <1>3, <2>1, <2>2, CallFrame, FreshFrame DEF KillOK
<1>4. CASE KillFails(g)
  <2>1. pool' \in [Workspaces -> Gens \cup {NoGen}]
    BY <1>4, RestoredFine DEF KillFails, FailGen, GenOK
  <2>2. GenOK' /\ NoNewReap
    BY <1>4, <2>1, PhaseFine DEF KillFails, FailGen
  <2>3. gen[g].victim \in Gens
    BY <1>0, <1>4 DEF KillFails, GenFine
  <2>4. RestOK'
    BY <1>4, <2>3 DEF KillFails, RestOK
  <2> QED
    BY <1>4, <2>2, <2>4, CallFrame, FreshFrame DEF KillFails
<1>5. CASE CloserProceeds(g)
  <2> DEFINE p == gen[g].prev
             nothing == gen[p].phase = "failed" \/ EntryOf(p) = NoGen
             r == [gen[g] EXCEPT !.phase = IF nothing THEN "ok" ELSE "killing",
                                 !.victim = IF nothing THEN NoGen ELSE EntryOf(p)]
  <2>1. p \in Gens
    BY <1>0, <1>5 DEF CloserProceeds, GenFine
  <2>2. EntryOf(p) = NoGen \/ EntryOf(p) = p
    BY DEF EntryOf
  <2>3. GenFine(r)
    <3>1. CASE nothing
      BY <1>0, <1>5, <3>1 DEF CloserProceeds, GenFine, GenRecord, Phases
    <3>2. CASE ~nothing
      <4>1. EntryOf(p) \in Gens
        BY <2>1, <2>2, <3>2
      <4> QED
        BY <1>0, <1>5, <3>2, <4>1 DEF CloserProceeds, GenFine, GenRecord, Phases
    <3> QED
      BY <3>1, <3>2
  <2>4. gen' = [gen EXCEPT ![g] = r]
    BY <1>0, <1>5 DEF CloserProceeds, GenOK, GenRecord
  <2> HIDE DEF r
  <2>5. \A h \in Gens : gen'[h] = IF h = g THEN r ELSE gen[h]
    BY <2>4 DEF GenOK
  <2>6. gen' \in [Gens -> GenRecord] /\ \A h \in Gens : GenFine(gen'[h])
    BY <2>3, <2>4, <2>5 DEF GenOK, GenFine
  <2>7. GenOK' /\ NoNewReap
    BY <1>5, <2>5, <2>6 DEF CloserProceeds, GenOK, GenFine, NoNewReap
  <2> QED
    BY <1>5, <2>7, CallFrame, FreshFrame DEF CloserProceeds, RestOK
<1>6. CASE FreeKey(g)
  <2>1. pool' \in [Workspaces -> Gens \cup {NoGen}]
    BY <1>6 DEF FreeKey, GenOK
  <2> QED
    BY <1>6, <2>1, GenFrame, CallFrame, FreshFrame DEF FreeKey, RestOK
<1>7. CASE ContainerDies(g)
  <2>1. RestOK'
    BY <1>7 DEF ContainerDies, RestOK
  <2> QED
    BY <1>7, <2>1, GenFrame, CallFrame, FreshFrame DEF ContainerDies, GenOK
<1>8. CASE RemoveOrphan(g)
  <2>1. RestOK'
    BY <1>8 DEF RemoveOrphan, RestOK
  <2> QED
    BY <1>8, <2>1, GenFrame, CallFrame, FreshFrame DEF RemoveOrphan, GenOK
<1> QED
  BY <1>1, <1>2, <1>3, <1>4, <1>5, <1>6, <1>7, <1>8

LEMMA ShutdownKeeps ==
    ASSUME PoolInv, NEW w \in Workspaces, Shutdown(w)
    PROVE  PoolInv' /\ NoNewReap
<1> USE DEF PoolInv
<1>1. PICK g \in Gens : Replace(g, w, "shutdown", "waiting", NoGen)
  BY DEF Shutdown
<1>2. pool[w] \in Gens
  BY DEF Shutdown, GenOK
<1>3. GenOK' /\ NoNewReap
  BY <1>1, <1>2, ReplaceFine DEF GenKinds
<1>4. shutdowns' \in 0..MaxShutdowns
  BY PoolConstants DEF Shutdown, RestOK
<1> QED
  BY <1>3, <1>4, CallFrame, FreshFrame DEF Shutdown, RestOK

LEMMA ReapKeeps ==
    ASSUME PoolInv, NEW w \in Workspaces, Reap(w)
    PROVE  PoolInv'
<1> USE DEF PoolInv
<1>1. PICK g \in Gens : Replace(g, w, "reap", "killing", pool[w])
  BY DEF Reap
<1>2. pool[w] \in Gens
  BY DEF Reap, GenOK
<1>3. GenOK'
  BY <1>1, <1>2, ReplaceFine DEF GenKinds
<1> QED
  BY <1>3, CallFrame, FreshFrame DEF Reap, RestOK

LEMMA ShutdownAllKeeps ==
    ASSUME PoolInv, ShutdownAll
    PROVE  PoolInv' /\ NoNewReap
<1> USE DEF PoolInv
<1> DEFINE Owner(closer, g) == CHOOSE w \in Pooled : closer[w] = g
           r(closer, g) == [phase |-> "waiting", kind |-> "shutdownAll", ws |-> Owner(closer, g),
                            prev |-> pool[Owner(closer, g)], victim |-> NoGen]
<1>1. PICK closer \in [Pooled -> Unused] :
        /\ gen' = [g \in Gens |-> IF \E w \in Pooled : closer[w] = g THEN r(closer, g) ELSE gen[g]]
        /\ pool' = [w \in Workspaces |-> IF w \in Pooled THEN closer[w] ELSE NoGen]
  BY DEF ShutdownAll
<1>2. \A g \in Gens : (\E w \in Pooled : closer[w] = g) => GenFine(r(closer, g))
  <2> SUFFICES ASSUME NEW g \in Gens, \E w \in Pooled : closer[w] = g
               PROVE  GenFine(r(closer, g))
    OBVIOUS
  <2>1. Owner(closer, g) \in Pooled
    OBVIOUS
  <2>2. Owner(closer, g) \in Workspaces /\ pool[Owner(closer, g)] \in Gens
    BY <2>1 DEF Pooled, GenOK
  <2> HIDE DEF Owner
  <2> QED
    BY <2>2 DEF GenFine, GenRecord, Phases, GenKinds
<1>3. \A g \in Gens : gen'[g] = IF \E w \in Pooled : closer[w] = g THEN r(closer, g) ELSE gen[g]
  BY <1>1
<1>4. \A g \in Gens : (\E w \in Pooled : closer[w] = g) => r(closer, g).kind = "shutdownAll"
  OBVIOUS
<1> HIDE DEF r
<1>5. \A g \in Gens : GenFine(gen'[g])
  BY <1>2, <1>3 DEF GenOK
<1>6. gen' \in [Gens -> GenRecord]
  <2>1. \A g \in Gens : (IF \E w \in Pooled : closer[w] = g THEN r(closer, g) ELSE gen[g]) \in GenRecord
    BY <1>2 DEF GenFine, GenOK
  <2> QED
    BY <1>1, <2>1
<1>7. pool' \in [Workspaces -> Gens \cup {NoGen}]
  BY <1>1 DEF Pooled, Unused
<1>8. GenOK'
  BY <1>5, <1>6, <1>7 DEF GenOK, GenFine
<1>9. NoNewReap
  BY <1>3, <1>4 DEF NoNewReap, GenOK, GenFine
<1> QED
  BY <1>8, <1>9, CallFrame, FreshFrame DEF ShutdownAll, RestOK

LEMMA TickKeeps ==
    ASSUME PoolInv, PoolTick
    PROVE  PoolInv' /\ NoNewReap
<1> USE DEF PoolInv
<1>1. UNCHANGED <<pool, gen, box, lost, stopping, cleanup, shutdowns>>
  BY DEF PoolTick
<1>2. \A g \in Gens : age'[g] = IF box[g] # "none" /\ age[g] <= IdleTTL THEN age[g] + 1 ELSE age[g]
  BY DEF PoolTick
<1>3. age' \in [Gens -> 0..IdleTTL + 1]
  <2>1. \A g \in Gens : (IF box[g] # "none" /\ age[g] <= IdleTTL THEN age[g] + 1 ELSE age[g]) \in 0..IdleTTL + 1
    BY PoolConstants DEF RestOK
  <2> QED
    BY <2>1 DEF PoolTick
<1> DEFINE k(c) == IF call[c].pc = "run" THEN [call[c] EXCEPT !.ran = @ + 1] ELSE call[c]
<1>4. \A c \in Callers : CallFine(k(c)) /\ k(c).pc = call[c].pc /\ k(c).entry = call[c].entry
                          /\ k(c).ran = IF call[c].pc = "run" THEN call[c].ran + 1 ELSE call[c].ran
  <2> SUFFICES ASSUME NEW c \in Callers
               PROVE  CallFine(k(c)) /\ k(c).pc = call[c].pc /\ k(c).entry = call[c].entry
                        /\ k(c).ran = IF call[c].pc = "run" THEN call[c].ran + 1 ELSE call[c].ran
    OBVIOUS
  <2>1. CallFine(call[c])
    BY DEF CallOK
  <2>2. CASE call[c].pc = "run"
    <3>1. call[c].ran + 1 \in 0..CmdMax
      BY <2>1, <2>2, PoolConstants DEF PoolTick, WithinTimer, CallFine, CallRecord
    <3> QED
      BY <2>1, <2>2, <3>1 DEF CallFine, CallRecord
  <2>3. CASE call[c].pc # "run"
    BY <2>1, <2>3
  <2> QED
    BY <2>2, <2>3
<1>5. \A c \in Callers : call'[c] = k(c)
  BY DEF PoolTick
<1>6. call' \in [Callers -> CallRecord]
  <2>1. \A c \in Callers : k(c) \in CallRecord
    BY <1>4 DEF CallFine
  <2> QED
    BY <2>1 DEF PoolTick
<1> HIDE DEF k
<1>7. CallOK'
  BY <1>4, <1>5, <1>6 DEF CallOK, CallFine
<1>8. Fresh'
  <2> SUFFICES ASSUME NEW c \in Callers, call'[c].pc = "run"
               PROVE  age'[call'[c].entry] <= call'[c].ran
    BY DEF Fresh
  <2>1. call[c].pc = "run" /\ call'[c].entry = call[c].entry /\ call'[c].ran = call[c].ran + 1
    BY <1>4, <1>5
  <2>2. call[c].entry \in Gens /\ age[call[c].entry] <= call[c].ran /\ call[c].ran \in 0..CmdMax
    BY <2>1 DEF CallOK, CallFine, CallRecord, Fresh
  <2> QED
    BY <1>2, <2>1, <2>2, PoolConstants DEF RestOK
<1> QED
  BY <1>1, <1>3, <1>7, <1>8, GenFrame DEF RestOK, GenOK

LEMMA OtherKeeps ==
    ASSUME PoolInv, FreeAll \/ ListOrphans
    PROVE  PoolInv' /\ NoNewReap
<1> USE DEF PoolInv
<1>1. CASE FreeAll
  <2>1. pool' \in [Workspaces -> Gens \cup {NoGen}]
    BY <1>1 DEF FreeAll, GenOK
  <2> QED
    BY <1>1, <2>1, GenFrame, CallFrame, FreshFrame DEF FreeAll, RestOK
<1>2. CASE ListOrphans
  <2>1. RestOK'
    BY <1>2 DEF ListOrphans, RestOK
  <2> QED
    BY <1>2, <2>1, GenFrame, CallFrame, FreshFrame DEF ListOrphans, GenOK
<1> QED
  BY <1>1, <1>2

----
(* The theorems. *)

LEMMA NextInv == PoolInv /\ [PoolNext]_poolVars => PoolInv' /\ (NoNewReap \/ \E w \in Workspaces : Reap(w))
<1> SUFFICES ASSUME PoolInv, [PoolNext]_poolVars
             PROVE  PoolInv' /\ (NoNewReap \/ \E w \in Workspaces : Reap(w))
  OBVIOUS
<1>1. CASE UNCHANGED poolVars
  <2>1. UNCHANGED <<pool, gen, box, age, lost, call, stopping, cleanup, shutdowns>>
    BY <1>1 DEF poolVars
  <2> QED
    BY <2>1, GenFrame, CallFrame, FreshFrame DEF PoolInv, RestOK, GenOK
<1>2. CASE PoolNext
  BY <1>2, CallerKeeps, GenKeeps, ShutdownKeeps, ReapKeeps, ShutdownAllKeeps, TickKeeps, OtherKeeps
     DEF PoolNext
<1> QED
  BY <1>1, <1>2

LEMMA PoolInvariant == PoolSpec => []PoolInv
<1>1. PoolInv /\ [PoolNext]_poolVars => PoolInv'
  BY NextInv
<1> QED
  BY InitInv, <1>1, PTL DEF PoolSpec

(* Types hold for every pool: a caller waits for a generation that exists, *)
(* a closing for one it replaced, and no command outlasts its ceiling.     *)
THEOREM PoolTyped == PoolSpec => []PoolTypeOK
  BY PoolInvariant, InvTyped, PTL

(* The reaper reads lastUsedAt alone and never starts to remove the        *)
(* container of a command: a command's ceiling is within the idle TTL, and *)
(* every path that starts a command, through the caller's own boot or one  *)
(* it joined, writes lastUsedAt first.                                     *)
THEOREM ReaperSafe == PoolSpec => ReaperSparesCommands
<1> DEFINE Spared == \A g \in Gens : gen'[g].kind = "reap" /\ gen[g].phase = "unused"
                                       => ~CommandIn(gen'[g].victim)
<1>1. PoolInv /\ [PoolNext]_poolVars => [Spared]_poolVars
  <2> SUFFICES ASSUME PoolInv, [PoolNext]_poolVars
               PROVE  Spared
    OBVIOUS
  <2>1. CASE NoNewReap
    BY <2>1 DEF NoNewReap
  <2>2. CASE \E w \in Workspaces : Reap(w)
    <3>1. PICK w \in Workspaces : Reap(w)
      BY <2>2
    <3> DEFINE p == pool[w]
    <3>2. p \in Gens /\ age[p] > IdleTTL
      BY <3>1 DEF Reap, PoolInv, GenOK
    <3>3. PICK g \in Gens : Replace(g, w, "reap", "killing", p)
      BY <3>1 DEF Reap
    <3>4. \A h \in Gens : gen'[h].kind = "reap" /\ gen[h].phase = "unused" => gen'[h].victim = p
      BY <3>3 DEF Replace, PoolInv, GenOK, GenFine
    <3>5. ~CommandIn(p)
      <4> SUFFICES ASSUME NEW c \in Callers, call[c].pc = "run", call[c].entry = p
                   PROVE  FALSE
        BY DEF CommandIn
      <4>1. age[p] <= call[c].ran /\ call[c].ran \in 0..CmdMax
        BY DEF PoolInv, Fresh, CallOK, CallRecord
      <4>2. age[p] \in 0..IdleTTL + 1
        BY <3>2 DEF PoolInv, RestOK
      <4> QED
        BY <3>2, <4>1, <4>2, PoolConstants
    <3> QED
      BY <3>4, <3>5
  <2> QED
    BY <2>1, <2>2, NextInv
<1>2. [][PoolNext]_poolVars /\ []PoolInv => [][Spared]_poolVars
  BY <1>1, PTL
<1> QED
  BY <1>2, PoolInvariant, PTL DEF PoolSpec, ReaperSparesCommands

(***************************************************************************)
(* One container.  The generations of one key form a chain: the pool       *)
(* points at the newest, a closing that waits points at the one it         *)
(* replaced, and so on to the one at its end, which runs or has settled.   *)
(* Everything that is not settled is in its key's chain, nothing is in two *)
(* places, so a key has one end; and a container that is up and not given  *)
(* up is that end or the victim of it.  A key is freed at the end of its   *)
(* chain only, by a closing with no container left.                        *)
(***************************************************************************)
Pointed(g) ==
    \/ \E w \in Workspaces : pool[w] = g
    \/ \E h \in Gens : gen[h].phase = "waiting" /\ gen[h].prev = g

End(g) == gen[g].phase \in {"killing", "spawning"} \/ (Settled(g) /\ Pointed(g))

Up(e) == box[e] = "up" /\ e \notin lost

Container(p, w) == gen[p].phase = "ok" /\ gen[p].kind = "boot" /\ gen[p].ws = w

PoolLinks ==
    \A w \in Workspaces : pool[w] # NoGen =>
        gen[pool[w]].ws = w /\ gen[pool[w]].phase \notin {"unused", "failed"}

GenLinks ==
    \A h \in Gens :
        /\ gen[h].phase = "waiting" =>
              /\ gen[h].prev \in Gens /\ gen[gen[h].prev].ws = gen[h].ws
              /\ gen[gen[h].prev].phase # "unused" /\ gen[h].kind # "boot"
        /\ gen[h].phase = "killing" =>
              gen[h].victim = gen[h].prev /\ gen[h].prev \in Gens /\ Container(gen[h].prev, gen[h].ws)
        /\ gen[h].phase = "spawning" =>
              /\ gen[h].kind = "boot"
              /\ gen[h].prev # NoGen => gen[gen[h].prev].phase = "ok" /\ gen[gen[h].prev].ws = gen[h].ws

NoneForgotten == \A g \in Gens : gen[g].phase \in {"waiting", "killing", "spawning"} => Pointed(g)

OneSuccessor ==
    \A h \in Gens : gen[h].phase = "waiting" =>
        /\ \A w \in Workspaces : pool[w] # gen[h].prev
        /\ \A k \in Gens : gen[k].phase = "waiting" /\ gen[k].prev = gen[h].prev => k = h

OneEnd == \A g, h \in Gens : End(g) /\ End(h) /\ gen[g].ws = gen[h].ws => g = h

Keyed == \A g \in Gens : End(g) => pool[gen[g].ws] # NoGen

Homes ==
    \A e \in Gens : Up(e) =>
        /\ gen[e].phase = "ok" /\ gen[e].kind = "boot"
        /\ Pointed(e) \/ \E g \in Gens : gen[g].phase = "killing" /\ gen[g].victim = e

ChainInv == PoolLinks /\ GenLinks /\ NoneForgotten /\ OneSuccessor /\ OneEnd /\ Keyed /\ Homes

(* The caller that probes has seen its generation boot.                    *)
Probed ==
    \A c \in Callers : call[c].pc = "probe" =>
        call[c].entry = call[c].on /\ gen[call[c].on].phase = "ok" /\ gen[call[c].on].kind = "boot"

LEMMA ChainInit == PoolInit => ChainInv /\ Probed
<1> SUFFICES ASSUME PoolInit PROVE ChainInv /\ Probed
  OBVIOUS
<1>1. /\ \A w \in Workspaces : pool[w] = NoGen
      /\ \A g \in Gens : gen[g].phase = "unused" /\ box[g] = "none"
      /\ \A c \in Callers : call[c].pc = "idle"
  BY DEF PoolInit, NotMade, NoCall
<1>2. \A g \in Gens : ~End(g)
  BY <1>1 DEF End, Settled
<1> QED
  BY <1>1, <1>2 DEF ChainInv, Probed, PoolLinks, GenLinks, NoneForgotten, OneSuccessor, OneEnd, Keyed, Homes, Up

\* Nothing but containers going down.
LEMMA ChainFrame ==
    ASSUME GenOK, ChainInv, UNCHANGED <<pool, gen>>, \A e \in Gens : Up(e)' => Up(e)
    PROVE  ChainInv'
<1>1. \A g \in Gens : (Pointed(g)' <=> Pointed(g)) /\ (End(g)' <=> End(g))
  BY DEF Pointed, End, Settled
<1>2. PoolLinks' /\ GenLinks' /\ OneSuccessor'
  BY DEF ChainInv, PoolLinks, GenLinks, OneSuccessor, Container
<1>3. NoneForgotten' /\ OneEnd' /\ Keyed' /\ Homes'
  BY <1>1 DEF ChainInv, NoneForgotten, OneEnd, Keyed, Homes
<1> QED
  BY <1>2, <1>3 DEF ChainInv

\* The first boot of a key.
LEMMA FirstKeeps ==
    ASSUME GenOK, ChainInv, NEW g \in Gens, NEW w \in Workspaces, pool[w] = NoGen,
           Boot(g, w, NoGen), UNCHANGED <<box, lost>>
    PROVE  ChainInv'
<1> USE DEF ChainInv
<1>1. /\ gen[g].phase = "unused"
      /\ gen'[g].phase = "spawning" /\ gen'[g].kind = "boot" /\ gen'[g].ws = w /\ gen'[g].prev = NoGen
      /\ \A h \in Gens \ {g} : gen'[h] = gen[h]
      /\ \A v \in Workspaces : pool'[v] = IF v = w THEN g ELSE pool[v]
  BY DEF Boot, Replace, Unused, GenOK
<1> NoGen \notin Gens
  BY PoolConstants
<1>2. ~Pointed(g)
  BY <1>1 DEF Pointed, PoolLinks, GenLinks
<1>3. \A h \in Gens : Pointed(h)' <=> (h = g \/ Pointed(h))
  BY <1>1 DEF Pointed
<1>4. \A h \in Gens : End(h)' <=> (h = g \/ End(h))
  BY <1>1, <1>2, <1>3 DEF End, Settled
<1>5. PoolLinks'
  BY <1>1 DEF PoolLinks, GenOK
<1>6. GenLinks'
  BY <1>1 DEF GenLinks, Container, GenOK, GenFine, GenRecord
<1>7. NoneForgotten'
  BY <1>1, <1>3 DEF NoneForgotten
<1>8. OneSuccessor'
  BY <1>1 DEF OneSuccessor, GenLinks
<1>9. OneEnd'
  <2>1. \A h \in Gens : End(h) => gen[h].ws # w
    BY DEF Keyed
  <2> QED
    BY <1>1, <1>4, <2>1 DEF OneEnd
<1>10. Keyed'
  <2>1. \A h \in Gens : End(h) => gen[h].ws \in Workspaces /\ gen[h].phase # "unused"
    BY DEF End, Settled, GenOK, GenFine
  <2> QED
    BY <1>1, <1>4, <2>1 DEF Keyed
<1>11. Homes'
  BY <1>1, <1>3 DEF Homes, Up
<1> QED
  BY <1>5, <1>6, <1>7, <1>8, <1>9, <1>10, <1>11

\* A boot, or the reaper, in the place of a generation that is done.
LEMMA OverKeeps ==
    ASSUME GenOK, ChainInv, NEW g \in Gens, NEW w \in Workspaces, NEW p \in Gens, pool[w] = p,
           gen[p].phase = "ok", gen[g].phase = "unused",
           NEW r \in GenRecord, r.ws = w, r.prev = p,
           \/ r.phase = "killing" /\ r.victim = p /\ gen[p].kind = "boot"
           \/ r.phase = "spawning" /\ r.kind = "boot" /\ gen[p].kind # "boot",
           gen' = [gen EXCEPT ![g] = r], pool' = [pool EXCEPT ![w] = g], UNCHANGED <<box, lost>>
    PROVE  ChainInv'
<1> USE DEF ChainInv
<1>1. /\ gen'[g] = r /\ \A h \in Gens \ {g} : gen'[h] = gen[h]
      /\ \A v \in Workspaces : pool'[v] = IF v = w THEN g ELSE pool[v]
  BY DEF GenOK
<1>2. NoGen \notin Gens /\ gen[p].ws = w /\ g # p
  BY PoolConstants DEF PoolLinks
<1>3. ~Pointed(g)
  BY <1>2 DEF Pointed, PoolLinks, GenLinks
<1>4. ~Pointed(p)'
  <2>1. \A h \in Gens : gen[h].phase = "waiting" => gen[h].prev # p
    BY DEF OneSuccessor
  <2>2. \A v \in Workspaces : pool'[v] # p
    BY <1>1, <1>2 DEF PoolLinks
  <2> QED
    BY <1>1, <2>1, <2>2 DEF Pointed
<1>5. \A h \in Gens : h # p => (Pointed(h)' <=> (h = g \/ Pointed(h)))
  BY <1>1, <1>2 DEF Pointed
<1>6. \A h \in Gens : End(h)' <=> (h = g \/ (h # p /\ End(h)))
  BY <1>1, <1>2, <1>3, <1>4, <1>5 DEF End, Settled
<1>7. End(p)
  BY DEF End, Settled, Pointed
<1>8. PoolLinks'
  BY <1>1, <1>2 DEF PoolLinks, GenOK
<1>9. GenLinks'
  <2>1. ASSUME NEW h \in Gens, h # g
        PROVE  /\ gen[h].phase = "waiting" => gen[h].prev # g
               /\ gen[h].phase = "killing" => gen[h].prev # g
               /\ gen[h].phase = "spawning" => gen[h].prev # g \/ gen[h].prev = NoGen
    BY <2>1 DEF GenLinks, Container
  <2> QED
    BY <1>1, <1>2, <2>1 DEF GenLinks, Container, GenOK, GenFine, GenRecord
<1>10. NoneForgotten'
  BY <1>1, <1>5, <1>2 DEF NoneForgotten
<1>11. OneSuccessor'
  BY <1>1 DEF OneSuccessor, GenLinks
<1>12. OneEnd'
  <2>1. \A h \in Gens : End(h) /\ h # p => gen[h].ws # w
    BY <1>2, <1>7 DEF OneEnd
  <2> QED
    BY <1>1, <1>2, <1>6, <2>1 DEF OneEnd
<1>13. Keyed'
  <2>1. \A h \in Gens : End(h) => gen[h].ws \in Workspaces
    BY DEF End, Settled, GenOK, GenFine
  <2> QED
    BY <1>1, <1>2, <1>6, <2>1 DEF Keyed
<1>14. Homes'
  BY <1>1, <1>2, <1>5 DEF Homes, Up
<1> QED
  BY <1>8, <1>9, <1>10, <1>11, <1>12, <1>13, <1>14

\* One closing, or those of shutdownAll, each in the place of its key's newest.
LEMMA ClosingsKeep ==
    ASSUME GenOK, ChainInv, NEW W \in SUBSET Workspaces, NEW closer \in [W -> Unused],
           \A v, w \in W : v # w => closer[v] # closer[w],
           \A w \in W : pool[w] # NoGen,
           \A w \in W : /\ gen'[closer[w]].phase = "waiting" /\ gen'[closer[w]].kind # "boot"
                        /\ gen'[closer[w]].ws = w /\ gen'[closer[w]].prev = pool[w],
           \A h \in Gens : (\A w \in W : closer[w] # h) => gen'[h] = gen[h],
           \A v \in Workspaces : pool'[v] = IF v \in W THEN closer[v] ELSE pool[v],
           UNCHANGED <<box, lost>>
    PROVE  ChainInv'
<1> USE DEF ChainInv
<1> DEFINE New(h) == \E w \in W : closer[w] = h
<1>1. \A w \in W : closer[w] \in Gens /\ gen[closer[w]].phase = "unused"
  BY DEF Unused
<1>2. \A w \in W : pool[w] \in Gens /\ pool[w] # NoGen
  BY DEF GenOK
<1>3. \A h \in Gens : New(h) => gen[h].phase = "unused" /\ ~Pointed(h) /\ gen'[h].phase = "waiting"
  BY <1>1, PoolConstants DEF Pointed, PoolLinks, GenLinks
<1>4. \A h \in Gens : ~New(h) => gen'[h] = gen[h]
  OBVIOUS
<1>5. \A h \in Gens : Pointed(h)' <=> (New(h) \/ Pointed(h))
  <2>1. ASSUME NEW h \in Gens, New(h) PROVE Pointed(h)'
    BY <2>1 DEF Pointed
  <2>2. ASSUME NEW h \in Gens, Pointed(h) PROVE Pointed(h)'
    <3>1. CASE \E w \in Workspaces : pool[w] = h
      <4>1. PICK w \in Workspaces : pool[w] = h
        BY <3>1
      <4>2. CASE w \in W
        BY <1>1, <4>1, <4>2 DEF Pointed
      <4>3. CASE w \notin W
        BY <4>1, <4>3 DEF Pointed
      <4> QED
        BY <4>2, <4>3
    <3>2. CASE \E k \in Gens : gen[k].phase = "waiting" /\ gen[k].prev = h
      <4>1. PICK k \in Gens : gen[k].phase = "waiting" /\ gen[k].prev = h
        BY <3>2
      <4>2. ~New(k)
        BY <1>3, <4>1
      <4> QED
        BY <1>4, <4>1, <4>2 DEF Pointed
    <3> QED
      BY <2>2, <3>1, <3>2 DEF Pointed
  <2>3. ASSUME NEW h \in Gens, Pointed(h)', ~New(h) PROVE Pointed(h)
    <3>1. CASE \E w \in Workspaces : pool'[w] = h
      BY <2>3, <3>1 DEF Pointed
    <3>2. CASE \E k \in Gens : gen'[k].phase = "waiting" /\ gen'[k].prev = h
      <4>1. PICK k \in Gens : gen'[k].phase = "waiting" /\ gen'[k].prev = h
        BY <3>2
      <4>2. CASE New(k)
        BY <4>1, <4>2 DEF Pointed
      <4>3. CASE ~New(k)
        BY <1>4, <4>1, <4>3 DEF Pointed
      <4> QED
        BY <4>2, <4>3
    <3> QED
      BY <2>3, <3>1, <3>2 DEF Pointed
  <2> QED
    BY <2>1, <2>2, <2>3
<1>6. \A h \in Gens : End(h)' <=> End(h)
  BY <1>3, <1>4, <1>5 DEF End, Settled
<1>7. PoolLinks'
  BY <1>1, <1>3, <1>4 DEF PoolLinks, GenOK
<1>8. GenLinks'
  <2>1. ASSUME NEW h \in Gens, New(h)
        PROVE  /\ gen'[h].phase = "waiting" /\ gen'[h].prev \in Gens /\ ~New(gen'[h].prev)
               /\ gen[gen'[h].prev].ws = gen'[h].ws /\ gen[gen'[h].prev].phase # "unused" /\ gen'[h].kind # "boot"
    BY <1>1, <1>2, <1>3, <2>1 DEF PoolLinks
  <2>2. ASSUME NEW h \in Gens, ~New(h), gen[h].phase \in {"waiting", "killing"} PROVE ~New(gen[h].prev)
    BY <1>1, <2>2 DEF GenLinks, Container
  <2>3. ASSUME NEW h \in Gens, ~New(h), gen[h].phase = "spawning", gen[h].prev # NoGen
        PROVE  ~New(gen[h].prev) /\ gen[h].prev \in Gens
    BY <1>1, <2>3 DEF GenLinks, GenOK, GenRecord
  <2>4. ASSUME NEW h \in Gens, New(h)
        PROVE  /\ gen'[h].phase = "waiting" /\ gen'[h].prev \in Gens /\ gen'[gen'[h].prev].ws = gen'[h].ws
               /\ gen'[gen'[h].prev].phase # "unused" /\ gen'[h].kind # "boot"
    BY <1>4, <2>1, <2>4
  <2>5. ASSUME NEW h \in Gens, ~New(h)
        PROVE  /\ gen'[h] = gen[h]
               /\ gen[h].phase \in {"waiting", "killing"} => gen'[gen[h].prev] = gen[gen[h].prev]
               /\ gen[h].phase = "spawning" /\ gen[h].prev # NoGen => gen'[gen[h].prev] = gen[gen[h].prev]
    <3>1. gen'[h] = gen[h]
      BY <1>4, <2>5
    <3>2. gen[h].phase \in {"waiting", "killing"} => gen[h].prev \in Gens
      BY DEF GenLinks
    <3> QED
      BY <1>4, <2>2, <2>3, <2>5, <3>1, <3>2
  <2> HIDE DEF New
  <2>6. ASSUME NEW h \in Gens, gen'[h].phase = "waiting"
        PROVE  /\ gen'[h].prev \in Gens /\ gen'[gen'[h].prev].ws = gen'[h].ws
               /\ gen'[gen'[h].prev].phase # "unused" /\ gen'[h].kind # "boot"
    BY <2>4, <2>5, <2>6 DEF GenLinks
  <2>7. ASSUME NEW h \in Gens, gen'[h].phase = "killing"
        PROVE  /\ gen'[h].victim = gen'[h].prev /\ gen'[h].prev \in Gens
               /\ gen'[gen'[h].prev].phase = "ok" /\ gen'[gen'[h].prev].kind = "boot"
               /\ gen'[gen'[h].prev].ws = gen'[h].ws
    <3>1. ~New(h)
      BY <2>4, <2>7
    <3>2. gen'[h] = gen[h] /\ gen'[gen[h].prev] = gen[gen[h].prev]
      BY <2>5, <2>7, <3>1
    <3>3. gen[h].victim = gen[h].prev /\ gen[h].prev \in Gens /\ Container(gen[h].prev, gen[h].ws)
      BY <2>7, <3>2 DEF GenLinks
    <3> QED
      BY <3>2, <3>3 DEF Container
  <2>8. ASSUME NEW h \in Gens, gen'[h].phase = "spawning"
        PROVE  /\ gen'[h].kind = "boot"
               /\ gen'[h].prev # NoGen => gen'[gen'[h].prev].phase = "ok" /\ gen'[gen'[h].prev].ws = gen'[h].ws
    BY <2>4, <2>5, <2>8 DEF GenLinks
  <2> QED
    BY <2>6, <2>7, <2>8, Zenon DEF GenLinks, Container
<1>9. NoneForgotten'
  BY <1>4, <1>5 DEF NoneForgotten
<1>10. OneSuccessor'
  <2>1. ASSUME NEW h \in Gens, gen'[h].phase = "waiting", NEW w \in Workspaces PROVE pool'[w] # gen'[h].prev
    <3>1. CASE New(h)
      BY <1>1, <1>2, <3>1, <2>1 DEF PoolLinks
    <3>2. CASE ~New(h)
      <4>1. gen[h].phase = "waiting" /\ gen'[h].prev = gen[h].prev
        BY <1>4, <2>1, <3>2
      <4>2. pool[w] # gen[h].prev /\ gen[gen[h].prev].phase # "unused"
        BY <4>1 DEF OneSuccessor, GenLinks
      <4> QED
        BY <1>1, <4>1, <4>2
    <3> QED
      BY <3>1, <3>2
  <2>2. ASSUME NEW h \in Gens, NEW k \in Gens, gen'[h].phase = "waiting", gen'[k].phase = "waiting",
               gen'[k].prev = gen'[h].prev
        PROVE  k = h
    <3>1. CASE New(h) /\ New(k)
      <4>1. PICK v \in W, w \in W : closer[v] = h /\ closer[w] = k
        BY <3>1
      <4>2. pool[v] = pool[w]
        BY <2>2, <4>1
      <4> QED
        BY <1>2, <4>1, <4>2 DEF PoolLinks
    <3>2. CASE ~New(h) /\ ~New(k)
      BY <1>4, <2>2, <3>2 DEF OneSuccessor
    <3>3. CASE New(h) /\ ~New(k)
      BY <1>4, <2>2, <3>3 DEF OneSuccessor
    <3>4. CASE ~New(h) /\ New(k)
      BY <1>4, <2>2, <3>4 DEF OneSuccessor
    <3> QED
      BY <3>1, <3>2, <3>3, <3>4
  <2> QED
    BY <2>1, <2>2 DEF OneSuccessor
<1>11. \A h \in Gens : End(h) => gen'[h].ws = gen[h].ws /\ gen[h].ws \in Workspaces
  BY <1>3, <1>4 DEF End, Settled, GenOK, GenFine
<1>12. OneEnd' 
  BY <1>6, <1>11 DEF OneEnd
<1>13. Keyed'
  BY <1>1, <1>6, <1>11, PoolConstants DEF Keyed
<1>14. Homes'
  BY <1>3, <1>4, <1>5 DEF Homes, Up
<1> QED
  BY <1>7, <1>8, <1>9, <1>10, <1>12, <1>13, <1>14

\* A change of one generation that no link depends on.
LEMMA PhaseLinks ==
    ASSUME GenOK, ChainInv, NEW g \in Gens, NEW phase \in {"ok", "failed", "spawning"},
           gen' = [gen EXCEPT ![g].phase = phase], gen[g].phase \in {"killing", "spawning"},
           phase = "spawning" => gen[g].phase = "killing" /\ gen[g].kind = "boot"
    PROVE  /\ gen'[g].phase = phase
           /\ gen'[g].kind = gen[g].kind /\ gen'[g].ws = gen[g].ws /\ gen'[g].prev = gen[g].prev
           /\ \A h \in Gens \ {g} : gen'[h] = gen[h]
           /\ GenLinks'
<1> USE DEF ChainInv
<1>1. /\ gen'[g].phase = phase
      /\ gen'[g].kind = gen[g].kind /\ gen'[g].ws = gen[g].ws /\ gen'[g].prev = gen[g].prev
      /\ gen'[g].victim = gen[g].victim
      /\ \A h \in Gens \ {g} : gen'[h] = gen[h]
  BY DEF GenOK, GenRecord
<1>2. ASSUME NEW h \in Gens
      PROVE  /\ gen'[h].phase = "waiting" =>
                  /\ gen'[h].prev \in Gens /\ gen'[gen'[h].prev].ws = gen'[h].ws
                  /\ gen'[gen'[h].prev].phase # "unused" /\ gen'[h].kind # "boot"
             /\ gen'[h].phase = "killing" =>
                  /\ gen'[h].victim = gen'[h].prev /\ gen'[h].prev \in Gens
                  /\ Container(gen[h].prev, gen[h].ws) /\ gen'[h] = gen[h] /\ gen'[gen[h].prev] = gen[gen[h].prev]
             /\ gen'[h].phase = "spawning" =>
                  /\ gen'[h].kind = "boot"
                  /\ gen'[h].prev # NoGen => gen'[gen'[h].prev].phase = "ok" /\ gen'[gen'[h].prev].ws = gen'[h].ws
  <2>1. CASE h = g
    <3>1. CASE phase = "spawning"
      <4>1. gen[g].prev \in Gens /\ gen[g].prev # g /\ Container(gen[g].prev, gen[g].ws)
        BY <3>1 DEF GenLinks, Container
      <4> QED
        BY <1>1, <2>1, <3>1, <4>1 DEF Container
    <3>2. CASE phase # "spawning"
      BY <1>1, <2>1, <3>2
    <3> QED
      BY <3>1, <3>2
  <2>2. CASE h # g
    <3>1. gen'[h] = gen[h]
      BY <1>1, <2>2
    <3>2. CASE gen[h].phase = "waiting"
      <4>1. /\ gen[h].prev \in Gens /\ gen[gen[h].prev].ws = gen[h].ws
            /\ gen[gen[h].prev].phase # "unused" /\ gen[h].kind # "boot"
        BY <3>2 DEF GenLinks
      <4> QED
        BY <1>1, <3>1, <3>2, <4>1
    <3>3. CASE gen[h].phase = "killing"
      <4>1. /\ gen[h].victim = gen[h].prev /\ gen[h].prev \in Gens /\ Container(gen[h].prev, gen[h].ws)
            /\ gen[h].prev # g
        BY <3>3 DEF GenLinks, Container
      <4> QED
        BY <1>1, <3>1, <3>3, <4>1
    <3>4. CASE gen[h].phase = "spawning"
      <4>1. /\ gen[h].kind = "boot"
            /\ gen[h].prev # NoGen => /\ gen[gen[h].prev].phase = "ok" /\ gen[gen[h].prev].ws = gen[h].ws
                                      /\ gen[h].prev \in Gens \ {g}
        BY <3>4 DEF GenLinks, GenOK, GenRecord
      <4> QED
        BY <1>1, <3>1, <3>4, <4>1
    <3> QED
      BY <3>1, <3>2, <3>3, <3>4
  <2> QED
    BY <2>1, <2>2
<1>3. GenLinks'
  <2>1. \A h \in Gens : gen'[h].phase = "killing" =>
            /\ gen'[gen'[h].prev].phase = "ok" /\ gen'[gen'[h].prev].kind = "boot"
            /\ gen'[gen'[h].prev].ws = gen'[h].ws
    BY <1>2 DEF Container
  <2> QED
    BY <1>2, <2>1, Zenon DEF GenLinks, Container
<1> QED
  BY <1>1, <1>3

\* A boot or a closing is done, or a boot goes on to its own container.
LEMMA SettledKeeps ==
    ASSUME GenOK, ChainInv, NEW g \in Gens, NEW phase \in {"ok", "spawning"},
           gen' = [gen EXCEPT ![g].phase = phase], gen[g].phase \in {"killing", "spawning"},
           phase = "spawning" => gen[g].phase = "killing" /\ gen[g].kind = "boot",
           UNCHANGED pool,
           \A e \in Gens : Up(e)' =>
               \/ Up(e) /\ ~(gen[g].phase = "killing" /\ e = gen[g].victim)
               \/ e = g /\ gen[g].phase = "spawning"
    PROVE  ChainInv'
<1> USE DEF ChainInv
<1>1. /\ gen'[g].phase = phase
      /\ gen'[g].kind = gen[g].kind /\ gen'[g].ws = gen[g].ws /\ gen'[g].prev = gen[g].prev
      /\ \A h \in Gens \ {g} : gen'[h] = gen[h]
      /\ GenLinks'
  <2>1. phase \in {"ok", "failed", "spawning"}
    OBVIOUS
  <2> QED
    BY <2>1, PhaseLinks
<1>2. \A h \in Gens : Pointed(h)' <=> Pointed(h)
  BY <1>1 DEF Pointed
<1>3. Pointed(g)
  BY DEF NoneForgotten
<1>4. \A h \in Gens : End(h)' <=> End(h)
  BY <1>1, <1>2, <1>3 DEF End, Settled
<1>5. PoolLinks'
  BY <1>1 DEF PoolLinks, GenOK
<1>6. NoneForgotten'
  BY <1>1, <1>2, <1>3 DEF NoneForgotten
<1>7. OneSuccessor'
  BY <1>1 DEF OneSuccessor
<1>8. OneEnd' /\ Keyed'
  BY <1>1, <1>4 DEF OneEnd, Keyed
<1>9. Homes'
  <2> SUFFICES ASSUME NEW e \in Gens, Up(e)'
               PROVE  /\ gen'[e].phase = "ok" /\ gen'[e].kind = "boot"
                      /\ Pointed(e) \/ \E h \in Gens : gen'[h].phase = "killing" /\ gen'[h].victim = e
    BY <1>2 DEF Homes
  <2>1. CASE Up(e)
    <3>1. gen[e].phase = "ok" /\ gen[e].kind = "boot" /\ e # g
      BY <2>1 DEF Homes
    <3>2. CASE \E h \in Gens : gen[h].phase = "killing" /\ gen[h].victim = e
      <4>1. PICK h \in Gens : gen[h].phase = "killing" /\ gen[h].victim = e
        BY <3>2
      <4>2. h # g
        BY <4>1
      <4> QED
        BY <1>1, <3>1, <4>1, <4>2
    <3> QED
      BY <1>1, <2>1, <3>1, <3>2 DEF Homes
  <2>2. CASE e = g /\ gen[g].phase = "spawning"
    BY <1>1, <1>3, <2>2 DEF GenLinks
  <2> QED
    BY <2>1, <2>2
<1> QED
  BY <1>1, <1>5, <1>6, <1>7, <1>8, <1>9

\* A boot or a closing fails: the newest gives its key back, another leaves its victim to nobody.
LEMMA FailedKeeps ==
    ASSUME GenOK, ChainInv, NEW g \in Gens, gen[g].phase \in {"killing", "spawning"}, FailGen(g),
           \A e \in Gens : Up(e)' =>
               Up(e) /\ ~(gen[g].phase = "killing" /\ pool[gen[g].ws] # g /\ e = gen[g].victim)
    PROVE  ChainInv'
<1> USE DEF ChainInv
<1> DEFINE w == gen[g].ws
           p == gen[g].prev
<1>1. /\ gen'[g].phase = "failed"
      /\ gen'[g].kind = gen[g].kind /\ gen'[g].ws = w /\ gen'[g].prev = p
      /\ \A h \in Gens \ {g} : gen'[h] = gen[h]
      /\ GenLinks'
  <2>1. "failed" \in {"ok", "failed", "spawning"} /\ gen' = [gen EXCEPT ![g].phase = "failed"]
    BY DEF FailGen
  <2> QED
    BY <2>1, PhaseLinks
<1>2. w \in Workspaces /\ p \in Gens \cup {NoGen} /\ NoGen \notin Gens
  BY PoolConstants DEF GenOK, GenFine, GenRecord
<1>3. p # NoGen => p # g /\ gen[p].phase = "ok" /\ gen[p].ws = w
  BY DEF GenLinks, Container
<1>4. \A h \in Gens : gen'[h].ws = gen[h].ws
  BY <1>1
<1>5. \A v \in Workspaces : pool[v] = g => v = w
  BY <1>2 DEF PoolLinks
<1>6. End(g)
  BY DEF End
<1>7. CASE pool[w] = g
  <2>1. \A v \in Workspaces : pool'[v] = IF v = w THEN p ELSE pool[v]
    BY <1>2, <1>7 DEF FailGen, Restored, GenOK
  <2>2. ~Pointed(g)'
    <3>1. \A h \in Gens : gen[h].phase = "waiting" => gen[h].prev # g
      BY <1>2, <1>7 DEF OneSuccessor
    <3>2. \A h \in Gens : gen'[h].phase = "waiting" => gen'[h].prev # g
      BY <1>1, <3>1
    <3>3. \A v \in Workspaces : pool'[v] # g
      BY <1>2, <1>3, <1>5, <2>1
    <3> QED
      BY <3>2, <3>3 DEF Pointed
  <2>3. \A h \in Gens : h # g => (Pointed(h)' <=> (h = p \/ Pointed(h)))
    BY <1>1, <1>2, <1>7, <2>1 DEF Pointed
  <2>4. p # NoGen => ~Pointed(p)
    <3> SUFFICES ASSUME p # NoGen, Pointed(p) PROVE FALSE
      OBVIOUS
    <3>1. End(p)
      BY <1>3 DEF End, Settled
    <3> QED
      BY <1>2, <1>3, <1>6, <3>1 DEF OneEnd
  <2>5. \A h \in Gens : End(h)' <=> (h = p \/ (h # g /\ End(h)))
    <3>1. p # NoGen => gen'[p] = gen[p]
      BY <1>1, <1>2, <1>3
    <3> QED
      BY <1>1, <1>2, <1>3, <2>2, <2>3, <3>1 DEF End, Settled
  <2>6. PoolLinks'
    BY <1>1, <1>2, <1>3, <1>5, <2>1 DEF PoolLinks, GenOK
  <2>7. NoneForgotten'
    BY <1>1, <2>3 DEF NoneForgotten
  <2>8. OneSuccessor'
    <3>1. \A h \in Gens : gen[h].phase = "waiting" => gen[h].prev # p
      BY <1>2, <2>4 DEF Pointed, GenLinks
    <3> QED
      BY <1>1, <2>1, <3>1 DEF OneSuccessor
  <2>9. \A h \in Gens : h # g /\ End(h) => gen[h].ws # w
    BY <1>6 DEF OneEnd
  <2>10. OneEnd'
    <3> SUFFICES ASSUME NEW h \in Gens, NEW k \in Gens, End(h)', End(k)', gen[h].ws = gen[k].ws
                 PROVE  h = k
      BY <1>4 DEF OneEnd
    <3>1. CASE h = p \/ k = p
      BY <1>2, <1>3, <2>5, <2>9, <3>1
    <3>2. CASE h # p /\ k # p
      BY <2>5, <3>2 DEF OneEnd
    <3> QED
      BY <3>1, <3>2
  <2>11. Keyed'
    <3>1. \A h \in Gens : End(h) => gen[h].ws \in Workspaces
      BY DEF End, Settled, GenOK, GenFine
    <3> QED
      BY <1>2, <1>3, <1>4, <2>1, <2>5, <2>9, <3>1 DEF Keyed
  <2>12. Homes'
    <3> SUFFICES ASSUME NEW e \in Gens, Up(e)'
                 PROVE  /\ gen'[e].phase = "ok" /\ gen'[e].kind = "boot"
                        /\ Pointed(e)' \/ \E h \in Gens : gen'[h].phase = "killing" /\ gen'[h].victim = e
      BY DEF Homes
    <3>1. Up(e)
      OBVIOUS
    <3>2. gen[e].phase = "ok" /\ gen[e].kind = "boot" /\ e # g /\ gen'[e] = gen[e]
      BY <1>1, <3>1 DEF Homes
    <3>3. CASE Pointed(e)
      BY <2>3, <3>2, <3>3
    <3>4. CASE \E h \in Gens : gen[h].phase = "killing" /\ gen[h].victim = e
      <4>1. PICK h \in Gens : gen[h].phase = "killing" /\ gen[h].victim = e
        BY <3>4
      <4>2. CASE h = g
        <5>1. e = p
          BY <4>1, <4>2 DEF GenLinks
        <5> QED
          BY <2>3, <3>2, <5>1
      <4>3. CASE h # g
        BY <1>1, <3>2, <4>1, <4>3
      <4> QED
        BY <4>2, <4>3
    <3> QED
      BY <3>1, <3>2, <3>3, <3>4 DEF Homes
  <2> QED
    BY <1>1, <2>6, <2>7, <2>8, <2>10, <2>11, <2>12
<1>8. CASE pool[w] # g
  <2>1. pool' = pool
    BY <1>8 DEF FailGen, Restored
  <2>2. \A h \in Gens : Pointed(h)' <=> Pointed(h)
    BY <1>1, <2>1 DEF Pointed
  <2>3. Pointed(g)
    BY DEF NoneForgotten
  <2>4. \A h \in Gens : End(h)' <=> End(h)
    BY <1>1, <2>2, <2>3 DEF End, Settled
  <2>5. PoolLinks'
    BY <1>1, <1>5, <1>8, <2>1 DEF PoolLinks, GenOK
  <2>6. NoneForgotten' /\ OneSuccessor'
    BY <1>1, <2>1, <2>2 DEF NoneForgotten, OneSuccessor
  <2>7. OneEnd' /\ Keyed'
    BY <1>4, <2>1, <2>4 DEF OneEnd, Keyed
  <2>8. Homes'
    <3> SUFFICES ASSUME NEW e \in Gens, Up(e)'
                 PROVE  /\ gen'[e].phase = "ok" /\ gen'[e].kind = "boot"
                        /\ Pointed(e) \/ \E h \in Gens : gen'[h].phase = "killing" /\ gen'[h].victim = e
      BY <2>2 DEF Homes
    <3>1. Up(e)
      OBVIOUS
    <3>2. gen[e].phase = "ok" /\ gen[e].kind = "boot" /\ e # g /\ gen'[e] = gen[e]
      BY <1>1, <3>1 DEF Homes
    <3>3. CASE \E h \in Gens : gen[h].phase = "killing" /\ gen[h].victim = e
      <4>1. PICK h \in Gens : gen[h].phase = "killing" /\ gen[h].victim = e
        BY <3>3
      <4>2. h # g
        BY <1>8, <4>1
      <4> QED
        BY <1>1, <3>2, <4>1, <4>2
    <3> QED
      BY <3>1, <3>2, <3>3 DEF Homes
  <2> QED
    BY <1>1, <2>5, <2>6, <2>7, <2>8
<1> QED
  BY <1>7, <1>8

\* A closing comes to the end of its chain.
LEMMA ProceedsKeeps ==
    ASSUME GenOK, ChainInv, NEW g \in Gens, CloserProceeds(g)
    PROVE  ChainInv'
<1> USE DEF ChainInv
<1> DEFINE p == gen[g].prev
           w == gen[g].ws
           nothing == gen[p].phase = "failed" \/ EntryOf(p) = NoGen
<1>1. /\ gen[g].phase = "waiting" /\ p \in Gens /\ gen[p].ws = w /\ gen[g].kind # "boot"
      /\ Settled(p) /\ p # g /\ w \in Workspaces /\ NoGen \notin Gens
  BY PoolConstants DEF CloserProceeds, GenLinks, Settled, GenOK, GenFine
<1>2. UNCHANGED <<pool, box, lost>>
  BY DEF CloserProceeds
<1>3. /\ gen'[g].phase = IF nothing THEN "ok" ELSE "killing"
      /\ gen'[g].victim = IF nothing THEN NoGen ELSE EntryOf(p)
      /\ gen'[g].kind = gen[g].kind /\ gen'[g].ws = w /\ gen'[g].prev = p
      /\ \A h \in Gens \ {g} : gen'[h] = gen[h]
  BY DEF CloserProceeds, GenOK, GenRecord
<1>4. nothing \/ (EntryOf(p) = p /\ Container(p, w))
  BY <1>1 DEF EntryOf, Container, Settled
<1>5. nothing => gen[p].phase = "failed" \/ gen[p].kind # "boot"
  BY <1>1 DEF EntryOf
<1> HIDE DEF nothing
<1>6. ~Pointed(p)'
  <2>1. \A v \in Workspaces : pool[v] # p
    BY <1>1 DEF OneSuccessor
  <2>2. \A h \in Gens : h # g /\ gen[h].phase = "waiting" => gen[h].prev # p
    BY <1>1 DEF OneSuccessor
  <2> QED
    BY <1>2, <1>3, <2>1, <2>2 DEF Pointed
<1>7. \A h \in Gens : h # p => (Pointed(h)' <=> Pointed(h))
  BY <1>1, <1>2, <1>3 DEF Pointed
<1>8. Pointed(g)' /\ Pointed(p)
  <2>1. Pointed(g)
    BY <1>1 DEF NoneForgotten
  <2>2. Pointed(p)
    BY <1>1 DEF Pointed
  <2> QED
    BY <1>1, <1>7, <2>1, <2>2
<1>9. End(p) /\ ~End(g)
  BY <1>1, <1>8 DEF End, Settled
<1>10. \A h \in Gens : End(h)' <=> (h = g \/ (h # p /\ End(h)))
  <2>1. End(g)'
    BY <1>1, <1>3, <1>8 DEF End, Settled
  <2>2. ~End(p)'
    BY <1>1, <1>3, <1>6 DEF End, Settled
  <2>3. \A h \in Gens : h # p /\ h # g => (End(h)' <=> End(h))
    BY <1>3, <1>7 DEF End, Settled
  <2> QED
    BY <1>1, <1>3, <2>1, <2>2, <2>3
<1>11. \A h \in Gens : gen'[h].ws = gen[h].ws
  BY <1>3
<1>12. PoolLinks'
  BY <1>1, <1>2, <1>3 DEF PoolLinks, GenOK
<1>13. GenLinks'
  <2>1. ASSUME NEW h \in Gens
        PROVE  /\ gen'[h].phase = "waiting" =>
                    /\ gen'[h].prev \in Gens /\ gen'[gen'[h].prev].ws = gen'[h].ws
                    /\ gen'[gen'[h].prev].phase # "unused" /\ gen'[h].kind # "boot"
               /\ gen'[h].phase = "killing" =>
                    /\ gen'[h].victim = gen'[h].prev /\ gen'[h].prev \in Gens
                    /\ gen'[gen'[h].prev].phase = "ok" /\ gen'[gen'[h].prev].kind = "boot"
                    /\ gen'[gen'[h].prev].ws = gen'[h].ws
               /\ gen'[h].phase = "spawning" =>
                    /\ gen'[h].kind = "boot"
                    /\ gen'[h].prev # NoGen => gen'[gen'[h].prev].phase = "ok" /\ gen'[gen'[h].prev].ws = gen'[h].ws
    <3>1. CASE h = g
      BY <1>1, <1>3, <1>4, <3>1 DEF Container
    <3>2. CASE h # g
      <4>1. gen'[h] = gen[h]
        BY <1>3, <3>2
      <4>2. CASE gen[h].phase = "waiting"
        <5>1. /\ gen[h].prev \in Gens /\ gen[gen[h].prev].ws = gen[h].ws
              /\ gen[gen[h].prev].phase # "unused" /\ gen[h].kind # "boot"
          BY <4>2 DEF GenLinks
        <5> QED
          BY <1>3, <4>1, <4>2, <5>1
      <4>3. CASE gen[h].phase = "killing"
        <5>1. /\ gen[h].victim = gen[h].prev /\ gen[h].prev \in Gens /\ Container(gen[h].prev, gen[h].ws)
              /\ gen[h].prev # g
          BY <1>1, <4>3 DEF GenLinks, Container
        <5> QED
          BY <1>3, <4>1, <4>3, <5>1 DEF Container
      <4>4. CASE gen[h].phase = "spawning"
        <5>1. /\ gen[h].kind = "boot"
              /\ gen[h].prev # NoGen => /\ gen[gen[h].prev].phase = "ok" /\ gen[gen[h].prev].ws = gen[h].ws
                                        /\ gen[h].prev \in Gens \ {g}
          BY <1>1, <4>4 DEF GenLinks, GenOK, GenRecord
        <5> QED
          BY <1>3, <4>1, <4>4, <5>1
      <4> QED
        BY <4>1, <4>2, <4>3, <4>4
    <3> QED
      BY <3>1, <3>2
  <2> QED
    BY <2>1, Zenon DEF GenLinks, Container
<1>14. NoneForgotten'
  BY <1>1, <1>3, <1>7, <1>8 DEF NoneForgotten, Settled
<1>15. OneSuccessor'
  BY <1>2, <1>3 DEF OneSuccessor
<1>16. \A h \in Gens : End(h) /\ h # p => gen[h].ws # w
  BY <1>1, <1>9 DEF OneEnd
<1>17. OneEnd'
  BY <1>10, <1>11, <1>16 DEF OneEnd
<1>18. Keyed'
  <2>1. pool[w] # NoGen
    BY <1>1, <1>9 DEF Keyed
  <2> QED
    BY <1>2, <1>10, <1>11, <2>1 DEF Keyed
<1>19. Homes'
  <2> SUFFICES ASSUME NEW e \in Gens, Up(e)
               PROVE  /\ gen'[e].phase = "ok" /\ gen'[e].kind = "boot"
                      /\ Pointed(e)' \/ \E h \in Gens : gen'[h].phase = "killing" /\ gen'[h].victim = e
    BY <1>2 DEF Homes, Up
  <2>1. gen[e].phase = "ok" /\ gen[e].kind = "boot" /\ gen'[e] = gen[e]
    BY <1>1, <1>3 DEF Homes
  <2>2. CASE e = p
    BY <1>3, <1>4, <1>5, <2>1, <2>2
  <2>3. CASE e # p /\ Pointed(e)
    BY <1>7, <2>1, <2>3
  <2>4. CASE \E h \in Gens : gen[h].phase = "killing" /\ gen[h].victim = e
    <3>1. PICK h \in Gens : gen[h].phase = "killing" /\ gen[h].victim = e
      BY <2>4
    <3> QED
      BY <1>1, <1>3, <2>1, <3>1
  <2> QED
    BY <2>2, <2>3, <2>4 DEF Homes
<1> QED
  BY <1>12, <1>13, <1>14, <1>15, <1>17, <1>18, <1>19

\* Keys are freed, each by the closing that is its newest generation.
LEMMA FreedKeeps ==
    ASSUME GenOK, ChainInv, NEW W \in SUBSET Workspaces,
           \A w \in W : pool[w] # NoGen /\ gen[pool[w]].phase = "ok" /\ gen[pool[w]].kind # "boot",
           \A v \in Workspaces : pool'[v] = IF v \in W THEN NoGen ELSE pool[v],
           UNCHANGED <<gen, box, lost>>
    PROVE  ChainInv'
<1> USE DEF ChainInv
<1> DEFINE Gone(g) == \E w \in W : pool[w] = g
<1>1. NoGen \notin Gens
  BY PoolConstants
<1>2. \A g \in Gens : Gone(g) => gen[g].phase = "ok" /\ gen[g].kind # "boot" /\ gen[g].ws \in W /\ End(g)
  BY DEF PoolLinks, End, Settled, Pointed
<1>3. \A g \in Gens : Gone(g) => ~Pointed(g)'
  <2> SUFFICES ASSUME NEW g \in Gens, Gone(g) PROVE ~Pointed(g)'
    OBVIOUS
  <2>1. \A h \in Gens : gen[h].phase = "waiting" => gen[h].prev # g
    BY DEF OneSuccessor
  <2>2. \A v \in Workspaces : pool'[v] # g
    BY <1>1, <1>2 DEF PoolLinks
  <2> QED
    BY <2>1, <2>2 DEF Pointed
<1>4. \A g \in Gens : ~Gone(g) => (Pointed(g)' <=> Pointed(g))
  BY <1>1 DEF Pointed
<1> HIDE DEF Gone
<1>5. \A g \in Gens : End(g)' <=> (End(g) /\ ~Gone(g))
  BY <1>2, <1>3, <1>4 DEF End, Settled
<1>6. \A g \in Gens : End(g) /\ ~Gone(g) => gen[g].ws \in Workspaces \ W
  <2> SUFFICES ASSUME NEW g \in Gens, End(g), ~Gone(g) PROVE gen[g].ws \in Workspaces \ W
    OBVIOUS
  <2>1. gen[g].ws \in Workspaces
    BY DEF End, Settled, GenOK, GenFine
  <2>2. ASSUME gen[g].ws \in W PROVE FALSE
    <3>1. pool[gen[g].ws] \in Gens /\ Gone(pool[gen[g].ws]) /\ gen[pool[gen[g].ws]].ws = gen[g].ws
      BY <2>2 DEF GenOK, PoolLinks, Gone
    <3>2. End(pool[gen[g].ws])
      BY <1>2, <3>1
    <3> QED
      BY <3>1, <3>2 DEF OneEnd
  <2> QED
    BY <2>1, <2>2
<1>7. PoolLinks' /\ GenLinks' /\ OneSuccessor'
  <2>1. PoolLinks'
    BY DEF PoolLinks
  <2>2. GenLinks'
    BY DEF GenLinks, Container
  <2>3. OneSuccessor'
    BY <1>1 DEF OneSuccessor, GenLinks
  <2> QED
    BY <2>1, <2>2, <2>3
<1>8. NoneForgotten'
  BY <1>2, <1>4 DEF NoneForgotten
<1>9. OneEnd'
  BY <1>5 DEF OneEnd
<1>10. Keyed'
  BY <1>5, <1>6 DEF Keyed
<1>11. Homes'
  BY <1>2, <1>4 DEF Homes, Up
<1> QED
  BY <1>7, <1>8, <1>9, <1>10, <1>11

(* What every step does to the chains, to a generation that is done, and   *)
(* to the keys in use.                                                     *)
OkStays == \A g \in Gens : gen[g].phase = "ok" => gen'[g].phase = "ok" /\ gen'[g].kind = gen[g].kind
KeysFine == Pooled' \subseteq Pooled \/ (Admits /\ \E w \in Workspaces : Pooled' = Pooled \cup {w})
Effect == ChainInv' /\ OkStays /\ KeysFine

LEMMA FrameEffect ==
    ASSUME GenOK, ChainInv, UNCHANGED <<pool, gen>>, \A e \in Gens : Up(e)' => Up(e)
    PROVE  Effect
<1>1. ChainInv'
  BY ChainFrame
<1> QED
  BY <1>1 DEF Effect, OkStays, KeysFine, Pooled

LEMMA LoopEffect ==
    ASSUME GenOK, ChainInv, NEW c, NEW w \in Workspaces, LoopTop(c, w), UNCHANGED <<box, lost>>
    PROVE  Effect
<1>1. CASE UNCHANGED <<pool, gen>>
  BY <1>1, FrameEffect DEF Up
<1>2. CASE pool[w] = NoGen /\ Admits /\ \E g \in Gens : Boot(g, w, NoGen)
  <2>1. PICK g \in Gens : Boot(g, w, NoGen)
    BY <1>2
  <2>2. ChainInv'
    BY <1>2, <2>1, FirstKeeps
  <2>3. OkStays
    BY <2>1 DEF Boot, Replace, Unused, OkStays, GenOK
  <2>4. Pooled' = Pooled \cup {w}
    BY <2>1, PoolConstants DEF Boot, Replace, Pooled, GenOK
  <2> QED
    BY <1>2, <2>2, <2>3, <2>4 DEF Effect, KeysFine
<1> QED
  BY <1>1, <1>2 DEF LoopTop

\* A new generation over the newest one, which is done.
LEMMA OverEffect ==
    ASSUME GenOK, ChainInv, NEW g \in Gens, NEW w \in Workspaces, pool[w] \in Gens,
           gen[pool[w]].phase = "ok", NEW kind \in {"boot", "reap"}, NEW phase, NEW victim,
           \/ phase = "killing" /\ victim = pool[w] /\ gen[pool[w]].kind = "boot"
           \/ phase = "spawning" /\ kind = "boot" /\ gen[pool[w]].kind # "boot" /\ victim = NoGen,
           Replace(g, w, kind, phase, victim), UNCHANGED <<box, lost>>
    PROVE  Effect
<1> DEFINE r == [phase |-> phase, kind |-> kind, ws |-> w, prev |-> pool[w], victim |-> victim]
<1>1. r \in GenRecord /\ r.ws = w /\ r.prev = pool[w] /\ r.phase = phase /\ r.kind = kind /\ r.victim = victim
  BY DEF GenRecord, Phases, GenKinds
<1>2. gen' = [gen EXCEPT ![g] = r] /\ pool' = [pool EXCEPT ![w] = g] /\ gen[g].phase = "unused"
  BY DEF Replace, Unused
<1> HIDE DEF r
<1>3. ChainInv'
  BY <1>1, <1>2, OverKeeps
<1>4. OkStays
  BY <1>2 DEF OkStays, GenOK
<1>5. Pooled' \subseteq Pooled
  BY <1>2, PoolConstants DEF Pooled, GenOK
<1> QED
  BY <1>3, <1>4, <1>5 DEF Effect, KeysFine

LEMMA ReplacementEffect ==
    ASSUME GenOK, ChainInv, NEW c, call[c].ws \in Workspaces, call[c].on \in Gens, NEW stale,
           \/ stale = NoGen /\ gen[call[c].on].phase = "ok" /\ gen[call[c].on].kind # "boot"
           \/ stale = call[c].on /\ gen[call[c].on].phase = "ok" /\ gen[call[c].on].kind = "boot",
           Replacement(c, stale), UNCHANGED <<box, lost>>
    PROVE  Effect
<1> DEFINE w == call[c].ws
<1>1. CASE pool[w] = call[c].on /\ \E g \in Gens : Boot(g, w, stale)
  <2>1. PICK g \in Gens : Boot(g, w, stale)
    BY <1>1
  <2>2. stale = NoGen <=> gen[call[c].on].kind # "boot"
    BY PoolConstants
  <2> DEFINE phase == IF stale = NoGen THEN "spawning" ELSE "killing"
  <2>3. Replace(g, w, "boot", phase, stale)
    BY <2>1 DEF Boot
  <2>4. \/ phase = "killing" /\ stale = pool[w] /\ gen[pool[w]].kind = "boot"
        \/ phase = "spawning" /\ gen[pool[w]].kind # "boot" /\ stale = NoGen
    BY <1>1, <2>2
  <2>5. pool[w] \in Gens /\ gen[pool[w]].phase = "ok" /\ w \in Workspaces
    BY <1>1
  <2> HIDE DEF phase, w
  <2> QED
    BY <2>3, <2>4, <2>5, OverEffect
<1>2. CASE UNCHANGED <<pool, gen>>
  BY <1>2, FrameEffect DEF Up
<1>3. CASE LoopTop(c, w)
  BY <1>3, LoopEffect
<1> QED
  BY <1>1, <1>2, <1>3 DEF Replacement

\* The caller steps that only look at a generation that failed.
LEMMA FailedIsGone ==
    ASSUME GenOK, ChainInv, NEW w \in Workspaces, NEW g \in Gens, gen[g].phase = "failed"
    PROVE  [pool EXCEPT ![w] = IF @ = g THEN NoGen ELSE @] = pool
<1>1. pool[w] # g
  BY PoolConstants DEF ChainInv, PoolLinks
<1> QED
  BY <1>1 DEF GenOK

LEMMA CallerEffect ==
    ASSUME PoolInv, ChainInv, Probed, NEW c \in Callers,
           (\E w \in Workspaces : Exec(c, w)) \/ Awaited(c) \/ ProbeAlive(c) \/ ProbeDead(c)
              \/ GotReplacement(c) \/ CommandEnds(c)
    PROVE  Effect
<1>0. /\ GenOK /\ CallFine(call[c])
      /\ call[c].pc # "idle" => call[c].ws \in Workspaces /\ call[c].on \in Gens
      /\ UNCHANGED <<box, lost>>
  BY DEF PoolInv, CallOK, CallFine, Exec, Awaited, ProbeAlive, ProbeDead, GotReplacement, CommandEnds
<1>1. CASE \E w \in Workspaces : Exec(c, w)
  BY <1>0, <1>1, LoopEffect DEF Exec
<1>2. CASE Awaited(c)
  <2> DEFINE g == call[c].on
             w == call[c].ws
  <2>1. g \in Gens /\ w \in Workspaces
    BY <1>0, <1>2 DEF Awaited
  <2>2. CASE gen[g].phase = "failed" /\ pool' = [pool EXCEPT ![w] = IF @ = g THEN NoGen ELSE @] /\ UNCHANGED gen
    <3>1. pool' = pool
      BY <1>0, <2>1, <2>2, FailedIsGone
    <3> QED
      BY <1>0, <2>2, <3>1, FrameEffect DEF Up
  <2>3. CASE LoopTop(c, w)
    BY <1>0, <2>1, <2>3, LoopEffect
  <2>4. CASE UNCHANGED <<pool, gen>>
    BY <1>0, <2>4, FrameEffect DEF Up
  <2>5. CASE gen[g].phase = "ok" /\ EntryOf(g) = NoGen /\ Replacement(c, NoGen)
    <3>1. gen[g].kind # "boot"
      BY <2>1, <2>5, PoolConstants DEF EntryOf
    <3> QED
      BY <1>0, <2>1, <2>5, <3>1, ReplacementEffect
  <2> QED
    BY <1>2, <2>2, <2>3, <2>4, <2>5 DEF Awaited
<1>3. CASE ProbeAlive(c)
  <2>1. call[c].ws \in Workspaces
    BY <1>0, <1>3 DEF ProbeAlive
  <2>2. CASE UNCHANGED <<pool, gen>>
    BY <1>0, <2>2, FrameEffect DEF Up
  <2>3. CASE LoopTop(c, call[c].ws)
    BY <1>0, <2>1, <2>3, LoopEffect
  <2> QED
    BY <1>3, <2>2, <2>3 DEF ProbeAlive
<1>4. CASE ProbeDead(c)
  <2>1. /\ call[c].ws \in Workspaces /\ call[c].on \in Gens /\ call[c].entry = call[c].on
        /\ gen[call[c].on].phase = "ok" /\ gen[call[c].on].kind = "boot"
    BY <1>0, <1>4 DEF ProbeDead, Probed
  <2>2. Replacement(c, call[c].entry)
    BY <1>4 DEF ProbeDead
  <2> QED
    BY <1>0, <2>1, <2>2, ReplacementEffect
<1>5. CASE GotReplacement(c)
  <2> DEFINE g == call[c].on
             w == call[c].ws
  <2>1. g \in Gens /\ w \in Workspaces /\ UNCHANGED gen
    BY <1>0, <1>5 DEF GotReplacement
  <2>2. CASE gen[g].phase = "failed" /\ pool' = [pool EXCEPT ![w] = IF @ = g THEN NoGen ELSE @]
    <3>1. pool' = pool
      BY <1>0, <2>1, <2>2, FailedIsGone
    <3> QED
      BY <1>0, <2>1, <3>1, FrameEffect DEF Up
  <2>3. CASE UNCHANGED pool
    BY <1>0, <2>1, <2>3, FrameEffect DEF Up
  <2> QED
    BY <1>5, <2>2, <2>3 DEF GotReplacement
<1>6. CASE CommandEnds(c)
  BY <1>0, <1>6, FrameEffect DEF CommandEnds, Up
<1> QED
  BY <1>1, <1>2, <1>3, <1>4, <1>5, <1>6

LEMMA GenEffect ==
    ASSUME PoolInv, ChainInv, NEW g \in Gens,
           SpawnOK(g) \/ SpawnFails(g) \/ KillOK(g) \/ KillFails(g) \/ CloserProceeds(g)
              \/ FreeKey(g) \/ ContainerDies(g) \/ RemoveOrphan(g)
    PROVE  Effect
<1>0. GenOK /\ box \in [Gens -> {"none", "up", "dead"}] /\ NoGen \notin Gens
  BY PoolConstants DEF PoolInv, RestOK
<1>1. ASSUME NEW phase \in {"ok", "spawning", "failed"}, gen' = [gen EXCEPT ![g].phase = phase],
             gen[g].phase \in {"killing", "spawning"}, UNCHANGED pool \/ pool' = Restored(g), ChainInv'
      PROVE  Effect
  <2>1. OkStays
    BY <1>0, <1>1 DEF OkStays, GenOK
  <2>2. Pooled' \subseteq Pooled
    BY <1>0, <1>1 DEF Pooled, Restored, GenOK
  <2> QED
    BY <1>1, <2>1, <2>2 DEF Effect, KeysFine
<1>2. CASE SpawnOK(g)
  <2>1. \A e \in Gens : Up(e)' => Up(e) \/ e = g
    BY <1>0, <1>2 DEF SpawnOK, Up
  <2>2. ChainInv'
    BY <1>0, <1>2, <2>1, SettledKeeps DEF SpawnOK
  <2> QED
    BY <1>1, <1>2, <2>2 DEF SpawnOK
<1>3. CASE SpawnFails(g)
  <2>1. \A e \in Gens : Up(e)' => Up(e)
    BY <1>0, <1>3 DEF SpawnFails, Up
  <2>2. ChainInv'
    BY <1>0, <1>3, <2>1, FailedKeeps DEF SpawnFails
  <2> QED
    BY <1>1, <1>3, <2>2 DEF SpawnFails, FailGen
<1>4. CASE KillOK(g)
  <2> DEFINE phase == IF gen[g].kind = "boot" THEN "spawning" ELSE "ok"
  <2>1. \A e \in Gens : Up(e)' => Up(e) /\ e # gen[g].victim
    BY <1>0, <1>4 DEF KillOK, Up
  <2>2. gen' = [gen EXCEPT ![g].phase = phase] /\ gen[g].phase = "killing" /\ UNCHANGED pool
        /\ phase \in {"ok", "spawning"} /\ (phase = "spawning" => gen[g].kind = "boot")
    BY <1>4 DEF KillOK
  <2> HIDE DEF phase
  <2>3. ChainInv'
    BY <1>0, <2>1, <2>2, SettledKeeps
  <2> QED
    BY <1>1, <2>2, <2>3
<1>5. CASE KillFails(g)
  <2>1. CASE gen[g].kind = "shutdownAll"
    <3>1. gen' = [gen EXCEPT ![g].phase = "ok"] /\ UNCHANGED pool /\ gen[g].phase = "killing"
      BY <1>5, <2>1 DEF KillFails
    <3>2. \A e \in Gens : Up(e)' => Up(e) /\ e # gen[g].victim
      BY <1>0, <1>5, <2>1 DEF KillFails, Up
    <3>3. ChainInv'
      BY <1>0, <3>1, <3>2, SettledKeeps
    <3> QED
      BY <1>1, <3>1, <3>3
  <2>2. CASE gen[g].kind # "shutdownAll"
    <3>1. FailGen(g) /\ gen[g].phase = "killing"
      BY <1>5, <2>2 DEF KillFails
    <3>2. \A e \in Gens : Up(e)' => Up(e) /\ ~(pool[gen[g].ws] # g /\ e = gen[g].victim)
      BY <1>0, <1>5, <2>2 DEF KillFails, Up
    <3>3. ChainInv'
      BY <1>0, <3>1, <3>2, FailedKeeps
    <3> QED
      BY <1>1, <3>1, <3>3 DEF FailGen
  <2> QED
    BY <2>1, <2>2
<1>6. CASE CloserProceeds(g)
  <2>1. ChainInv'
    BY <1>0, <1>6, ProceedsKeeps
  <2>2. OkStays /\ Pooled' = Pooled
    BY <1>0, <1>6 DEF CloserProceeds, OkStays, Pooled, GenOK
  <2> QED
    BY <2>1, <2>2 DEF Effect, KeysFine
<1>7. CASE FreeKey(g)
  <2> DEFINE w == gen[g].ws
  <2>1. w \in Workspaces
    BY <1>0, <1>7 DEF FreeKey, GenOK, GenFine
  <2>2. /\ pool[w] = g /\ gen[g].phase = "ok" /\ gen[g].kind # "boot"
        /\ pool' = [pool EXCEPT ![w] = NoGen] /\ UNCHANGED <<gen, box, lost>>
    BY <1>7 DEF FreeKey
  <2> HIDE DEF w
  <2>3. \A v \in Workspaces : pool'[v] = IF v \in {w} THEN NoGen ELSE pool[v]
    BY <1>0, <2>2 DEF GenOK
  <2>4. ChainInv'
    BY <1>0, <2>1, <2>2, <2>3, FreedKeeps
  <2>5. OkStays /\ Pooled' \subseteq Pooled
    BY <2>2, <2>3 DEF OkStays, Pooled
  <2> QED
    BY <2>4, <2>5 DEF Effect, KeysFine
<1>8. CASE ContainerDies(g) \/ RemoveOrphan(g)
  <2>1. UNCHANGED <<pool, gen>> /\ \A e \in Gens : Up(e)' => Up(e)
    BY <1>0, <1>8 DEF ContainerDies, RemoveOrphan, Up
  <2> QED
    BY <1>0, <2>1, FrameEffect
<1> QED
  BY <1>2, <1>3, <1>4, <1>5, <1>6, <1>7, <1>8

LEMMA ShutdownEffect == ASSUME PoolInv, ChainInv, NEW w \in Workspaces, Shutdown(w) PROVE Effect
<1>0. GenOK
  BY DEF PoolInv
<1>1. PICK g \in Gens : Replace(g, w, "shutdown", "waiting", NoGen)
  BY DEF Shutdown
<1> DEFINE W == {w}
           closer == [v \in W |-> g]
           r == [phase |-> "waiting", kind |-> "shutdown", ws |-> w, prev |-> pool[w], victim |-> NoGen]
<1>2. /\ gen' = [gen EXCEPT ![g] = r] /\ pool' = [pool EXCEPT ![w] = g] /\ gen[g].phase = "unused"
      /\ UNCHANGED <<box, lost>> /\ pool[w] # NoGen
  BY <1>1 DEF Replace, Unused, Shutdown
<1>3. closer \in [W -> Unused] /\ closer[w] = g /\ W \in SUBSET Workspaces
  BY <1>2 DEF Unused
<1>4. r.phase = "waiting" /\ r.kind # "boot" /\ r.ws = w /\ r.prev = pool[w]
  OBVIOUS
<1>5. \A v \in W : v = w
  OBVIOUS
<1> HIDE DEF r, closer, W
<1>6. gen'[g] = r /\ \A h \in Gens : h # g => gen'[h] = gen[h]
  BY <1>0, <1>2 DEF GenOK
<1>7. \A v \in Workspaces : pool'[v] = IF v \in W THEN closer[v] ELSE pool[v]
  BY <1>0, <1>2, <1>3 DEF GenOK, W
<1>8. \A h \in Gens : (\A v \in W : closer[v] # h) => gen'[h] = gen[h]
  BY <1>3, <1>6 DEF W
<1>9. /\ \A u, v \in W : u # v => closer[u] # closer[v]
      /\ \A v \in W : /\ pool[v] # NoGen /\ gen'[closer[v]].phase = "waiting" /\ gen'[closer[v]].kind # "boot"
                      /\ gen'[closer[v]].ws = v /\ gen'[closer[v]].prev = pool[v]
  BY <1>2, <1>3, <1>4, <1>5, <1>6
<1>10. ChainInv'
  BY <1>0, <1>2, <1>3, <1>7, <1>8, <1>9, ClosingsKeep
<1>11. OkStays /\ Pooled' \subseteq Pooled
  BY <1>0, <1>2, <1>6 DEF OkStays, Pooled, GenOK
<1> QED
  BY <1>10, <1>11 DEF Effect, KeysFine

LEMMA ShutdownAllEffect == ASSUME PoolInv, ChainInv, ShutdownAll PROVE Effect
<1>0. GenOK
  BY DEF PoolInv
<1> DEFINE Owner(closer, g) == CHOOSE w \in Pooled : closer[w] = g
           r(w) == [phase |-> "waiting", kind |-> "shutdownAll", ws |-> w, prev |-> pool[w], victim |-> NoGen]
<1>1. PICK closer \in [Pooled -> Unused] :
        /\ \A v, w \in Pooled : v # w => closer[v] # closer[w]
        /\ gen' = [g \in Gens |-> IF \E w \in Pooled : closer[w] = g THEN r(Owner(closer, g)) ELSE gen[g]]
        /\ pool' = [w \in Workspaces |-> IF w \in Pooled THEN closer[w] ELSE NoGen]
  BY DEF ShutdownAll
<1>2. Pooled \in SUBSET Workspaces /\ \A w \in Pooled : pool[w] # NoGen
  BY DEF Pooled
<1>3. \A w \in Pooled : closer[w] \in Gens /\ gen[closer[w]].phase = "unused"
  BY DEF Unused
<1>4. \A w \in Pooled : Owner(closer, closer[w]) = w
  BY <1>1
<1>5. \A w \in Pooled : gen'[closer[w]] = r(w)
  BY <1>1, <1>3, <1>4
<1>6. \A h \in Gens : (\A w \in Pooled : closer[w] # h) => gen'[h] = gen[h]
  BY <1>1
<1>7. \A w : r(w).phase = "waiting" /\ r(w).kind # "boot" /\ r(w).ws = w /\ r(w).prev = pool[w]
  OBVIOUS
<1> HIDE DEF r
<1>8. \A w \in Pooled : /\ gen'[closer[w]].phase = "waiting" /\ gen'[closer[w]].kind # "boot"
                        /\ gen'[closer[w]].ws = w /\ gen'[closer[w]].prev = pool[w]
  BY <1>5, <1>7
<1>9. \A v \in Workspaces : pool'[v] = IF v \in Pooled THEN closer[v] ELSE pool[v]
  BY <1>1 DEF Pooled
<1>10. ChainInv'
  <2>1. UNCHANGED <<box, lost>> /\ \A v, w \in Pooled : v # w => closer[v] # closer[w]
    BY <1>1 DEF ShutdownAll
  <2>2. \A h \in Gens : (\A w \in Pooled : closer[w] # h) => gen'[h] = gen[h]
    BY <1>6
  <2> QED
    BY <1>0, <1>2, <1>8, <1>9, <2>1, <2>2, ClosingsKeep
<1>11. OkStays
  BY <1>3, <1>6 DEF OkStays
<1>12. Pooled' \subseteq Pooled
  BY <1>9 DEF Pooled
<1> QED
  BY <1>10, <1>11, <1>12 DEF Effect, KeysFine

LEMMA OtherEffect ==
    ASSUME PoolInv, ChainInv, (\E w \in Workspaces : Reap(w)) \/ FreeAll \/ PoolTick \/ ListOrphans
    PROVE  Effect
<1>0. GenOK /\ NoGen \notin Gens
  BY PoolConstants DEF PoolInv
<1>1. CASE \E w \in Workspaces : Reap(w)
  <2>1. PICK w \in Workspaces : Reap(w)
    BY <1>1
  <2>2. pool[w] \in Gens /\ gen[pool[w]].phase = "ok" /\ gen[pool[w]].kind = "boot"
    BY <1>0, <2>1 DEF Reap, EntryOf, GenOK
  <2>3. PICK g \in Gens : Replace(g, w, "reap", "killing", pool[w])
    BY <2>1 DEF Reap
  <2> QED
    BY <1>0, <2>1, <2>2, <2>3, OverEffect DEF Reap
<1>2. CASE FreeAll
  <2> DEFINE closers == {g \in Gens : gen[g].kind = "shutdownAll"}
             W == {w \in Workspaces : pool[w] \in closers}
  <2>1. /\ \A g \in closers : gen[g].phase = "ok"
        /\ pool' = [w \in Workspaces |-> IF pool[w] \in closers THEN NoGen ELSE pool[w]]
        /\ UNCHANGED <<gen, box, lost>>
    BY <1>2 DEF FreeAll
  <2>2. /\ W \in SUBSET Workspaces
        /\ \A w \in W : pool[w] # NoGen /\ gen[pool[w]].phase = "ok" /\ gen[pool[w]].kind # "boot"
        /\ \A v \in Workspaces : pool'[v] = IF v \in W THEN NoGen ELSE pool[v]
    BY <1>0, <2>1
  <2> HIDE DEF W
  <2>3. ChainInv'
    BY <1>0, <2>1, <2>2, FreedKeeps
  <2>4. OkStays /\ Pooled' \subseteq Pooled
    BY <2>1, <2>2 DEF OkStays, Pooled
  <2> QED
    BY <2>3, <2>4 DEF Effect, KeysFine
<1>3. CASE PoolTick \/ ListOrphans
  BY <1>0, <1>3, FrameEffect DEF PoolTick, ListOrphans, Up
<1> QED
  BY <1>1, <1>2, <1>3

LEMMA NextEffect == ASSUME PoolInv, ChainInv, Probed, [PoolNext]_poolVars PROVE Effect
<1>1. CASE UNCHANGED poolVars
  <2>1. UNCHANGED <<pool, gen, box, lost>> /\ GenOK
    BY <1>1 DEF poolVars, PoolInv
  <2> QED
    BY <2>1, FrameEffect DEF Up
<1>2. CASE PoolNext
  BY <1>2, CallerEffect, GenEffect, ShutdownEffect, ShutdownAllEffect, OtherEffect DEF PoolNext
<1> QED
  BY <1>1, <1>2

LEMMA ProbedKeeps == ASSUME PoolInv, Probed, OkStays, [PoolNext]_poolVars PROVE Probed'
<1> USE DEF PoolInv
<1> DEFINE Same(c) == call'[c].pc = "probe" =>
                         call[c].pc = "probe" /\ call'[c].on = call[c].on /\ call'[c].entry = call[c].entry
           Saw(c) == /\ call'[c].entry = call'[c].on /\ call'[c].on \in Gens
                     /\ gen[call'[c].on].phase = "ok" /\ gen[call'[c].on].kind = "boot"
<1>1. (\A c \in Callers : Same(c) \/ Saw(c)) => Probed'
  <2> SUFFICES ASSUME NEW c \in Callers, Same(c) \/ Saw(c), call'[c].pc = "probe"
               PROVE  /\ call'[c].entry = call'[c].on
                      /\ gen'[call'[c].on].phase = "ok" /\ gen'[call'[c].on].kind = "boot"
    BY DEF Probed
  <2>1. CASE Same(c)
    <3>1. /\ call[c].entry = call[c].on /\ call[c].on \in Gens
          /\ gen[call[c].on].phase = "ok" /\ gen[call[c].on].kind = "boot"
      BY <2>1 DEF Probed, CallOK, CallFine
    <3> QED
      BY <2>1, <3>1 DEF OkStays
  <2>2. CASE Saw(c)
    BY <2>2 DEF OkStays
  <2> QED
    BY <2>1, <2>2
<1>2. CASE UNCHANGED call
  BY <1>1, <1>2
<1>3. ASSUME NEW c \in Callers, NEW k, call' = [call EXCEPT ![c] = k], k.pc # "probe" PROVE Probed'
  <2>1. \A d \in Callers : Same(d)
    BY <1>3 DEF CallOK
  <2> QED
    BY <1>1, <2>1
<1> HIDE DEF Same, Saw
<1>0. NoCall.pc # "probe" /\ \A w, g : [NoCall EXCEPT !.pc = "await", !.ws = w, !.on = g].pc # "probe"
  BY DEF NoCall
<1>4. ASSUME NEW c \in Callers, NEW w \in Workspaces, LoopTop(c, w) PROVE Probed'
  <2>1. CASE call' = [call EXCEPT ![c] = NoCall]
    BY <1>0, <1>3, <2>1
  <2>2. ASSUME NEW g, call' = [call EXCEPT ![c] = [NoCall EXCEPT !.pc = "await", !.ws = w, !.on = g]]
        PROVE  Probed'
    <3> DEFINE k == [NoCall EXCEPT !.pc = "await", !.ws = w, !.on = g]
    <3>1. call' = [call EXCEPT ![c] = k] /\ k.pc # "probe"
      BY <1>0, <2>2
    <3> HIDE DEF k
    <3> QED
      BY <1>3, <3>1
  <2> QED
    BY <1>4, <2>1, <2>2 DEF LoopTop
<1>5. ASSUME NEW c \in Callers, NEW stale, Replacement(c, stale), call[c].ws \in Workspaces PROVE Probed'
  <2>1. ASSUME NEW g, call' = [call EXCEPT ![c].pc = "replace", ![c].on = g, ![c].entry = NoGen]
        PROVE  Probed'
    <3> DEFINE k == [call[c] EXCEPT !.pc = "replace", !.on = g, !.entry = NoGen]
    <3>1. call' = [call EXCEPT ![c] = k] /\ k.pc = "replace"
      BY <2>1 DEF CallOK, CallRecord
    <3> HIDE DEF k
    <3> QED
      BY <1>3, <3>1
  <2> QED
    BY <1>4, <1>5, <2>1 DEF Replacement
<1>6. ASSUME NEW c \in Callers PROVE CallFine(call[c]) /\ call[c] \in CallRecord
  BY DEF CallOK
<1>7. CASE \E c \in Callers, w \in Workspaces : Exec(c, w)
  BY <1>4, <1>7 DEF Exec
<1>8. ASSUME NEW c \in Callers, Awaited(c) PROVE Probed'
  <2> DEFINE g == call[c].on
             w == call[c].ws
  <2>1. g \in Gens /\ w \in Workspaces
    BY <1>6, <1>8 DEF Awaited, CallFine
  <2>2. CASE call' = [call EXCEPT ![c] = NoCall]
    BY <1>0, <1>3, <2>2
  <2>3. CASE LoopTop(c, w)
    BY <1>4, <2>1, <2>3
  <2>4. CASE gen[g].phase = "ok" /\ EntryOf(g) # NoGen
             /\ call' = [call EXCEPT ![c].pc = "probe", ![c].entry = EntryOf(g)]
    <3>1. gen[g].kind = "boot" /\ EntryOf(g) = g
      BY <2>4 DEF EntryOf
    <3>2. \A d \in Callers : d # c => call'[d] = call[d]
      BY <2>4 DEF CallOK
    <3>3. call'[c].on = g /\ call'[c].entry = g
      BY <1>6, <2>4, <3>1 DEF CallOK, CallRecord
    <3>4. Saw(c) /\ \A d \in Callers : d # c => Same(d)
      BY <2>1, <2>4, <3>1, <3>2, <3>3 DEF Same, Saw
    <3> QED
      BY <1>1, <3>4
  <2>5. CASE Replacement(c, NoGen)
    BY <1>5, <2>1, <2>5
  <2> QED
    BY <1>8, <2>2, <2>3, <2>4, <2>5 DEF Awaited
<1>9. ASSUME NEW c \in Callers, ProbeAlive(c) PROVE Probed'
  <2>1. call[c].ws \in Workspaces
    BY <1>6, <1>9 DEF ProbeAlive, CallFine
  <2>2. CASE call' = [call EXCEPT ![c].pc = "run"]
    <3>1. call' = [call EXCEPT ![c] = [call[c] EXCEPT !.pc = "run"]] /\ [call[c] EXCEPT !.pc = "run"].pc = "run"
      BY <1>6, <2>2 DEF CallOK, CallRecord
    <3> QED
      BY <1>3, <3>1
  <2> QED
    BY <1>4, <1>9, <2>1, <2>2 DEF ProbeAlive
<1>10. ASSUME NEW c \in Callers, ProbeDead(c) PROVE Probed'
  BY <1>5, <1>6, <1>10 DEF ProbeDead, CallFine
<1>11. ASSUME NEW c \in Callers, GotReplacement(c) PROVE Probed'
  <2>1. CASE call' = [call EXCEPT ![c] = NoCall]
    BY <1>0, <1>3, <2>1
  <2>2. CASE call' = [call EXCEPT ![c].pc = "run", ![c].entry = call[c].on]
    <3> DEFINE k == [call[c] EXCEPT !.pc = "run", !.entry = call[c].on]
    <3>1. call' = [call EXCEPT ![c] = k] /\ k.pc = "run"
      BY <1>6, <2>2 DEF CallOK, CallRecord
    <3> HIDE DEF k
    <3> QED
      BY <1>3, <3>1
  <2> QED
    BY <1>11, <2>1, <2>2 DEF GotReplacement
<1>12. ASSUME NEW c \in Callers, CommandEnds(c) PROVE Probed'
  BY <1>0, <1>3, <1>12 DEF CommandEnds
<1>13. CASE PoolTick
  <2>1. \A c \in Callers : Same(c)
    BY <1>6, <1>13 DEF PoolTick, CallRecord, Same
  <2> QED
    BY <1>1, <2>1
<1>14. CASE /\ \/ \E g \in Gens : \/ SpawnOK(g) \/ SpawnFails(g) \/ KillOK(g) \/ KillFails(g)
                                  \/ CloserProceeds(g) \/ FreeKey(g) \/ ContainerDies(g) \/ RemoveOrphan(g)
               \/ \E w \in Workspaces : Shutdown(w) \/ Reap(w)
               \/ ShutdownAll \/ FreeAll \/ ListOrphans \/ UNCHANGED poolVars
  BY <1>2, <1>14 DEF SpawnOK, SpawnFails, KillOK, KillFails, CloserProceeds, FreeKey, ContainerDies,
     RemoveOrphan, Shutdown, Reap, ShutdownAll, FreeAll, ListOrphans, poolVars
<1> QED
  BY <1>7, <1>8, <1>9, <1>10, <1>11, <1>12, <1>13, <1>14 DEF PoolNext

(* The keys in use never pass the cap: only a boot of a free key adds one, *)
(* and it has counted them in the same step.                               *)
KeysBounded == IsFiniteSet(Pooled) /\ Cardinality(Pooled) <= Cap

LEMMA KeysKeep == KeysBounded /\ KeysFine => KeysBounded'
<1> SUFFICES ASSUME KeysBounded, KeysFine PROVE IsFiniteSet(Pooled') /\ Cardinality(Pooled') <= Cap
  BY DEF KeysBounded
<1>1. Cardinality(Pooled) \in Nat /\ Cap \in Nat
  BY FS_CardinalityType, PoolConstants DEF KeysBounded
<1>2. CASE Pooled' \subseteq Pooled
  <2>1. IsFiniteSet(Pooled') /\ Cardinality(Pooled') <= Cardinality(Pooled)
    BY <1>2, FS_Subset DEF KeysBounded
  <2>2. Cardinality(Pooled') \in Nat
    BY <2>1, FS_CardinalityType
  <2> QED
    BY <1>1, <2>1, <2>2 DEF KeysBounded
<1>3. CASE Admits /\ \E w \in Workspaces : Pooled' = Pooled \cup {w}
  <2>1. PICK w \in Workspaces : Pooled' = Pooled \cup {w}
    BY <1>3
  <2>2. /\ IsFiniteSet(Pooled')
        /\ Cardinality(Pooled') = IF w \in Pooled THEN Cardinality(Pooled) ELSE Cardinality(Pooled) + 1
    BY <2>1, FS_AddElement DEF KeysBounded
  <2> QED
    BY <1>1, <1>3, <2>2 DEF Admits
<1> QED
  BY <1>2, <1>3 DEF KeysFine

ContainerInv == PoolInv /\ ChainInv /\ Probed /\ KeysBounded

LEMMA ContainerInit == PoolInit => ContainerInv
<1> SUFFICES ASSUME PoolInit PROVE ContainerInv
  OBVIOUS
<1>1. Pooled = {}
  BY DEF PoolInit, Pooled
<1>2. KeysBounded
  BY <1>1, FS_EmptySet, PoolConstants DEF KeysBounded
<1> QED
  BY <1>2, InitInv, ChainInit DEF ContainerInv

LEMMA ContainerNext == ContainerInv /\ [PoolNext]_poolVars => ContainerInv'
<1> SUFFICES ASSUME ContainerInv, [PoolNext]_poolVars PROVE ContainerInv'
  OBVIOUS
<1>1. Effect
  BY NextEffect DEF ContainerInv
<1>2. ChainInv' /\ OkStays /\ KeysFine
  BY <1>1 DEF Effect
<1> QED
  BY <1>2, NextInv, ProbedKeeps, KeysKeep DEF ContainerInv

\* Every container held leads to the one end of its key.
LEMMA HeldEnd ==
    ASSUME PoolInv, ChainInv, NEW w \in Workspaces, NEW e \in Held(w)
    PROVE  \E b \in Gens : /\ End(b) /\ gen[b].ws = w
                           /\ b = e \/ (gen[b].phase = "killing" /\ gen[b].victim = e)
<1>1. e \in Gens /\ Up(e) /\ gen[e].ws = w
  BY DEF Held, Up
<1>2. gen[e].phase = "ok"
  BY <1>1 DEF ChainInv, Homes
<1>3. CASE Pointed(e)
  BY <1>1, <1>2, <1>3 DEF End, Settled
<1>4. CASE \E g \in Gens : gen[g].phase = "killing" /\ gen[g].victim = e
  <2>1. PICK g \in Gens : gen[g].phase = "killing" /\ gen[g].victim = e
    BY <1>4
  <2>2. gen[g].ws = w
    BY <1>1, <2>1 DEF ChainInv, GenLinks, Container
  <2> QED
    BY <2>1, <2>2 DEF End
<1> QED
  BY <1>1, <1>3, <1>4 DEF ChainInv, Homes

LEMMA HeldOne ==
    ASSUME PoolInv, ChainInv, NEW w \in Workspaces, NEW e \in Held(w)
    PROVE  pool[w] # NoGen /\ \A f \in Held(w) : f = e
<1>1. PICK b \in Gens : /\ End(b) /\ gen[b].ws = w
                        /\ b = e \/ (gen[b].phase = "killing" /\ gen[b].victim = e)
  BY HeldEnd
<1>2. pool[w] # NoGen
  BY <1>1 DEF ChainInv, Keyed
<1>3. ASSUME NEW f \in Held(w) PROVE f = e
  <2>1. PICK c \in Gens : /\ End(c) /\ gen[c].ws = w
                          /\ c = f \/ (gen[c].phase = "killing" /\ gen[c].victim = f)
    BY HeldEnd
  <2>2. b = c
    BY <1>1, <2>1 DEF ChainInv, OneEnd
  <2>3. gen[e].phase = "ok" /\ gen[f].phase = "ok"
    BY DEF ChainInv, Homes, Up, Held
  <2> QED
    BY <1>1, <2>1, <2>2, <2>3
<1> QED
  BY <1>2, <1>3

LEMMA ContainersHold == ContainerInv => OneContainer /\ CapHolds
<1> SUFFICES ASSUME ContainerInv PROVE OneContainer /\ CapHolds
  OBVIOUS
<1> USE DEF ContainerInv
<1>1. OneContainer
  <2> SUFFICES ASSUME NEW w \in Workspaces PROVE Cardinality(Held(w)) <= 1
    BY DEF OneContainer
  <2>1. CASE Held(w) = {}
    BY <2>1, FS_EmptySet
  <2>2. CASE Held(w) # {}
    <3>1. PICK e \in Held(w) : TRUE
      BY <2>2
    <3>2. Held(w) = {e}
      BY <3>1, HeldOne
    <3> QED
      BY <3>2, FS_Singleton
  <2> QED
    BY <2>1, <2>2
<1>2. CapHolds
  <2> DEFINE all == UNION {Held(w) : w \in Workspaces}
             home == [e \in all |-> gen[e].ws]
  <2>1. ASSUME NEW e \in all PROVE gen[e].ws \in Pooled /\ e \in Held(gen[e].ws)
    <3>1. PICK w \in Workspaces : e \in Held(w)
      OBVIOUS
    <3>2. gen[e].ws = w
      BY <3>1 DEF Held
    <3> QED
      BY <3>1, <3>2, HeldOne DEF Pooled
  <2>2. ASSUME NEW e \in all, NEW f \in all, gen[e].ws = gen[f].ws PROVE e = f
    <3>1. gen[e].ws \in Workspaces /\ e \in Held(gen[e].ws) /\ f \in Held(gen[e].ws)
      BY <2>1, <2>2 DEF Pooled
    <3> QED
      BY <3>1, HeldOne
  <2>3. home \in Injection(all, Pooled)
    <3>1. home \in [all -> Pooled]
      BY <2>1
    <3>2. \A e, f \in all : home[e] = home[f] => e = f
      BY <2>2
    <3> HIDE DEF home, all
    <3> QED
      BY <3>1, <3>2 DEF Injection, IsInjective
  <2> HIDE DEF all, home
  <2>4. IsFiniteSet(all) /\ Cardinality(all) <= Cardinality(Pooled)
    BY <2>3, FS_Injection DEF KeysBounded
  <2>5. Cardinality(all) \in Nat /\ Cardinality(Pooled) \in Nat /\ Cap \in Nat
    BY <2>4, FS_CardinalityType, PoolConstants DEF KeysBounded
  <2> QED
    BY <2>4, <2>5 DEF CapHolds, KeysBounded, all
<1> QED
  BY <1>1, <1>2

LEMMA ContainerInvariant == PoolInit /\ [][PoolNext]_poolVars => []ContainerInv
<1> HIDE DEF ContainerInv
<1> QED
  BY ContainerInit, ContainerNext, PTL

(* For any number of workspaces, callers and generations: however boots,   *)
(* probes, failed removals, closings, the reaper and the start's clean-up  *)
(* overlap, one workspace has at most one container the process answers    *)
(* for, and all of them together stay within the cap.                      *)
THEOREM OneEachWithinCap == PoolSpec => [](OneContainer /\ CapHolds)
<1> HIDE DEF ContainerInv
<1> QED
  BY ContainerInvariant, ContainersHold, PTL DEF PoolSpec
====
