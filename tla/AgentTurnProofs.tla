---- MODULE AgentTurnProofs ----
(***************************************************************************)
(* For any number of turns, Claude slots, rounds and calls: no tool call   *)
(* starts outside the rounds of its turn, a slot is counted for exactly    *)
(* the turns whose query runs, and the calls of a round keep their order.  *)
(*                                                                         *)
(* A slot handed to a waiter wakes another turn, so what a turn may do     *)
(* rests on what the queue holds: TurnsFine says what each turn is at each *)
(* stage, QueueOK that the waiters are the turns that wait, CountOK that   *)
(* the count is theirs.  The order of a round is a matter of its calls     *)
(* alone (BatchFine).                                                      *)
(***************************************************************************)
EXTENDS AgentTurn, FilteringProofs, SequenceTheorems, FiniteSetTheorems, TLAPS

TurnRecord == [pc : {"idle", "slot", "round", "asking", "tools", "wrap", "done"},
               rounds : Nat, retries : Nat, work : BOOLEAN, root : BOOLEAN,
               wrapUp : {"none", "deadline", "round_cap"},
               reply : {"none", "model", "fallback", "provider", "maintenance"}]
CallRecord == [tool : Tools, st : {"new", "queued", "run", "ran", "refused", "dropped"}]

TypesOK ==
    /\ engine \in {"responses", "claude"}
    /\ turn \in [Turns -> TurnRecord]
    /\ batch \in [Turns -> Seq(CallRecord)]
    /\ active \in Nat
    /\ waiters \in Seq(Turns)

Querying == {"asking", "tools"}

(* A turn asks for tools only while it has not been told to wrap up; reads *)
(* alone queue, and none does once the deadline has come.                  *)
TurnFine(r, b, e) ==
    /\ r.pc = "tools" => r.wrapUp = "none"
    /\ e = "responses" => /\ r.pc \in {"idle", "round", "asking"} => r.wrapUp = "none"
                          /\ r.pc # "slot"
    /\ e = "claude" => r.pc \notin {"round", "wrap"}
    /\ \A i \in 1..Len(b) : b[i].st = "queued" => b[i].tool # "effect" /\ ~r.root

TurnsFine == \A t \in Turns : TurnFine(turn[t], batch[t], engine)

QueueOK ==
    /\ engine = "responses" => waiters = <<>>
    /\ \A i \in 1..Len(waiters) : turn[waiters[i]].pc = "slot"
    /\ \A i, j \in 1..Len(waiters) : waiters[i] = waiters[j] => i = j
    /\ \A t \in Turns : turn[t].pc = "slot" => \E i \in 1..Len(waiters) : waiters[i] = t

Holders == {t \in Turns : turn[t].pc \in Querying}

CountOK ==
    engine = "claude" => /\ active = Cardinality(Holders)
                         /\ active <= Slots
                         /\ waiters # <<>> => active = Slots

TurnInv == TypesOK /\ TurnsFine /\ QueueOK /\ CountOK

(* The step's obligation: what starts, starts in its turn's round, or was  *)
(* queued in it.                                                           *)
FromQueue(t, i) == IsRead(t, i) /\ batch[t][i].st = "queued" /\ ~turn[t].root
StartsOK ==
    \A t \in Turns : \A i \in Running(t)' \ Running(t) :
        \/ turn[t].pc = "tools" /\ turn[t].wrapUp = "none"
        \/ FromQueue(t, i)

----
(* Sequences. *)

LEMMA MapSeq ==
    ASSUME NEW s \in Seq(CallRecord), NEW f, f = [i \in DOMAIN s |-> f[i]],
           \A i \in 1..Len(s) : f[i] \in CallRecord
    PROVE  f \in Seq(CallRecord) /\ Len(f) = Len(s) /\ DOMAIN f = 1..Len(s)
<1>1. DOMAIN s = 1..Len(s) /\ Len(s) \in Nat
  BY LenProperties
<1>2. f \in [1..Len(s) -> CallRecord]
  BY <1>1
<1>3. f \in Seq(CallRecord)
  BY <1>1, <1>2, SeqDef
<1> QED
  BY <1>1, <1>2, <1>3, LenProperties

LEMMA BatchTyped ==
    ASSUME NEW calls \in Batches
    PROVE  calls \in Seq(CallRecord) /\ Len(calls) <= MaxBatch /\ \A i \in 1..Len(calls) : calls[i].st = "new"
<1>1. PICK n \in 1..MaxBatch : calls \in [1..n -> {Call(tool) : tool \in Tools}]
  BY DEF Batches
<1>2. n \in Nat
  BY TurnConstants
<1>3. \A i \in 1..n : calls[i] \in CallRecord /\ calls[i].st = "new"
  BY <1>1 DEF Call, CallRecord
<1>4. calls \in [1..n -> CallRecord]
  BY <1>1, <1>3
<1>5. calls \in Seq(CallRecord)
  BY <1>2, <1>4, SeqDef
<1>6. Len(calls) = n
  BY <1>2, <1>4, <1>5, LenProperties
<1> QED
  BY <1>2, <1>3, <1>5, <1>6, TurnConstants

LEMMA EmptyBatch == <<>> \in Seq(CallRecord) /\ Len(<<>>) = 0
  BY EmptySeq

----
(* A step of one turn that leaves the slots alone. *)

LEMMA PlainStep ==
    ASSUME TurnInv, NEW t \in Turns, NEW r \in TurnRecord, NEW b \in Seq(CallRecord),
           turn' = [turn EXCEPT ![t] = r], batch' = [batch EXCEPT ![t] = b],
           UNCHANGED <<engine, active, waiters>>,
           TurnFine(r, b, engine),
           engine = "claude" => (r.pc \in Querying <=> turn[t].pc \in Querying),
           r.pc = "slot" <=> turn[t].pc = "slot"
    PROVE  TurnInv'
<1> USE DEF TurnInv
<1>1. \A u \in Turns : turn'[u] = (IF u = t THEN r ELSE turn[u]) /\ batch'[u] = (IF u = t THEN b ELSE batch[u])
  BY DEF TypesOK
<1>2. TypesOK'
  BY DEF TypesOK
<1>3. TurnsFine'
  BY <1>1 DEF TurnsFine
<1>4. QueueOK'
  <2>1. \A i \in 1..Len(waiters) : waiters[i] \in Turns
    BY ElementOfSeq DEF TypesOK
  <2>2. \A u \in Turns : turn'[u].pc = "slot" <=> turn[u].pc = "slot"
    BY <1>1
  <2> QED
    BY <2>1, <2>2 DEF QueueOK
<1>5. CountOK'
  <2>1. engine = "claude" => Holders' = Holders
    BY <1>1 DEF Holders
  <2> QED
    BY <2>1 DEF CountOK
<1> QED
  BY <1>2, <1>3, <1>4, <1>5

(* One that leaves the batches alone starts nothing.                       *)
LEMMA NothingStarts == UNCHANGED batch => StartsOK
  BY DEF StartsOK, Running

(* One that changes a single batch starts nothing in the others.           *)
LEMMA OneBatchStarts ==
    ASSUME TypesOK, NEW t \in Turns, NEW b, batch' = [batch EXCEPT ![t] = b],
           \/ turn[t].pc = "tools" /\ turn[t].wrapUp = "none"
           \/ \A i \in 1..Len(b) : b[i].st = "run" => i \in Running(t) \/ FromQueue(t, i)
    PROVE  StartsOK
<1>1. \A u \in Turns : batch'[u] = IF u = t THEN b ELSE batch[u]
  BY DEF TypesOK
<1> QED
  BY <1>1 DEF StartsOK, Running

(* A step of one turn, its batch untouched.                                *)
LEMMA SameBatch ==
    ASSUME TurnInv, NEW t \in Turns, NEW r \in TurnRecord,
           turn' = [turn EXCEPT ![t] = r],
           UNCHANGED <<engine, active, waiters, batch>>,
           TurnFine(r, batch[t], engine),
           engine = "claude" => (r.pc \in Querying <=> turn[t].pc \in Querying),
           r.pc = "slot" <=> turn[t].pc = "slot"
    PROVE  TurnInv' /\ StartsOK
<1>1. batch' = [batch EXCEPT ![t] = batch[t]] /\ batch[t] \in Seq(CallRecord)
  BY DEF TurnInv, TypesOK
<1>2. TurnInv'
  BY <1>1, PlainStep
<1> QED
  BY <1>2, NothingStarts

----
(* The steps that leave the calls and the slots alone. *)

LEMMA QuietSteps ==
    ASSUME TurnInv, NEW t \in Turns,
           \/ WorkExpires(t) \/ Refuse(t) \/ NextRound(t)
           \/ \E outcome \in Outcomes : WrapCall(t, outcome)
           \/ \E b \in BOOLEAN : FinalText(t, b) \/ CallFails(t, b)
    PROVE  TurnInv' /\ StartsOK
<1>0. turn[t] \in TurnRecord /\ TurnFine(turn[t], batch[t], engine) /\ engine \in {"responses", "claude"}
  BY DEF TurnInv, TypesOK, TurnsFine
<1>1. CASE WorkExpires(t)
  <2> DEFINE r == [turn[t] EXCEPT !.work = TRUE]
  <2>1. turn' = [turn EXCEPT ![t] = r]
    BY <1>1 DEF WorkExpires, TurnInv, TypesOK
  <2>2. r \in TurnRecord /\ TurnFine(r, batch[t], engine) /\ r.pc = turn[t].pc
    BY <1>0 DEF TurnRecord, TurnFine
  <2> HIDE DEF r
  <2> QED
    BY <1>1, <2>1, <2>2, SameBatch DEF WorkExpires
<1>2. CASE Refuse(t)
  <2> DEFINE r == [turn[t] EXCEPT !.pc = "done", !.reply = "maintenance"]
  <2>1. turn' = [turn EXCEPT ![t] = r]
    BY <1>2 DEF Refuse, Reply, TurnInv, TypesOK
  <2>2. r \in TurnRecord /\ TurnFine(r, batch[t], engine) /\ r.pc = "done" /\ turn[t].pc = "idle"
    BY <1>0, <1>2 DEF TurnRecord, TurnFine, Refuse
  <2> HIDE DEF r
  <2> QED
    BY <1>2, <2>1, <2>2, SameBatch DEF Refuse, Querying
<1>3. CASE NextRound(t)
  <2>1. turn[t].pc = "round" /\ engine = "responses" /\ turn[t].wrapUp = "none"
    BY <1>0, <1>3 DEF NextRound, TurnFine
  <2> DEFINE r1 == [turn[t] EXCEPT !.pc = "wrap", !.wrapUp = "round_cap"]
             r2 == [turn[t] EXCEPT !.rounds = @ + 1, !.pc = IF turn[t].work THEN "wrap" ELSE "asking",
                                   !.wrapUp = IF turn[t].work THEN "deadline" ELSE @]
  <2>2. PICK r \in {r1, r2} : turn' = [turn EXCEPT ![t] = r]
    BY <1>3 DEF NextRound, WrapUp, TurnInv, TypesOK
  <2>3. r1 \in TurnRecord /\ TurnFine(r1, batch[t], engine) /\ r1.pc = "wrap"
    BY <1>0, <2>1 DEF TurnRecord, TurnFine
  <2>4. r2 \in TurnRecord
    <3>1. turn[t].rounds + 1 \in Nat
      BY <1>0 DEF TurnRecord
    <3> QED
      BY <1>0, <3>1 DEF TurnRecord
  <2>5. TurnFine(r2, batch[t], engine) /\ r2.pc \in {"wrap", "asking"}
    BY <1>0, <2>1 DEF TurnRecord, TurnFine
  <2> HIDE DEF r1, r2
  <2> QED
    BY <1>3, <2>1, <2>2, <2>3, <2>4, <2>5, SameBatch DEF NextRound
<1>4. CASE \E outcome \in Outcomes : WrapCall(t, outcome)
  <2>1. PICK outcome \in Outcomes : WrapCall(t, outcome)
    BY <1>4
  <2> DEFINE r == [turn[t] EXCEPT !.pc = "done", !.reply = outcome]
  <2>2. turn' = [turn EXCEPT ![t] = r]
    BY <2>1 DEF WrapCall, Reply, TurnInv, TypesOK
  <2>3. r \in TurnRecord /\ TurnFine(r, batch[t], engine) /\ r.pc = "done" /\ turn[t].pc = "wrap"
    BY <1>0, <2>1 DEF TurnRecord, TurnFine, WrapCall, Outcomes
  <2> HIDE DEF r
  <2> QED
    BY <2>1, <2>2, <2>3, SameBatch DEF WrapCall, Querying
<1>5. CASE \E b \in BOOLEAN : FinalText(t, b) \/ CallFails(t, b)
  <2>1. turn[t].pc = "asking" /\ engine = "responses" /\ turn[t].wrapUp = "none"
        /\ UNCHANGED <<engine, batch, active, waiters>>
    BY <1>0, <1>5 DEF FinalText, CallFails, TurnFine
  <2> DEFINE done(kind) == [turn[t] EXCEPT !.pc = "done", !.reply = kind]
             retry == [turn[t] EXCEPT !.pc = "round", !.retries = @ + 1]
             wrap == [turn[t] EXCEPT !.pc = "wrap", !.wrapUp = "deadline"]
  <2>2. \E r \in {done("model"), done("fallback"), done("provider"), retry, wrap} : turn' = [turn EXCEPT ![t] = r]
    <3>1. CASE \E b \in BOOLEAN : FinalText(t, b)
      BY <3>1 DEF FinalText, Reply, TurnInv, TypesOK
    <3>2. CASE \E b \in BOOLEAN : CallFails(t, b)
      BY <3>2 DEF CallFails, Reply, WrapUp, TurnInv, TypesOK
    <3> QED
      BY <1>5, <3>1, <3>2
  <2>3. PICK r \in {done("model"), done("fallback"), done("provider"), retry, wrap} : turn' = [turn EXCEPT ![t] = r]
    BY <2>2
  <2>4. \A kind \in Outcomes : done(kind) \in TurnRecord /\ TurnFine(done(kind), batch[t], engine)
                                /\ done(kind).pc = "done"
    BY <1>0, <2>1 DEF TurnRecord, TurnFine, Outcomes
  <2>5. retry \in TurnRecord /\ TurnFine(retry, batch[t], engine) /\ retry.pc = "round"
    <3>1. turn[t].retries + 1 \in Nat
      BY <1>0 DEF TurnRecord
    <3> QED
      BY <1>0, <2>1, <3>1 DEF TurnRecord, TurnFine
  <2>6. wrap \in TurnRecord /\ TurnFine(wrap, batch[t], engine) /\ wrap.pc = "wrap"
    BY <1>0, <2>1 DEF TurnRecord, TurnFine
  <2>7. "model" \in Outcomes /\ "fallback" \in Outcomes /\ "provider" \in Outcomes
    BY DEF Outcomes
  <2> HIDE DEF done, retry, wrap
  <2>8. r \in TurnRecord /\ TurnFine(r, batch[t], engine) /\ r.pc \in {"done", "round", "wrap"}
    BY <2>3, <2>4, <2>5, <2>6, <2>7
  <2> QED
    BY <2>1, <2>3, <2>8, SameBatch
<1> QED
  BY <1>1, <1>2, <1>3, <1>4, <1>5

(* The deadline drops the reads that are queued.                           *)
LEMMA DropStep == ASSUME TurnInv, NEW t \in Turns, RootExpires(t) PROVE TurnInv' /\ StartsOK
<1>0. turn[t] \in TurnRecord /\ TurnFine(turn[t], batch[t], engine) /\ TypesOK /\ batch[t] \in Seq(CallRecord)
  BY DEF TurnInv, TypesOK, TurnsFine
<1> DEFINE r == [turn[t] EXCEPT !.root = TRUE]
           s == batch[t]
           b == [i \in 1..Len(s) |-> IF s[i].st = "queued" THEN [s[i] EXCEPT !.st = "dropped"] ELSE s[i]]
<1>1. turn' = [turn EXCEPT ![t] = r] /\ batch' = [batch EXCEPT ![t] = b] /\ UNCHANGED <<engine, active, waiters>>
  BY <1>0 DEF RootExpires, Abandon, TypesOK
<1>2. DOMAIN s = 1..Len(s) /\ \A i \in 1..Len(s) : s[i] \in CallRecord
  BY <1>0, LenProperties, ElementOfSeq
<1>3. \A i \in 1..Len(s) : [s[i] EXCEPT !.st = "dropped"] \in CallRecord
                            /\ [s[i] EXCEPT !.st = "dropped"].st = "dropped"
  BY <1>2 DEF CallRecord
<1>4. \A i \in 1..Len(s) : /\ b[i] \in CallRecord
                           /\ b[i].st # "queued"
                           /\ b[i].st = "run" => s[i].st = "run"
  BY <1>2, <1>3
<1>5. b \in Seq(CallRecord) /\ Len(b) = Len(s)
  <2>1. b = [i \in DOMAIN s |-> b[i]]
    BY <1>2
  <2> HIDE DEF b
  <2> QED
    BY <1>0, <1>4, <2>1, MapSeq
<1> HIDE DEF b
<1>6. /\ r \in TurnRecord /\ r.pc = turn[t].pc /\ r.wrapUp = turn[t].wrapUp
  BY <1>0 DEF TurnRecord
<1> HIDE DEF r
<1>7. TurnFine(r, b, engine)
  BY <1>0, <1>4, <1>5, <1>6 DEF TurnFine
<1>8. TurnInv'
  BY <1>1, <1>5, <1>6, <1>7, PlainStep
<1>9. StartsOK
  BY <1>0, <1>1, <1>4, <1>5, OneBatchStarts DEF Running
<1> QED
  BY <1>8, <1>9

(* The steps that begin and end a round.                                   *)
LEMMA RoundSteps ==
    ASSUME TurnInv, NEW t \in Turns,
           \/ RoundEnds(t) \/ ToolBatchEnds(t)
           \/ \E calls \in Batches : AskTools(t, calls) \/ QueryCallsTools(t, calls)
    PROVE  TurnInv' /\ StartsOK
<1>0. turn[t] \in TurnRecord /\ TurnFine(turn[t], batch[t], engine) /\ TypesOK
  BY DEF TurnInv, TypesOK, TurnsFine
<1>1. CASE \E calls \in Batches : AskTools(t, calls) \/ QueryCallsTools(t, calls)
  <2>1. PICK calls \in Batches : AskTools(t, calls) \/ QueryCallsTools(t, calls)
    BY <1>1
  <2> DEFINE r == [turn[t] EXCEPT !.pc = "tools"]
  <2>2. turn' = [turn EXCEPT ![t] = r] /\ batch' = [batch EXCEPT ![t] = calls]
        /\ UNCHANGED <<engine, active, waiters>> /\ turn[t].pc = "asking"
    BY <1>0, <2>1 DEF AskTools, QueryCallsTools, Go, TypesOK
  <2>3. turn[t].wrapUp = "none"
    BY <1>0, <2>1 DEF AskTools, QueryCallsTools, TurnFine
  <2>5. calls \in Seq(CallRecord) /\ \A i \in 1..Len(calls) : calls[i].st # "run" /\ calls[i].st # "queued"
    BY BatchTyped
  <2>4. r \in TurnRecord /\ TurnFine(r, calls, engine) /\ r.pc = "tools"
    BY <1>0, <2>3, <2>5 DEF TurnRecord, TurnFine
  <2> HIDE DEF r
  <2>6. TurnInv'
    BY <2>2, <2>4, <2>5, PlainStep DEF Querying
  <2>7. StartsOK
    BY <1>0, <2>2, <2>5, OneBatchStarts
  <2> QED
    BY <2>6, <2>7
<1>2. CASE RoundEnds(t) \/ ToolBatchEnds(t)
  <2> DEFINE r1 == [turn[t] EXCEPT !.pc = "round"]
             r2 == [turn[t] EXCEPT !.pc = "asking", !.rounds = @ + 1,
                                   !.wrapUp = IF turn[t].rounds + 1 >= MaxRounds THEN "round_cap"
                                              ELSE IF turn[t].work THEN "deadline" ELSE "none"]
  <2>1. batch' = [batch EXCEPT ![t] = <<>>] /\ UNCHANGED <<engine, active, waiters>>
        /\ turn[t].pc = "tools" /\ turn[t].wrapUp = "none"
    BY <1>0, <1>2 DEF RoundEnds, ToolBatchEnds, TurnFine
  <2>2. StartsOK
    BY <1>0, <2>1, EmptyBatch, OneBatchStarts
  <2>3. CASE RoundEnds(t)
    <3>1. turn' = [turn EXCEPT ![t] = r1] /\ engine = "responses"
      BY <1>0, <2>3 DEF RoundEnds, Go, TypesOK
    <3>2. r1 \in TurnRecord /\ TurnFine(r1, <<>>, engine) /\ r1.pc = "round"
      BY <1>0, <2>1, <3>1, EmptyBatch DEF TurnRecord, TurnFine
    <3> HIDE DEF r1
    <3> QED
      BY <2>1, <2>2, <3>1, <3>2, EmptyBatch, PlainStep
  <2>4. CASE ToolBatchEnds(t)
    <3>1. turn' = [turn EXCEPT ![t] = r2] /\ engine = "claude"
      BY <1>0, <2>4 DEF ToolBatchEnds, TypesOK
    <3>2. turn[t].rounds + 1 \in Nat
      BY <1>0 DEF TurnRecord
    <3>3. r2 \in TurnRecord
      BY <1>0, <3>2 DEF TurnRecord
    <3>4. r2.pc = "asking"
      BY <1>0 DEF TurnRecord
    <3>5. TurnFine(r2, <<>>, engine)
      BY <3>1, <3>4, EmptyBatch DEF TurnFine
    <3> HIDE DEF r2
    <3> QED
      BY <2>1, <2>2, <3>1, <3>3, <3>4, <3>5, EmptyBatch, PlainStep DEF Querying
  <2> QED
    BY <1>2, <2>3, <2>4
<1> QED
  BY <1>1, <1>2

(* A call starts, in a round; or ends, perhaps after its turn.             *)
LEMMA CallSteps ==
    ASSUME TurnInv, NEW t \in Turns, NEW i \in 1..MaxBatch, StartCall(t, i) \/ EndCall(t, i)
    PROVE  TurnInv' /\ StartsOK
<1>0. turn[t] \in TurnRecord /\ TurnFine(turn[t], batch[t], engine) /\ TypesOK /\ batch[t] \in Seq(CallRecord)
  BY DEF TurnInv, TypesOK, TurnsFine
<1>a. turn' = [turn EXCEPT ![t] = turn[t]] /\ UNCHANGED <<engine, active, waiters>>
  BY <1>0 DEF StartCall, EndCall, TypesOK
<1>1. CASE StartCall(t, i)
  <2>1. turn[t].pc = "tools" /\ turn[t].wrapUp = "none" /\ i \in 1..Len(batch[t])
    BY <1>0, <1>1 DEF StartCall, TurnFine
  <2>2. PICK st \in {"refused", "dropped", "run", "queued"} :
           /\ batch' = [batch EXCEPT ![t][i].st = st]
           /\ st = "queued" => engine = "claude" /\ ~Free(t, i) /\ ~TooLate(t, i) /\ ~Capped(t, i)
    BY <1>1 DEF StartCall
  <2> DEFINE c == [batch[t][i] EXCEPT !.st = st]
             b == [batch[t] EXCEPT ![i] = c]
  <2>3. batch' = [batch EXCEPT ![t] = b]
    BY <1>0, <2>2 DEF TypesOK
  <2>4. batch[t][i] \in CallRecord
    BY <1>0, <2>1, ElementOfSeq
  <2>5. c \in CallRecord /\ c.st = st /\ c.tool = batch[t][i].tool
    BY <2>4 DEF CallRecord
  <2> HIDE DEF c
  <2>6. b \in Seq(CallRecord) /\ Len(b) = Len(batch[t]) /\ \A j \in 1..Len(b) : b[j] = IF j = i THEN c ELSE batch[t][j]
    BY <1>0, <2>1, <2>5, ExceptSeq, LenProperties
  <2>8. st = "queued" => c.tool # "effect" /\ ~turn[t].root
    BY <2>2, <2>5 DEF Free, TooLate, IsRead
  <2> HIDE DEF b
  <2>7. TurnFine(turn[t], b, engine)
    BY <1>0, <2>1, <2>5, <2>6, <2>8 DEF TurnFine
  <2> HIDE DEF b
  <2> QED
    BY <1>0, <1>a, <2>1, <2>3, <2>6, <2>7, PlainStep, OneBatchStarts
<1>2. CASE EndCall(t, i)
  <2> DEFINE queued == {j \in 1..Len(batch[t]) : batch[t][j].st = "queued"}
             next == CHOOSE j \in queued : \A k \in queued : j <= k
             handed == IF queued = {} THEN batch[t] ELSE [batch[t] EXCEPT ![next].st = "run"]
             b == [handed EXCEPT ![i].st = "ran"]
             s == batch[t]
  <2>1. batch' = [batch EXCEPT ![t] = b] /\ i \in 1..Len(s)
    BY <1>2 DEF EndCall, Running
  <2>2. DOMAIN s = 1..Len(s) /\ \A j \in 1..Len(s) : s[j] \in CallRecord
    BY <1>0, LenProperties, ElementOfSeq
  <2>3. DOMAIN b = DOMAIN s /\ b = [j \in DOMAIN s |-> b[j]]
    <3> HIDE DEF next
    <3>1. DOMAIN handed = DOMAIN s
      OBVIOUS
    <3> HIDE DEF handed
    <3>2. b = [j \in DOMAIN handed |-> IF j = i THEN [handed[j] EXCEPT !.st = "ran"] ELSE handed[j]]
      OBVIOUS
    <3> QED
      BY <3>1, <3>2
  <2>4. \A j \in 1..Len(s) : /\ b[j] \in CallRecord
                             /\ b[j] = s[j] \/ b[j].st = "ran" \/ (b[j].st = "run" /\ s[j].st = "queued")
    <3>0. queued # {} => next \in queued
      <4>1. queued \in SUBSET Int /\ \A j \in queued : 0 <= j
        BY <1>0, LenProperties
      <4> HIDE DEF queued
      <4>2. queued # {} => \E j \in queued : \A k \in queued : j <= k
        BY <4>1, LeastIs
      <4> QED
        BY <4>2
    <3> HIDE DEF next
    <3>1. \A j \in 1..Len(s) : /\ handed[j] \in CallRecord
                               /\ handed[j] = s[j] \/ (handed[j].st = "run" /\ s[j].st = "queued")
      <4>1. CASE queued = {}
        BY <2>2, <4>1
      <4>2. CASE queued # {}
        <5>1. \A j \in 1..Len(s) : [s[j] EXCEPT !.st = "run"] \in CallRecord
                                   /\ [s[j] EXCEPT !.st = "run"].st = "run"
          BY <2>2 DEF CallRecord
        <5>2. \A j \in 1..Len(s) : handed[j] = IF j = next THEN [s[j] EXCEPT !.st = "run"] ELSE s[j]
          BY <2>2, <4>2
        <5>3. s[next].st = "queued"
          BY <3>0, <4>2
        <5> QED
          BY <2>2, <4>2, <5>1, <5>2, <5>3
      <4> QED
        BY <4>1, <4>2
    <3>2. DOMAIN handed = 1..Len(s)
      BY <2>2
    <3> HIDE DEF handed
    <3>3. \A j \in 1..Len(s) : b[j] = IF j = i THEN [handed[j] EXCEPT !.st = "ran"] ELSE handed[j]
      BY <3>2
    <3>4. \A j \in 1..Len(s) : /\ [handed[j] EXCEPT !.st = "ran"] \in CallRecord
                               /\ [handed[j] EXCEPT !.st = "ran"].st = "ran"
      BY <3>1 DEF CallRecord
    <3> QED
      BY <3>1, <3>3, <3>4
  <2> HIDE DEF b
  <2>5. b \in Seq(CallRecord) /\ Len(b) = Len(s)
    BY <1>0, <2>3, <2>4, MapSeq
  <2>7. TurnFine(turn[t], b, engine)
    BY <1>0, <2>4, <2>5 DEF TurnFine
  <2>8. \A j \in 1..Len(b) : b[j].st = "run" => j \in Running(t) \/ FromQueue(t, j)
    BY <1>0, <2>4, <2>5 DEF TurnFine, Running, FromQueue, IsRead
  <2> QED
    BY <1>0, <1>a, <2>1, <2>5, <2>7, <2>8, PlainStep, OneBatchStarts
<1> QED
  BY <1>1, <1>2

----
(* The Claude slots. *)

LEMMA HoldersFinite == IsFiniteSet(Holders) /\ Cardinality(Holders) \in Nat
<1>1. Holders \in SUBSET Turns
  BY DEF Holders
<1> QED
  BY <1>1, FS_Subset, FS_CardinalityType, TurnConstants

(* A query ends: its slot goes to the first waiter, or is free.            *)
LEMMA ReleaseStep ==
    ASSUME TurnInv, engine = "claude", NEW t \in Turns, turn[t].pc \in Querying,
           NEW r \in TurnRecord, r.pc = "done",
           NEW b \in Seq(CallRecord), TurnFine(r, b, engine),
           batch' = [batch EXCEPT ![t] = b], UNCHANGED engine,
           Release([turn EXCEPT ![t] = r])
    PROVE  TurnInv'
<1> USE DEF TurnInv
<1>1. t \in Holders /\ IsFiniteSet(Holders) /\ active = Cardinality(Holders) /\ active \in Nat
  BY HoldersFinite DEF Holders, CountOK, TypesOK
<1>2. IsFiniteSet(Holders \ {t}) /\ Cardinality(Holders \ {t}) = Cardinality(Holders) - 1
      /\ Cardinality(Holders \ {t}) \in Nat
  BY <1>1, FS_RemoveElement, FS_CardinalityType
<1>3. \A u \in Turns : batch'[u] = IF u = t THEN b ELSE batch[u]
  BY DEF TypesOK
<1>4. batch' \in [Turns -> Seq(CallRecord)]
  BY DEF TypesOK
<1>5. \A i \in 1..Len(waiters) : waiters[i] \in Turns /\ turn[waiters[i]].pc = "slot" /\ waiters[i] # t
  BY ElementOfSeq DEF TypesOK, QueueOK, Querying
<1>6. CASE waiters = <<>>
  <2>1. turn' = [turn EXCEPT ![t] = r] /\ active' = active - 1 /\ waiters' = waiters
    BY <1>6 DEF Release
  <2>2. \A u \in Turns : turn'[u] = IF u = t THEN r ELSE turn[u]
    BY <2>1 DEF TypesOK
  <2>3. Holders' = Holders \ {t}
    BY <2>2 DEF Holders, Querying
  <2>4. TypesOK'
    BY <1>1, <1>2, <1>4, <2>1 DEF TypesOK
  <2>5. TurnsFine'
    BY <1>3, <2>2 DEF TurnsFine
  <2>6. QueueOK'
    BY <1>6, <2>1, <2>2, EmptySeq DEF QueueOK
  <2>7. CountOK'
    BY <1>1, <1>2, <1>6, <2>1, <2>3, TurnConstants DEF CountOK
  <2> QED
    BY <2>4, <2>5, <2>6, <2>7
<1>7. CASE waiters # <<>>
  <2> DEFINE h == Head(waiters)
             q == [turn[h] EXCEPT !.pc = "asking"]
  <2>1. turn' = [[turn EXCEPT ![t] = r] EXCEPT ![h].pc = "asking"] /\ waiters' = Tail(waiters) /\ active' = active
    BY <1>7 DEF Release
  <2>2. Len(waiters) \in Nat /\ Len(waiters) >= 1 /\ h = waiters[1]
    BY <1>7, EmptySeq, LenProperties DEF TypesOK
  <2>3. h \in Turns /\ turn[h].pc = "slot" /\ h # t
    BY <1>5, <2>2
  <2>4. \A u \in Turns : turn'[u] = IF u = t THEN r ELSE IF u = h THEN q ELSE turn[u]
    BY <2>1, <2>3 DEF TypesOK
  <2>5. q \in TurnRecord /\ q.pc = "asking" /\ q.wrapUp = turn[h].wrapUp /\ q.root = turn[h].root
    BY <2>3 DEF TypesOK, TurnRecord
  <2>6. waiters' \in Seq(Turns) /\ Len(waiters') = Len(waiters) - 1
        /\ \A i \in 1..Len(waiters') : waiters'[i] = waiters[i + 1]
    BY <1>7, <2>1, <2>2 DEF TypesOK
  <2>7. TypesOK'
    <3>1. turn' \in [Turns -> TurnRecord]
      <4> DEFINE after == [turn EXCEPT ![t] = r]
      <4>1. after \in [Turns -> TurnRecord] /\ after[h] = turn[h]
        BY <2>3 DEF TypesOK
      <4>2. turn' = [after EXCEPT ![h].pc = "asking"]
        BY <2>1
      <4> HIDE DEF after, h
      <4>3. turn' = [after EXCEPT ![h] = q]
        BY <4>1, <4>2
      <4> HIDE DEF q
      <4> QED
        BY <2>5, <4>1, <4>3
    <3> QED
      BY <1>1, <1>4, <2>1, <2>6, <3>1 DEF TypesOK
  <2>8. TurnsFine'
    <3>1. TurnFine(turn[h], batch[h], engine)
      BY <2>3 DEF TurnsFine
    <3>2. TurnFine(q, batch[h], engine)
      BY <2>3, <2>5, <3>1 DEF TurnFine
    <3> HIDE DEF q, h
    <3> QED
      BY <1>3, <2>3, <2>4, <3>2 DEF TurnsFine
  <2>9. QueueOK'
    <3>1. \A i \in 1..Len(waiters') : /\ i + 1 \in 1..Len(waiters) /\ waiters'[i] = waiters[i + 1]
                                      /\ waiters[i + 1] # h
      BY <2>2, <2>6 DEF QueueOK
    <3>2. \A i \in 1..Len(waiters') : turn'[waiters'[i]].pc = "slot"
      BY <1>5, <2>4, <3>1
    <3>3. \A i, j \in 1..Len(waiters') : waiters'[i] = waiters'[j] => i = j
      <4> SUFFICES ASSUME NEW i \in 1..Len(waiters'), NEW j \in 1..Len(waiters'), waiters'[i] = waiters'[j]
                   PROVE  i = j
        OBVIOUS
      <4>1. i + 1 \in 1..Len(waiters) /\ j + 1 \in 1..Len(waiters) /\ waiters[i + 1] = waiters[j + 1]
        BY <3>1
      <4>2. i + 1 = j + 1
        BY <4>1 DEF QueueOK
      <4> QED
        BY <4>2
    <3>4. \A u \in Turns : turn'[u].pc = "slot" => \E i \in 1..Len(waiters') : waiters'[i] = u
      <4> SUFFICES ASSUME NEW u \in Turns, turn'[u].pc = "slot"
                   PROVE  \E i \in 1..Len(waiters') : waiters'[i] = u
        OBVIOUS
      <4>1. turn[u].pc = "slot" /\ u # h
        BY <2>4, <2>5
      <4>2. PICK k \in 1..Len(waiters) : waiters[k] = u
        BY <4>1 DEF QueueOK
      <4>3. k # 1 /\ k - 1 \in 1..Len(waiters') /\ waiters'[k - 1] = u
        BY <2>2, <2>6, <4>1, <4>2
      <4> QED
        BY <4>3
    <3> QED
      BY <3>2, <3>3, <3>4 DEF QueueOK
  <2>10. CountOK'
    <3>1. Holders' = (Holders \ {t}) \cup {h}
      <4> HIDE DEF q, h
      <4> QED
        BY <2>3, <2>4, <2>5 DEF Holders, Querying
    <3>2. h \notin Holders \ {t}
      BY <2>3 DEF Holders, Querying
    <3>3. Cardinality(Holders') = Cardinality(Holders)
      <4> HIDE DEF h
      <4>1. Cardinality((Holders \ {t}) \cup {h}) = Cardinality(Holders \ {t}) + 1
        BY <1>2, <3>2, FS_AddElement
      <4> QED
        BY <1>1, <1>2, <3>1, <4>1
    <3>4. active = Slots
      BY <1>7 DEF CountOK
    <3> QED
      BY <1>1, <2>1, <3>3, <3>4, TurnConstants DEF CountOK
  <2> QED
    BY <2>7, <2>8, <2>9, <2>10
<1> QED
  BY <1>6, <1>7

(* The end of a query, at its deadline or of itself.                       *)
LEMMA EndSteps ==
    ASSUME TurnInv, NEW t \in Turns,
           Deadline(t) \/ \E outcome \in Outcomes : QueryEnds(t, outcome)
    PROVE  TurnInv' /\ StartsOK
<1>0. turn[t] \in TurnRecord /\ TurnFine(turn[t], batch[t], engine) /\ TypesOK /\ batch[t] \in Seq(CallRecord)
  BY DEF TurnInv, TypesOK, TurnsFine
<1>1. PICK kind \in Outcomes : Ends(t, kind)
  BY DEF Deadline, QueryEnds, Outcomes
<1>2. engine = "claude" /\ turn[t].pc \in Querying /\ UNCHANGED <<engine, batch>>
  BY DEF Deadline, QueryEnds, Querying
<1> DEFINE r == [turn[t] EXCEPT !.pc = "done", !.reply = kind]
<1>3. r \in TurnRecord /\ r.pc = "done" /\ r.wrapUp = turn[t].wrapUp /\ r.root = turn[t].root
  BY <1>0 DEF TurnRecord, Outcomes
<1>4. Release([turn EXCEPT ![t] = r])
  BY <1>0, <1>1 DEF Ends, TypesOK
<1> HIDE DEF r
<1>5. TurnFine(r, batch[t], engine)
  BY <1>0, <1>2, <1>3 DEF TurnFine
<1>6. batch' = [batch EXCEPT ![t] = batch[t]]
  BY <1>0, <1>2 DEF TypesOK
<1>7. TurnInv'
  BY <1>0, <1>2, <1>3, <1>4, <1>5, <1>6, ReleaseStep
<1> QED
  BY <1>2, <1>7, NothingStarts

(* A turn is admitted: to a round, to a free slot or to the queue.         *)
LEMMA StartStep ==
    ASSUME TurnInv, NEW t \in Turns, Start(t)
    PROVE  TurnInv' /\ StartsOK
<1>0. turn[t] \in TurnRecord /\ TurnFine(turn[t], batch[t], engine) /\ TypesOK /\ turn[t].pc = "idle"
      /\ UNCHANGED <<engine, batch>>
  BY DEF TurnInv, TypesOK, TurnsFine, Start
<1>1. StartsOK
  BY <1>0, NothingStarts
<1> DEFINE r(pc) == [turn[t] EXCEPT !.pc = pc]
           f == [turn[t] EXCEPT !.pc = "done", !.reply = "fallback"]
<1>2. \A pc \in {"round", "asking", "slot"} : r(pc) \in TurnRecord /\ r(pc).pc = pc
  BY <1>0 DEF TurnRecord
<1>3. \A pc : [turn EXCEPT ![t].pc = pc] = [turn EXCEPT ![t] = r(pc)]
  BY <1>0 DEF TypesOK
<1>4. \A i \in 1..Len(waiters) : waiters[i] \in Turns /\ waiters[i] # t
  BY <1>0, ElementOfSeq DEF TurnInv, TypesOK, QueueOK
<1>5. CASE Reply(t, "fallback") /\ UNCHANGED <<active, waiters>>
  <2>1. turn' = [turn EXCEPT ![t] = f]
    BY <1>0, <1>5 DEF Reply, TypesOK
  <2>2. f \in TurnRecord /\ TurnFine(f, batch[t], engine) /\ f.pc = "done"
    BY <1>0 DEF TurnRecord, TurnFine
  <2> HIDE DEF f
  <2> QED
    BY <1>0, <1>5, <2>1, <2>2, SameBatch DEF Querying
<1>6. CASE engine = "responses" /\ Go(t, "round") /\ UNCHANGED <<active, waiters>>
  <2>1. turn' = [turn EXCEPT ![t] = r("round")]
    BY <1>3, <1>6 DEF Go
  <2>2. r("round").wrapUp = turn[t].wrapUp
    BY <1>0 DEF TurnRecord
  <2>3. TurnFine(r("round"), batch[t], engine)
    BY <1>0, <1>2, <1>6, <2>2 DEF TurnFine
  <2> HIDE DEF r
  <2> QED
    BY <1>0, <1>2, <1>6, <2>1, <2>3, SameBatch
<1>7. CASE engine = "claude" /\ active < Slots /\ turn' = Granted(t) /\ active' = active + 1 /\ UNCHANGED waiters
  <2>1. turn' = [turn EXCEPT ![t] = r("asking")]
    BY <1>3, <1>7 DEF Granted
  <2>2. TurnFine(r("asking"), batch[t], engine)
    BY <1>0, <1>2, <1>7 DEF TurnFine
  <2> HIDE DEF r
  <2>3. \A u \in Turns : turn'[u] = IF u = t THEN r("asking") ELSE turn[u]
    BY <1>0, <2>1 DEF TypesOK
  <2>4. TypesOK'
    BY <1>0, <1>2, <1>7, <2>1 DEF TypesOK
  <2>5. TurnsFine'
    BY <1>0, <2>2, <2>3 DEF TurnInv, TurnsFine
  <2>6. waiters = <<>>
    BY <1>0, <1>7, TurnConstants DEF TurnInv, CountOK, TypesOK
  <2>7. QueueOK'
    BY <1>2, <1>7, <2>3, <2>6, EmptySeq DEF TurnInv, QueueOK
  <2>8. CountOK'
    <3>1. Holders' = Holders \cup {t} /\ t \notin Holders
      BY <1>0, <1>2, <2>3 DEF Holders, Querying
    <3>2. Cardinality(Holders \cup {t}) = Cardinality(Holders) + 1
      BY <3>1, HoldersFinite, FS_AddElement
    <3> QED
      BY <1>0, <1>7, <2>6, <3>1, <3>2, TurnConstants DEF TurnInv, CountOK, TypesOK
  <2> QED
    BY <1>1, <2>4, <2>5, <2>7, <2>8 DEF TurnInv
<1>8. CASE /\ engine = "claude" /\ ~(active < Slots) /\ Go(t, "slot")
           /\ waiters' = Append(waiters, t) /\ UNCHANGED active
  <2>1. turn' = [turn EXCEPT ![t] = r("slot")]
    BY <1>3, <1>8 DEF Go
  <2>2. TurnFine(r("slot"), batch[t], engine)
    BY <1>0, <1>2, <1>8 DEF TurnFine
  <2> HIDE DEF r
  <2>3. \A u \in Turns : turn'[u] = IF u = t THEN r("slot") ELSE turn[u]
    BY <1>0, <2>1 DEF TypesOK
  <2>4. /\ waiters' \in Seq(Turns) /\ Len(waiters') = Len(waiters) + 1 /\ Len(waiters) \in Nat
        /\ \A i \in 1..Len(waiters) : waiters'[i] = waiters[i]
        /\ waiters'[Len(waiters) + 1] = t
    BY <1>0, <1>8, AppendProperties, LenProperties DEF TypesOK
  <2>5. TypesOK'
    BY <1>0, <1>2, <1>8, <2>1, <2>4 DEF TypesOK
  <2>6. TurnsFine'
    BY <1>0, <2>2, <2>3 DEF TurnInv, TurnsFine
  <2>7. QueueOK'
    <3>1. \A i \in 1..Len(waiters') : i \in 1..Len(waiters) \/ (i = Len(waiters) + 1 /\ waiters'[i] = t)
      BY <2>4
    <3>2. \A i \in 1..Len(waiters') : turn'[waiters'[i]].pc = "slot"
      BY <1>2, <1>4, <2>3, <2>4, <3>1 DEF TurnInv, QueueOK
    <3>3. \A i, j \in 1..Len(waiters') : waiters'[i] = waiters'[j] => i = j
      BY <1>4, <2>4, <3>1 DEF TurnInv, QueueOK
    <3>4. \A u \in Turns : turn'[u].pc = "slot" => \E i \in 1..Len(waiters') : waiters'[i] = u
      <4> SUFFICES ASSUME NEW u \in Turns, turn'[u].pc = "slot"
                   PROVE  \E i \in 1..Len(waiters') : waiters'[i] = u
        OBVIOUS
      <4>1. CASE u = t
        <5>1. Len(waiters) + 1 \in 1..Len(waiters')
          BY <2>4
        <5> QED
          BY <2>4, <4>1, <5>1
      <4>2. CASE u # t
        <5>1. PICK i \in 1..Len(waiters) : waiters[i] = u
          BY <2>3, <4>2 DEF TurnInv, QueueOK
        <5>2. i \in 1..Len(waiters') /\ waiters'[i] = u
          BY <2>4, <5>1
        <5> QED
          BY <5>2
      <4> QED
        BY <4>1, <4>2
    <3> QED
      BY <1>0, <1>8, <3>2, <3>3, <3>4 DEF QueueOK
  <2>8. CountOK'
    <3>1. Holders' = Holders
      BY <1>0, <1>2, <2>3 DEF Holders, Querying
    <3> QED
      BY <1>0, <1>8, <3>1, TurnConstants DEF TurnInv, CountOK, TypesOK
  <2> QED
    BY <1>1, <2>5, <2>6, <2>7, <2>8 DEF TurnInv
<1> QED
  BY <1>5, <1>6, <1>7, <1>8 DEF Start

(* A turn gives up waiting.                                                *)
LEMMA LeaveStep ==
    ASSUME TurnInv, NEW t \in Turns, LeaveQueue(t)
    PROVE  TurnInv' /\ StartsOK
<1>0. turn[t] \in TurnRecord /\ TurnFine(turn[t], batch[t], engine) /\ TypesOK /\ turn[t].pc = "slot"
      /\ UNCHANGED <<engine, batch, active>>
  BY DEF TurnInv, TypesOK, TurnsFine, LeaveQueue
<1>1. StartsOK
  BY <1>0, NothingStarts
<1> DEFINE r == [turn[t] EXCEPT !.pc = "done", !.reply = "fallback"]
<1>2. turn' = [turn EXCEPT ![t] = r]
  BY <1>0 DEF LeaveQueue, Reply, TypesOK
<1>3. r \in TurnRecord /\ TurnFine(r, batch[t], engine) /\ r.pc = "done"
  BY <1>0 DEF TurnRecord, TurnFine
<1> HIDE DEF r
<1>4. PICK k \in 1..Len(waiters) : waiters[k] = t /\ waiters' = Without(k)
  BY DEF LeaveQueue
<1>5. Len(waiters) \in Nat /\ Len(waiters) >= 1 /\ \A i \in 1..Len(waiters) : waiters[i] \in Turns
  BY <1>0, <1>4, LenProperties, ElementOfSeq DEF TypesOK
<1> DEFINE at(i) == IF i < k THEN i ELSE i + 1
<1>6. \A i \in 1..Len(waiters) - 1 : at(i) \in 1..Len(waiters) /\ at(i) # k
  BY <1>5
<1>7. waiters' = [i \in 1..Len(waiters) - 1 |-> waiters[at(i)]]
  BY <1>4 DEF Without
<1>8. waiters' \in Seq(Turns) /\ Len(waiters') = Len(waiters) - 1
  <2>1. Len(waiters) - 1 \in Nat
    BY <1>5
  <2>2. waiters' \in [1..Len(waiters) - 1 -> Turns]
    BY <1>5, <1>6, <1>7
  <2>3. waiters' \in Seq(Turns)
    BY <2>1, <2>2, SeqDef
  <2> QED
    BY <2>1, <2>2, <2>3, LenProperties
<1>9. \A i \in 1..Len(waiters') : waiters'[i] = waiters[at(i)]
  BY <1>7, <1>8
<1>10. \A u \in Turns : turn'[u] = IF u = t THEN r ELSE turn[u]
  BY <1>0, <1>2 DEF TypesOK
<1>11. TypesOK'
  BY <1>0, <1>2, <1>3, <1>8 DEF TypesOK
<1>12. TurnsFine'
  BY <1>0, <1>3, <1>10 DEF TurnInv, TurnsFine
<1>13. QueueOK'
  <2>1. \A i \in 1..Len(waiters') : waiters'[i] \in Turns /\ waiters'[i] # t /\ turn[waiters'[i]].pc = "slot"
    <3> SUFFICES ASSUME NEW i \in 1..Len(waiters')
                 PROVE  waiters'[i] \in Turns /\ waiters'[i] # t /\ turn[waiters'[i]].pc = "slot"
      OBVIOUS
    <3>1. at(i) \in 1..Len(waiters) /\ at(i) # k
      BY <1>6, <1>8
    <3>2. waiters'[i] = waiters[at(i)]
      BY <1>9
    <3>3. \A m \in 1..Len(waiters) : turn[waiters[m]].pc = "slot"
      BY DEF TurnInv, QueueOK
    <3>4. \A m, n \in 1..Len(waiters) : waiters[m] = waiters[n] => m = n
      BY DEF TurnInv, QueueOK
    <3> HIDE DEF at
    <3>5. waiters[at(i)] # t
      BY <1>4, <3>1, <3>4
    <3> QED
      BY <1>5, <3>1, <3>2, <3>3, <3>5
  <2>2. \A i, j \in 1..Len(waiters') : waiters'[i] = waiters'[j] => i = j
    <3> SUFFICES ASSUME NEW i \in 1..Len(waiters'), NEW j \in 1..Len(waiters'), waiters'[i] = waiters'[j]
                 PROVE  i = j
      OBVIOUS
    <3>0. at(i) \in 1..Len(waiters) /\ at(j) \in 1..Len(waiters)
      BY <1>6, <1>8
    <3>1. at(i) = at(j)
      <4>1. waiters[at(i)] = waiters[at(j)]
        BY <1>9
      <4>2. \A m, n \in 1..Len(waiters) : waiters[m] = waiters[n] => m = n
        BY DEF TurnInv, QueueOK
      <4> HIDE DEF at
      <4> QED
        BY <3>0, <4>1, <4>2
    <3> QED
      BY <1>5, <1>8, <3>1
  <2>3. \A u \in Turns : turn'[u].pc = "slot" => \E i \in 1..Len(waiters') : waiters'[i] = u
    <3> SUFFICES ASSUME NEW u \in Turns, turn'[u].pc = "slot"
                 PROVE  \E i \in 1..Len(waiters') : waiters'[i] = u
      OBVIOUS
    <3>1. u # t /\ turn[u].pc = "slot"
      BY <1>3, <1>10
    <3>2. PICK m \in 1..Len(waiters) : waiters[m] = u
      BY <3>1 DEF TurnInv, QueueOK
    <3>3. m # k
      BY <1>4, <3>1, <3>2
    <3>4. CASE m < k
      <4>1. m \in 1..Len(waiters') /\ at(m) = m
        BY <1>5, <1>8, <3>4
      <4> QED
        BY <1>9, <3>2, <4>1
    <3>5. CASE m > k
      <4>1. m - 1 \in 1..Len(waiters') /\ at(m - 1) = m
        BY <1>5, <1>8, <3>5
      <4> QED
        BY <1>9, <3>2, <4>1
    <3> QED
      BY <1>5, <3>3, <3>4, <3>5
  <2>4. engine = "claude"
    BY <1>0 DEF TurnFine, TypesOK
  <2> QED
    BY <1>0, <1>10, <2>1, <2>2, <2>3, <2>4 DEF QueueOK
<1>14. CountOK'
  <2>1. Holders' = Holders
    BY <1>0, <1>3, <1>10 DEF Holders, Querying
  <2>2. waiters # <<>>
    BY <1>5, EmptySeq
  <2> QED
    BY <1>0, <2>1, <2>2 DEF TurnInv, CountOK
<1> QED
  BY <1>1, <1>11, <1>12, <1>13, <1>14 DEF TurnInv

----
(* The rounds.  What runs or is queued has had its turn come, and that     *)
(* stays so while earlier calls end; of the capped tool only the first     *)
(* call ever leaves its place; and a slot freed goes to one queued read.   *)

Started == {"queued", "run"}
OverIn(b, i) == b[i].st \in {"ran", "refused"}
RunsIn(b) == {i \in 1..Len(b) : b[i].st = "run"}
ComeIn(b, i) == \A j \in 1..i - 1 : OverIn(b, j) \/ \A k \in j..i : b[k].tool # "effect"
CappedIn(b, i) == b[i].tool = "stats" /\ \E j \in 1..i - 1 : b[j].tool = "stats"

BatchFine(b) ==
    /\ \A i \in 1..Len(b) : b[i].st \in Started => ComeIn(b, i)
    /\ \A i \in 1..Len(b) : CappedIn(b, i) => b[i].st \in {"new", "refused", "dropped"}
    /\ Cardinality(RunsIn(b)) <= ReadLimit
    /\ Len(b) <= MaxBatch

RoundsFine == \A t \in Turns : BatchFine(batch[t])

LEMMA RunsFinite == \A b : Len(b) \in Nat => IsFiniteSet(RunsIn(b)) /\ Cardinality(RunsIn(b)) \in Nat
<1> SUFFICES ASSUME NEW b, Len(b) \in Nat PROVE IsFiniteSet(RunsIn(b)) /\ Cardinality(RunsIn(b)) \in Nat
  OBVIOUS
<1>1. RunsIn(b) \in SUBSET (1..Len(b)) /\ IsFiniteSet(1..Len(b))
  <2>1. RunsIn(b) \in SUBSET (1..Len(b))
    BY DEF RunsIn
  <2>2. 1 \in Int /\ Len(b) \in Int
    OBVIOUS
  <2>3. IsFiniteSet(1..Len(b))
    BY <2>2, FS_Interval, ZenonT(20)
  <2> QED
    BY <2>1, <2>3
<1> QED
  BY <1>1, FS_Subset, FS_CardinalityType

(* Calls go on: no tool changes, what is over stays over, and what is      *)
(* started or ended was so before or may start now.                        *)
LEMMA CallsGoOn ==
    ASSUME NEW b \in Seq(CallRecord), NEW c \in Seq(CallRecord), BatchFine(b), Len(c) = Len(b),
           \A i \in 1..Len(b) :
              /\ c[i].tool = b[i].tool
              /\ OverIn(b, i) => OverIn(c, i)
              /\ c[i].st \in Started => b[i].st \in Started \/ ComeIn(b, i)
              /\ c[i].st \in Started \cup {"ran"} => b[i].st \in Started \cup {"ran"} \/ ~CappedIn(b, i),
           Cardinality(RunsIn(c)) <= ReadLimit
    PROVE  BatchFine(c)
<1>1. Len(b) \in Nat
  OBVIOUS
<1>2. ASSUME NEW i \in 1..Len(c), c[i].st \in Started PROVE ComeIn(c, i)
  <2>1. ComeIn(b, i)
    BY <1>2 DEF BatchFine
  <2>2. \A j \in 1..i : j \in 1..Len(b)
    BY <1>1
  <2>3. ASSUME NEW j \in 1..i - 1 PROVE OverIn(c, j) \/ \A k \in j..i : c[k].tool # "effect"
    <3>1. j \in 1..Len(b) /\ \A k \in j..i : k \in 1..Len(b)
      BY <1>1
    <3>2. OverIn(b, j) \/ \A k \in j..i : b[k].tool # "effect"
      BY <2>1 DEF ComeIn
    <3> QED
      BY <3>1, <3>2
  <2> QED
    BY <2>3 DEF ComeIn
<1>3. ASSUME NEW i \in 1..Len(c), CappedIn(c, i) PROVE c[i].st \in {"new", "refused", "dropped"}
  <2>1. \A j \in 1..i - 1 : j \in 1..Len(b)
    BY <1>1
  <2>2. CappedIn(b, i)
    BY <1>3, <2>1 DEF CappedIn
  <2>3. b[i].st \in {"new", "refused", "dropped"}
    BY <2>2 DEF BatchFine
  <2>4. c[i].st \notin Started \cup {"ran"}
    BY <2>2, <2>3 DEF Started
  <2>5. c[i] \in CallRecord
    BY ElementOfSeq
  <2> QED
    BY <2>4, <2>5 DEF CallRecord, Started
<1> QED
  BY <1>2, <1>3 DEF BatchFine

LEMMA NewRoundFine ==
    ASSUME NEW b \in Seq(CallRecord), Len(b) <= MaxBatch, \A i \in 1..Len(b) : b[i].st = "new"
    PROVE  BatchFine(b)
<1>1. RunsIn(b) = {}
  BY DEF RunsIn
<1>2. Cardinality(RunsIn(b)) <= ReadLimit
  BY <1>1, FS_EmptySet, TurnConstants
<1>3. \A i \in 1..Len(b) : b[i].st \notin Started /\ b[i].st \in {"new", "refused", "dropped"}
  BY DEF Started
<1> QED
  BY <1>2, <1>3 DEF BatchFine

LEMMA NoRoundFine == BatchFine(<<>>)
<1> DEFINE b == <<>>
<1>1. b \in Seq(CallRecord) /\ Len(b) <= MaxBatch /\ \A i \in 1..Len(b) : b[i].st = "new"
  BY EmptyBatch, TurnConstants
<1> HIDE DEF b
<1>2. BatchFine(b)
  BY <1>1, NewRoundFine, Zenon
<1> QED
  BY <1>2 DEF b

(* An effect that runs is alone, and all before it are over.               *)
LEMMA EffectIsAlone ==
    ASSUME NEW b \in Seq(CallRecord), NEW i \in RunsIn(b), ComeIn(b, i), b[i].tool = "effect",
           \A j \in RunsIn(b) : ComeIn(b, j)
    PROVE  RunsIn(b) = {i} /\ \A j \in 1..i - 1 : OverIn(b, j)
<1>1. i \in 1..Len(b) /\ Len(b) \in Nat /\ b[i].st = "run"
  BY DEF RunsIn
<1>2. \A j \in 1..i - 1 : OverIn(b, j)
  BY <1>1 DEF ComeIn
<1>3. ASSUME NEW j \in RunsIn(b), j # i PROVE FALSE
  <2>1. j \in 1..Len(b) /\ b[j].st = "run"
    BY DEF RunsIn
  <2>2. CASE j < i
    <3>1. j \in 1..i - 1
      BY <1>1, <2>1, <2>2
    <3> QED
      BY <1>2, <2>1, <3>1 DEF OverIn
  <2>3. CASE j > i
    <3>1. i \in 1..j - 1 /\ i \in i..j
      BY <1>1, <2>1, <2>3
    <3> QED
      BY <1>1, <3>1 DEF ComeIn, OverIn
  <2> QED
    BY <1>1, <1>3, <2>1, <2>2, <2>3
<1> QED
  BY <1>2, <1>3

(* What the properties ask of a turn is what BatchFine says of its batch.  *)
LEMMA RoundsHold == TypesOK /\ RoundsFine => RoundContract
<1> SUFFICES ASSUME TypesOK, RoundsFine, NEW t \in Turns
             PROVE  /\ \A i \in Running(t) : ~IsRead(t, i) =>
                          Running(t) = {i} /\ \A j \in 1..i - 1 : Over(t, j)
                    /\ Cardinality(Running(t)) <= ReadLimit
                    /\ Cardinality({i \in 1..Len(batch[t]) : batch[t][i].tool = "stats"
                                                            /\ batch[t][i].st \in {"run", "ran"}}) <= 1
  BY DEF RoundContract, EffectsAlone, ReadsBounded, CappedOnce
<1> DEFINE b == batch[t]
           ones == {i \in 1..Len(b) : b[i].tool = "stats" /\ b[i].st \in {"run", "ran"}}
<1>1. b \in Seq(CallRecord) /\ BatchFine(b) /\ Len(b) \in Nat
  BY DEF TypesOK, RoundsFine
<1>2. Running(t) = RunsIn(b) /\ \A i : (IsRead(t, i) <=> b[i].tool # "effect") /\ (Over(t, i) <=> OverIn(b, i))
  BY DEF Running, RunsIn, IsRead, Over, OverIn
<1> HIDE DEF b
<1>3. \A j \in RunsIn(b) : ComeIn(b, j)
  BY <1>1 DEF BatchFine, RunsIn, Started
<1>4. ASSUME NEW i \in Running(t), ~IsRead(t, i)
      PROVE  Running(t) = {i} /\ \A j \in 1..i - 1 : Over(t, j)
  <2>1. i \in RunsIn(b) /\ b[i].tool = "effect" /\ ComeIn(b, i)
    BY <1>2, <1>3, <1>4
  <2> QED
    BY <1>1, <1>2, <1>3, <2>1, EffectIsAlone
<1>5. Cardinality(Running(t)) <= ReadLimit
  BY <1>1, <1>2 DEF BatchFine
<1>6. Cardinality(ones) <= 1
  <2>1. ASSUME NEW i \in ones, NEW j \in ones, i < j PROVE FALSE
    <3>1. i \in 1..j - 1 /\ b[i].tool = "stats" /\ b[j].tool = "stats" /\ j \in 1..Len(b)
      BY <2>1
    <3>2. CappedIn(b, j)
      BY <3>1 DEF CappedIn
    <3> QED
      BY <1>1, <3>1, <3>2 DEF BatchFine
  <2>2. \A i, j \in ones : i = j
    <3>1. \A i, j \in ones : i \in Nat /\ j \in Nat
      BY <1>1
    <3> HIDE DEF ones
    <3> QED
      BY <2>1, <3>1
  <2> HIDE DEF ones
  <2>3. CASE ones = {}
    BY <2>3, FS_EmptySet
  <2>4. CASE ones # {}
    <3>1. PICK i \in ones : TRUE
      BY <2>4
    <3>2. ones = {i}
      BY <2>2, <3>1
    <3> QED
      BY <3>2, FS_Singleton
  <2> QED
    BY <2>3, <2>4
<1> QED
  BY <1>4, <1>5, <1>6 DEF b

(* A call that starts: its turn has come, it is not capped unless refused, *)
(* and it runs alone or in a free read slot.                               *)
LEMMA StartKeepsRound ==
    ASSUME TypesOK, RoundsFine, NEW t \in Turns, NEW i \in 1..MaxBatch, StartCall(t, i)
    PROVE  \E c : BatchFine(c) /\ batch' = [batch EXCEPT ![t] = c]
<1> DEFINE b == batch[t]
<1>1. b \in Seq(CallRecord) /\ BatchFine(b) /\ Len(b) \in Nat
  BY DEF TypesOK, RoundsFine
<1>2. i \in 1..Len(b) /\ b[i].st = "new" /\ ComeIn(b, i) /\ b[i] \in CallRecord
  <2>1. i \in 1..Len(b) /\ b[i].st = "new" /\ InTurnOf(t, i)
    BY DEF StartCall
  <2>2. ComeIn(b, i)
    BY <2>1 DEF InTurnOf, ComeIn, Over, OverIn, IsRead
  <2> QED
    BY <1>1, <2>1, <2>2, ElementOfSeq
<1>3. /\ Capped(t, i) <=> CappedIn(b, i)
      /\ Free(t, i) <=> b[i].tool = "effect" \/ Cardinality(RunsIn(b)) < ReadLimit
  BY DEF Capped, CappedIn, Free, IsRead, Running, RunsIn
<1>4. PICK st \in {"refused", "dropped", "run", "queued"} :
         /\ batch' = [batch EXCEPT ![t][i].st = st]
         /\ st # "refused" => ~CappedIn(b, i)
         /\ st = "run" => b[i].tool = "effect" \/ Cardinality(RunsIn(b)) < ReadLimit
  BY <1>3 DEF StartCall
<1> DEFINE call == [b[i] EXCEPT !.st = st]
           c == [b EXCEPT ![i] = call]
<1>5. batch' = [batch EXCEPT ![t] = c]
  BY <1>4 DEF TypesOK
<1>6. call \in CallRecord /\ call.st = st /\ call.tool = b[i].tool
  BY <1>2 DEF CallRecord
<1> HIDE DEF b, call
<1>7. c \in Seq(CallRecord) /\ Len(c) = Len(b) /\ \A j \in 1..Len(b) : c[j] = IF j = i THEN call ELSE b[j]
  BY <1>1, <1>2, <1>6, ExceptSeq, LenProperties
<1> HIDE DEF c
<1>8. \A j \in 1..Len(b) :
         /\ c[j].tool = b[j].tool
         /\ OverIn(b, j) => OverIn(c, j)
         /\ c[j].st \in Started => b[j].st \in Started \/ ComeIn(b, j)
         /\ c[j].st \in Started \cup {"ran"} => b[j].st \in Started \cup {"ran"} \/ ~CappedIn(b, j)
  <2>1. OverIn(b, i) = FALSE
    BY <1>2 DEF OverIn
  <2>2. \A j \in 1..Len(b) : j # i => c[j] = b[j]
    BY <1>7
  <2>3. c[i].st = st /\ c[i].tool = b[i].tool
    BY <1>2, <1>6, <1>7
  <2> QED
    BY <1>2, <1>4, <2>1, <2>2, <2>3 DEF OverIn, Started
<1>9. Cardinality(RunsIn(c)) <= ReadLimit
  <2>1. IsFiniteSet(RunsIn(b)) /\ Cardinality(RunsIn(b)) \in Nat /\ Cardinality(RunsIn(b)) <= ReadLimit
    BY <1>1, RunsFinite DEF BatchFine
  <2>2. i \notin RunsIn(b)
    BY <1>2 DEF RunsIn
  <2>3. CASE st # "run"
    <3>1. RunsIn(c) = RunsIn(b)
      BY <1>2, <1>6, <1>7, <2>3 DEF RunsIn
    <3> QED
      BY <2>1, <3>1
  <2>4. CASE st = "run"
    <3>1. RunsIn(c) = RunsIn(b) \cup {i}
      BY <1>2, <1>6, <1>7, <2>4 DEF RunsIn
    <3>2. CASE b[i].tool = "effect"
      <4>1. \A j \in RunsIn(c) : ComeIn(c, j)
        <5>1. \A j \in 1..Len(b) : ComeIn(b, j) => ComeIn(c, j)
          BY <1>1, <1>8 DEF ComeIn
        <5>2. \A j \in RunsIn(c) : j \in 1..Len(b) /\ ComeIn(b, j)
          BY <1>1, <1>2, <3>1 DEF RunsIn, BatchFine, Started
        <5> QED
          BY <5>1, <5>2
      <4>2. i \in RunsIn(c) /\ c[i].tool = "effect" /\ ComeIn(c, i)
        BY <1>2, <1>8, <3>1, <3>2, <4>1
      <4>3. RunsIn(c) = {i}
        BY <1>7, <4>1, <4>2, EffectIsAlone
      <4>4. Cardinality(RunsIn(c)) = 1
        BY <4>3, FS_Singleton
      <4>5. ReadLimit \in Nat \ {0}
        BY TurnConstants
      <4> QED
        BY <4>4, <4>5
    <3>3. CASE b[i].tool # "effect"
      <4>1. Cardinality(RunsIn(c)) = Cardinality(RunsIn(b)) + 1
        BY <2>1, <2>2, <3>1, FS_AddElement
      <4> QED
        BY <1>4, <2>1, <2>4, <3>3, <4>1, TurnConstants
    <3> QED
      BY <3>2, <3>3
  <2> QED
    BY <2>3, <2>4
<1>10. BatchFine(c)
  BY <1>1, <1>7, <1>8, <1>9, CallsGoOn
<1> QED
  BY <1>5, <1>10

(* A call ends, and its place goes to a read that was queued, if any.      *)
LEMMA EndKeepsRound ==
    ASSUME TypesOK, RoundsFine, NEW t \in Turns, NEW i \in 1..MaxBatch, EndCall(t, i)
    PROVE  \E c : BatchFine(c) /\ batch' = [batch EXCEPT ![t] = c]
<1> DEFINE b == batch[t]
           queued == {j \in 1..Len(b) : b[j].st = "queued"}
           next == CHOOSE j \in queued : \A k \in queued : j <= k
           handed == IF queued = {} THEN b ELSE [b EXCEPT ![next].st = "run"]
           c == [handed EXCEPT ![i].st = "ran"]
<1>1. b \in Seq(CallRecord) /\ BatchFine(b) /\ Len(b) \in Nat /\ DOMAIN b = 1..Len(b)
  BY LenProperties DEF TypesOK, RoundsFine
<1>2. i \in 1..Len(b) /\ b[i].st = "run" /\ batch' = [batch EXCEPT ![t] = c]
  BY DEF EndCall, Running
<1>3. queued # {} => next \in queued
  <2>1. queued \in SUBSET Int /\ \A j \in queued : 0 <= j
    BY <1>1
  <2> HIDE DEF queued
  <2>2. queued # {} => \E j \in queued : \A k \in queued : j <= k
    BY <2>1, LeastIs
  <2> QED
    BY <2>2
<1> HIDE DEF next
<1>4. \A j \in 1..Len(b) : b[j] \in CallRecord
  BY <1>1, ElementOfSeq
<1>5. /\ DOMAIN handed = 1..Len(b)
      /\ \A j \in 1..Len(b) : handed[j] = IF queued # {} /\ j = next THEN [b[j] EXCEPT !.st = "run"] ELSE b[j]
  <2> HIDE DEF b
  <2>1. CASE queued = {}
    BY <1>1, <2>1
  <2>2. CASE queued # {}
    BY <1>1, <2>2
  <2> QED
    BY <2>1, <2>2
<1> HIDE DEF handed
<1>6. /\ DOMAIN c = 1..Len(b)
      /\ \A j \in 1..Len(b) : c[j] = IF j = i THEN [handed[j] EXCEPT !.st = "ran"] ELSE handed[j]
  BY <1>5
<1> HIDE DEF c
<1>7. \A j \in 1..Len(b) :
         /\ [b[j] EXCEPT !.st = "run"] \in CallRecord /\ [b[j] EXCEPT !.st = "run"].st = "run"
         /\ [b[j] EXCEPT !.st = "run"].tool = b[j].tool
  BY <1>4 DEF CallRecord
<1>8. \A j \in 1..Len(b) :
         /\ handed[j] \in CallRecord /\ handed[j].tool = b[j].tool
         /\ handed[j].st = b[j].st \/ (j \in queued /\ queued # {} /\ j = next /\ handed[j].st = "run")
         /\ queued # {} /\ j = next => handed[j].st = "run"
  BY <1>3, <1>4, <1>5, <1>7
<1>9. \A j \in 1..Len(b) :
         /\ [handed[j] EXCEPT !.st = "ran"] \in CallRecord /\ [handed[j] EXCEPT !.st = "ran"].st = "ran"
         /\ [handed[j] EXCEPT !.st = "ran"].tool = b[j].tool
  BY <1>8 DEF CallRecord
<1>10. \A j \in 1..Len(b) :
         /\ c[j] \in CallRecord /\ c[j].tool = b[j].tool
         /\ c[j].st = IF j = i THEN "ran" ELSE handed[j].st
  BY <1>6, <1>8, <1>9
<1>11. c \in Seq(CallRecord) /\ Len(c) = Len(b)
  <2>1. c = [j \in 1..Len(b) |-> c[j]]
    <3>1. c = [j \in DOMAIN c |-> c[j]]
      BY <1>6 DEF c
    <3> QED
      BY <1>6, <3>1
  <2> QED
    BY <1>1, <1>10, <2>1, MapSeq
<1>12. \A j \in 1..Len(b) :
         /\ c[j].tool = b[j].tool
         /\ OverIn(b, j) => OverIn(c, j)
         /\ c[j].st \in Started => b[j].st \in Started \/ ComeIn(b, j)
         /\ c[j].st \in Started \cup {"ran"} => b[j].st \in Started \cup {"ran"} \/ ~CappedIn(b, j)
  <2> SUFFICES ASSUME NEW j \in 1..Len(b)
               PROVE  /\ c[j].tool = b[j].tool
                      /\ OverIn(b, j) => OverIn(c, j)
                      /\ c[j].st \in Started => b[j].st \in Started \/ ComeIn(b, j)
                      /\ c[j].st \in Started \cup {"ran"} => b[j].st \in Started \cup {"ran"} \/ ~CappedIn(b, j)
    OBVIOUS
  <2>1. CASE j = i
    BY <1>2, <1>10, <2>1 DEF OverIn, Started
  <2>2. CASE j # i /\ handed[j].st = b[j].st
    BY <1>10, <2>2 DEF OverIn
  <2>3. CASE j # i /\ j \in queued
    BY <1>10, <2>3 DEF OverIn, Started
  <2> QED
    BY <1>8, <2>1, <2>2, <2>3
<1>13. Cardinality(RunsIn(c)) <= ReadLimit
  <2>1. IsFiniteSet(RunsIn(b)) /\ Cardinality(RunsIn(b)) \in Nat /\ Cardinality(RunsIn(b)) <= ReadLimit
    BY <1>1, RunsFinite DEF BatchFine
  <2>2. i \in RunsIn(b)
    BY <1>2 DEF RunsIn
  <2>3. CASE queued = {}
    <3>1. RunsIn(c) \in SUBSET RunsIn(b)
      BY <1>8, <1>10, <1>11, <2>3 DEF RunsIn
    <3>2. Cardinality(RunsIn(c)) <= Cardinality(RunsIn(b)) /\ Cardinality(RunsIn(c)) \in Nat
      BY <2>1, <3>1, FS_Subset, FS_CardinalityType
    <3> QED
      BY <2>1, <3>2, TurnConstants
  <2>4. CASE queued # {}
    <3>1. next \in 1..Len(b) /\ b[next].st = "queued" /\ next # i
      BY <1>2, <1>3, <2>4
    <3>2. RunsIn(c) = (RunsIn(b) \ {i}) \cup {next}
      BY <1>8, <1>10, <1>11, <2>4, <3>1 DEF RunsIn
    <3> DEFINE less == RunsIn(b) \ {i}
    <3>3. IsFiniteSet(less) /\ Cardinality(less) = Cardinality(RunsIn(b)) - 1
      BY <2>1, <2>2, FS_RemoveElement
    <3>4. next \notin less
      BY <3>1 DEF RunsIn
    <3>5. RunsIn(c) = less \cup {next}
      BY <3>2
    <3> HIDE DEF less
    <3>6. Cardinality(RunsIn(c)) = Cardinality(less) + 1
      BY <3>3, <3>4, <3>5, FS_AddElement
    <3> QED
      BY <2>1, <3>3, <3>6, TurnConstants
  <2> QED
    BY <2>3, <2>4
<1>14. BatchFine(c)
  BY <1>1, <1>11, <1>12, <1>13, CallsGoOn
<1> QED
  BY <1>2, <1>14

(* The deadline drops what is queued.                                      *)
LEMMA DropKeepsRound ==
    ASSUME TypesOK, RoundsFine, NEW t \in Turns, batch' = Abandon(t)
    PROVE  \E c : BatchFine(c) /\ batch' = [batch EXCEPT ![t] = c]
<1> DEFINE b == batch[t]
           c == [i \in 1..Len(b) |-> IF b[i].st = "queued" THEN [b[i] EXCEPT !.st = "dropped"] ELSE b[i]]
<1>1. b \in Seq(CallRecord) /\ BatchFine(b) /\ Len(b) \in Nat /\ DOMAIN b = 1..Len(b)
  BY LenProperties DEF TypesOK, RoundsFine
<1>2. batch' = [batch EXCEPT ![t] = c]
  BY DEF Abandon, TypesOK
<1>3. \A i \in 1..Len(b) : b[i] \in CallRecord
  BY <1>1, ElementOfSeq
<1>4. \A i \in 1..Len(b) :
         /\ [b[i] EXCEPT !.st = "dropped"] \in CallRecord /\ [b[i] EXCEPT !.st = "dropped"].st = "dropped"
         /\ [b[i] EXCEPT !.st = "dropped"].tool = b[i].tool
  BY <1>3 DEF CallRecord
<1>5. \A i \in 1..Len(b) :
         /\ c[i] \in CallRecord /\ c[i].tool = b[i].tool
         /\ c[i] = b[i] \/ (c[i].st = "dropped" /\ ~OverIn(b, i))
  BY <1>3, <1>4 DEF Over, OverIn
<1>6. c \in Seq(CallRecord) /\ Len(c) = Len(b)
  <2>1. c = [i \in 1..Len(b) |-> c[i]]
    OBVIOUS
  <2> HIDE DEF c, b
  <2> QED
    BY <1>1, <1>5, <2>1, MapSeq
<1> HIDE DEF c, b
<1>7. RunsIn(c) \in SUBSET RunsIn(b)
  BY <1>5, <1>6 DEF RunsIn
<1>8. Cardinality(RunsIn(c)) <= ReadLimit
  <2>1. IsFiniteSet(RunsIn(b)) /\ Cardinality(RunsIn(b)) \in Nat /\ Cardinality(RunsIn(b)) <= ReadLimit
    BY <1>1, RunsFinite DEF BatchFine
  <2>2. Cardinality(RunsIn(c)) <= Cardinality(RunsIn(b)) /\ Cardinality(RunsIn(c)) \in Nat
    BY <1>7, <2>1, FS_Subset, FS_CardinalityType
  <2> QED
    BY <2>1, <2>2, TurnConstants
<1>9. \A i \in 1..Len(b) :
         /\ c[i].tool = b[i].tool
         /\ OverIn(b, i) => OverIn(c, i)
         /\ c[i].st \in Started => b[i].st \in Started \/ ComeIn(b, i)
         /\ c[i].st \in Started \cup {"ran"} => b[i].st \in Started \cup {"ran"} \/ ~CappedIn(b, i)
  BY <1>5 DEF OverIn, Started
<1>10. BatchFine(c)
  BY <1>1, <1>6, <1>8, <1>9, CallsGoOn
<1> QED
  BY <1>2, <1>10

LEMMA RoundsNext == TypesOK /\ RoundsFine /\ [TurnNext]_turnVars => RoundsFine'
<1> SUFFICES ASSUME TypesOK, RoundsFine, [TurnNext]_turnVars PROVE RoundsFine'
  OBVIOUS
<1>1. CASE UNCHANGED batch
  BY <1>1 DEF RoundsFine
<1>2. ASSUME NEW t \in Turns, \E c : BatchFine(c) /\ batch' = [batch EXCEPT ![t] = c]
      PROVE  RoundsFine'
  <2>1. PICK c : BatchFine(c) /\ batch' = [batch EXCEPT ![t] = c]
    BY <1>2
  <2>2. \A u \in Turns : batch'[u] = IF u = t THEN c ELSE batch[u]
    BY <2>1 DEF TypesOK
  <2>3. \A u \in Turns : BatchFine(batch'[u])
    BY <2>1, <2>2 DEF RoundsFine
  <2> QED
    BY <2>3 DEF RoundsFine
<1>3. CASE TurnNext
  <2>1. PICK t \in Turns : TurnStep(t) \/ WorkExpires(t) \/ RootExpires(t)
    BY <1>3 DEF TurnNext
  <2>2. CASE \/ WorkExpires(t) \/ Refuse(t) \/ Start(t) \/ LeaveQueue(t) \/ NextRound(t) \/ Deadline(t)
             \/ \E b \in BOOLEAN : FinalText(t, b) \/ CallFails(t, b)
             \/ \E outcome \in Outcomes : WrapCall(t, outcome) \/ QueryEnds(t, outcome)
    <3>1. UNCHANGED batch
      BY <2>2 DEF WorkExpires, Refuse, Start, LeaveQueue, NextRound, Deadline, FinalText, CallFails,
                  WrapCall, QueryEnds
    <3> QED
      BY <1>1, <3>1
  <2>3. CASE RoundEnds(t) \/ ToolBatchEnds(t)
    <3>1. batch' = [batch EXCEPT ![t] = <<>>]
      BY <2>3 DEF RoundEnds, ToolBatchEnds
    <3> QED
      BY <1>2, <3>1, NoRoundFine
  <2>4. CASE \E calls \in Batches : AskTools(t, calls) \/ QueryCallsTools(t, calls)
    <3>1. PICK calls \in Batches : batch' = [batch EXCEPT ![t] = calls]
      BY <2>4 DEF AskTools, QueryCallsTools
    <3>2. calls \in Seq(CallRecord) /\ Len(calls) <= MaxBatch /\ \A i \in 1..Len(calls) : calls[i].st = "new"
      BY BatchTyped
    <3>3. BatchFine(calls)
      BY <3>2, NewRoundFine
    <3> QED
      BY <1>2, <3>1, <3>3
  <2>5. CASE \E i \in 1..MaxBatch : StartCall(t, i) \/ EndCall(t, i)
    BY <1>2, <2>5, StartKeepsRound, EndKeepsRound
  <2>6. CASE RootExpires(t)
    BY <1>2, <2>6, DropKeepsRound DEF RootExpires
  <2> QED
    BY <2>1, <2>2, <2>3, <2>4, <2>5, <2>6 DEF TurnStep
<1> QED
  BY <1>1, <1>3 DEF turnVars

----
(* The limits of a turn.  A Claude turn that may still ask for tools has a *)
(* round left, since the count and the wrap-up are made in one step.       *)

LimitsOf(r, e) ==
    /\ r.rounds <= MaxRounds /\ r.retries <= MaxRetries
    /\ (e = "claude" /\ r.wrapUp = "none") => r.rounds < MaxRounds

LimitsKept ==
    /\ \A t \in Turns : LimitsOf(turn[t], engine)
    /\ engine = "responses" => active = 0

\* The rounds, retries and wrap-up of every turn in f are what they were.
SameLimits(f) ==
    \A t \in Turns :
        f[t].rounds = turn[t].rounds /\ f[t].retries = turn[t].retries /\ f[t].wrapUp = turn[t].wrapUp

LEMMA SameLimitsFine ==
    ASSUME LimitsKept, SameLimits(turn'), UNCHANGED engine, engine = "claude" \/ UNCHANGED active
    PROVE  LimitsKept'
BY DEF LimitsKept, LimitsOf, SameLimits

\* What the actions write to a turn besides: its place, its reply and the
\* deadlines that have passed.
LEMMA OneSame ==
    ASSUME TypesOK, NEW t \in Turns, NEW r, r.rounds = turn[t].rounds, r.retries = turn[t].retries,
           r.wrapUp = turn[t].wrapUp, turn' = [turn EXCEPT ![t] = r]
    PROVE  SameLimits(turn')
BY DEF TypesOK, SameLimits

LEMMA GoSame == ASSUME TypesOK, NEW t \in Turns, NEW pc, Go(t, pc) PROVE SameLimits(turn')
<1>1. turn[t] \in TurnRecord
  BY DEF TypesOK
<1>2. turn' = [turn EXCEPT ![t] = [turn[t] EXCEPT !.pc = pc]]
  BY DEF Go
<1> QED
  BY <1>1, <1>2, OneSame DEF TurnRecord

LEMMA ReplySame == ASSUME TypesOK, NEW t \in Turns, NEW kind, Reply(t, kind) PROVE SameLimits(turn')
<1> DEFINE r == [turn[t] EXCEPT !.pc = "done", !.reply = kind]
<1>1. turn[t] \in TurnRecord
  BY DEF TypesOK
<1>2. r.rounds = turn[t].rounds /\ r.retries = turn[t].retries /\ r.wrapUp = turn[t].wrapUp
  BY <1>1 DEF TurnRecord
<1>3. turn' = [turn EXCEPT ![t] = r]
  BY DEF Reply, TypesOK
<1> HIDE DEF r
<1> QED
  BY <1>2, <1>3, OneSame

LEMMA ExpirySame == ASSUME TypesOK, NEW t \in Turns, WorkExpires(t) \/ RootExpires(t) PROVE SameLimits(turn')
<1>1. turn[t] \in TurnRecord
  BY DEF TypesOK
<1>2. CASE WorkExpires(t)
  BY <1>1, <1>2, OneSame DEF WorkExpires, TurnRecord
<1>3. CASE RootExpires(t)
  BY <1>1, <1>3, OneSame DEF RootExpires, TurnRecord
<1> QED
  BY <1>2, <1>3

LEMMA ReleaseSame ==
    ASSUME TypesOK, NEW t \in Turns, NEW kind \in Outcomes, Ends(t, kind)
    PROVE  SameLimits(turn')
<1> DEFINE r == [turn[t] EXCEPT !.pc = "done", !.reply = kind]
           after == [turn EXCEPT ![t] = r]
<1>1. turn[t] \in TurnRecord /\ turn \in [Turns -> TurnRecord]
  BY DEF TypesOK
<1>2. r \in TurnRecord /\ r.rounds = turn[t].rounds /\ r.retries = turn[t].retries /\ r.wrapUp = turn[t].wrapUp
  BY <1>1 DEF TurnRecord, Outcomes
<1>3. Release(after)
  BY <1>1 DEF Ends
<1> HIDE DEF r
<1>4. after \in [Turns -> TurnRecord] /\ SameLimits(after)
  BY <1>1, <1>2 DEF SameLimits
<1> HIDE DEF after
<1>5. CASE waiters = <<>>
  BY <1>3, <1>4, <1>5 DEF Release
<1>6. CASE waiters # <<>>
  <2> DEFINE u == Head(waiters)
             q == [after[u] EXCEPT !.pc = "asking"]
  <2>1. u \in Turns
    BY <1>6, HeadTailProperties DEF TypesOK
  <2>2. turn' = [after EXCEPT ![u] = q]
    BY <1>3, <1>6 DEF Release
  <2>3. q.rounds = after[u].rounds /\ q.retries = after[u].retries /\ q.wrapUp = after[u].wrapUp
    BY <1>4, <2>1 DEF TurnRecord
  <2> HIDE DEF u, q
  <2>4. turn'[u] = q /\ \A v \in Turns : v # u => turn'[v] = after[v]
    BY <1>4, <2>1, <2>2
  <2> QED
    BY <1>4, <2>3, <2>4, Zenon DEF SameLimits
<1> QED
  BY <1>5, <1>6

\* A step that changes one turn only.
LEMMA OneTurnLimits ==
    ASSUME TypesOK, LimitsKept, NEW t \in Turns, NEW r, turn' = [turn EXCEPT ![t] = r],
           LimitsOf(r, engine), UNCHANGED <<engine, active>>
    PROVE  LimitsKept'
<1>1. \A u \in Turns : turn'[u] = IF u = t THEN r ELSE turn[u]
  BY DEF TypesOK
<1> QED
  BY <1>1 DEF LimitsKept

\* The steps that count nothing.
LEMMA UncountedSteps ==
    ASSUME TypesOK, NEW t \in Turns,
           \/ WorkExpires(t) \/ RootExpires(t) \/ Refuse(t) \/ RoundEnds(t) \/ Start(t) \/ LeaveQueue(t)
           \/ \E calls \in Batches : AskTools(t, calls) \/ QueryCallsTools(t, calls)
           \/ \E outcome \in Outcomes : WrapCall(t, outcome)
           \/ \E i \in 1..MaxBatch : StartCall(t, i) \/ EndCall(t, i)
    PROVE  SameLimits(turn') /\ UNCHANGED engine /\ (engine = "claude" \/ UNCHANGED active)
<1>1. CASE WorkExpires(t) \/ RootExpires(t)
  BY <1>1, ExpirySame DEF WorkExpires, RootExpires
<1>2. CASE Refuse(t)
  BY <1>2, ReplySame DEF Refuse
<1>3. CASE RoundEnds(t)
  BY <1>3, GoSame DEF RoundEnds
<1>4. CASE Start(t)
  <2>1. \/ Reply(t, "fallback") \/ Go(t, "round") \/ Go(t, "asking") \/ Go(t, "slot")
    BY <1>4 DEF Start, Granted, Go
  <2>2. UNCHANGED engine /\ (engine = "claude" \/ UNCHANGED active)
    BY <1>4 DEF Start
  <2> QED
    BY <2>1, <2>2, ReplySame, GoSame
<1>5. CASE LeaveQueue(t)
  BY <1>5, ReplySame DEF LeaveQueue
<1>6. CASE \E calls \in Batches : AskTools(t, calls) \/ QueryCallsTools(t, calls)
  BY <1>6, GoSame DEF AskTools, QueryCallsTools
<1>7. CASE \E outcome \in Outcomes : WrapCall(t, outcome)
  BY <1>7, ReplySame DEF WrapCall
<1>8. CASE \E i \in 1..MaxBatch : StartCall(t, i) \/ EndCall(t, i)
  <2>1. UNCHANGED <<engine, turn, active>>
    BY <1>8, Zenon DEF StartCall, EndCall
  <2> QED
    BY <2>1 DEF SameLimits
<1> QED
  BY <1>1, <1>2, <1>3, <1>4, <1>5, <1>6, <1>7, <1>8

LEMMA LimitsNext == TurnInv /\ LimitsKept /\ [TurnNext]_turnVars => LimitsKept'
<1> SUFFICES ASSUME TurnInv, LimitsKept, [TurnNext]_turnVars PROVE LimitsKept'
  OBVIOUS
<1>1. TypesOK
  BY DEF TurnInv
<1>2. CASE UNCHANGED turnVars
  BY <1>2 DEF turnVars, LimitsKept, LimitsOf
<1>3. CASE TurnNext
  <2>1. PICK t \in Turns : TurnStep(t) \/ WorkExpires(t) \/ RootExpires(t)
    BY <1>3 DEF TurnNext
  <2>2. /\ turn[t] \in TurnRecord /\ turn[t].rounds \in Nat /\ turn[t].retries \in Nat
        /\ MaxRounds \in Nat /\ MaxRetries \in Nat
        /\ LimitsOf(turn[t], engine) /\ TurnFine(turn[t], batch[t], engine) /\ engine \in {"responses", "claude"}
    BY <1>1, TurnConstants DEF TypesOK, TurnRecord, LimitsKept, TurnInv, TurnsFine
  <2>3. CASE \/ WorkExpires(t) \/ RootExpires(t) \/ Refuse(t) \/ RoundEnds(t) \/ Start(t) \/ LeaveQueue(t)
             \/ \E calls \in Batches : AskTools(t, calls) \/ QueryCallsTools(t, calls)
             \/ \E outcome \in Outcomes : WrapCall(t, outcome)
             \/ \E i \in 1..MaxBatch : StartCall(t, i) \/ EndCall(t, i)
    BY <1>1, <2>3, UncountedSteps, SameLimitsFine
  <2>4. CASE Deadline(t) \/ \E outcome \in Outcomes : QueryEnds(t, outcome)
    <3>1. SameLimits(turn')
      BY <1>1, <2>4, ReleaseSame DEF Deadline, QueryEnds, Outcomes
    <3>2. UNCHANGED engine /\ engine = "claude"
      BY <2>4 DEF Deadline, QueryEnds
    <3> QED
      BY <3>1, <3>2, SameLimitsFine
  <2>5. CASE NextRound(t)
    <3> DEFINE r1 == [turn[t] EXCEPT !.pc = "wrap", !.wrapUp = "round_cap"]
               r2 == [turn[t] EXCEPT !.rounds = @ + 1, !.pc = IF turn[t].work THEN "wrap" ELSE "asking",
                                     !.wrapUp = IF turn[t].work THEN "deadline" ELSE @]
    <3>1. engine = "responses" /\ UNCHANGED <<engine, active>>
      BY <2>2, <2>5 DEF NextRound, TurnFine
    <3>2. turn' = [turn EXCEPT ![t] = r1] \/ (turn[t].rounds < MaxRounds /\ turn' = [turn EXCEPT ![t] = r2])
      <4>1. CASE turn[t].rounds >= MaxRounds
        BY <1>1, <2>5, <4>1 DEF NextRound, WrapUp, TypesOK
      <4>2. CASE ~(turn[t].rounds >= MaxRounds)
        <5>1. turn' = [turn EXCEPT ![t] = r2]
          BY <1>1, <2>5, <4>2 DEF NextRound, TypesOK
        <5> QED
          BY <2>2, <4>2, <5>1
      <4> QED
        BY <4>1, <4>2
    <3>3. r1.rounds = turn[t].rounds /\ r1.retries = turn[t].retries
      BY <2>2 DEF TurnRecord
    <3>4. r2.rounds = turn[t].rounds + 1 /\ r2.retries = turn[t].retries
      BY <2>2 DEF TurnRecord
    <3> HIDE DEF r1, r2
    <3>5. LimitsOf(r1, engine) /\ (turn[t].rounds < MaxRounds => LimitsOf(r2, engine))
      BY <2>2, <3>1, <3>3, <3>4 DEF LimitsOf
    <3> QED
      BY <1>1, <3>1, <3>2, <3>5, OneTurnLimits
  <2>6. CASE \E b \in BOOLEAN : FinalText(t, b) \/ CallFails(t, b)
    <3> DEFINE retry == [turn[t] EXCEPT !.pc = "round", !.retries = @ + 1]
               wrap == [turn[t] EXCEPT !.pc = "wrap", !.wrapUp = "deadline"]
    <3>1. engine = "responses" /\ UNCHANGED <<engine, active>>
      BY <2>6 DEF FinalText, CallFails
    <3>2. \/ \E kind : Reply(t, kind)
          \/ turn' = [turn EXCEPT ![t] = wrap]
          \/ turn[t].retries < MaxRetries /\ turn' = [turn EXCEPT ![t] = retry]
      <4>1. CASE \E b \in BOOLEAN : FinalText(t, b)
        BY <1>1, <4>1 DEF FinalText, TypesOK
      <4>2. CASE \E b \in BOOLEAN : CallFails(t, b)
        BY <1>1, <4>2 DEF CallFails, WrapUp, TypesOK
      <4> QED
        BY <2>6, <4>1, <4>2
    <3>3. wrap.rounds = turn[t].rounds /\ wrap.retries = turn[t].retries
      BY <2>2 DEF TurnRecord
    <3>4. retry.rounds = turn[t].rounds /\ retry.retries = turn[t].retries + 1
      BY <2>2 DEF TurnRecord
    <3> HIDE DEF retry, wrap
    <3>5. LimitsOf(wrap, engine) /\ (turn[t].retries < MaxRetries => LimitsOf(retry, engine))
      BY <2>2, <3>1, <3>3, <3>4 DEF LimitsOf
    <3>6. CASE \E kind : Reply(t, kind)
      BY <1>1, <3>1, <3>6, ReplySame, SameLimitsFine
    <3> QED
      BY <1>1, <3>1, <3>2, <3>5, <3>6, OneTurnLimits
  <2>7. CASE ToolBatchEnds(t)
    <3> DEFINE why == IF turn[t].rounds + 1 >= MaxRounds THEN "round_cap"
                      ELSE IF turn[t].work THEN "deadline" ELSE "none"
               r == [turn[t] EXCEPT !.pc = "asking", !.rounds = @ + 1, !.wrapUp = why]
    <3>1. turn[t].rounds < MaxRounds /\ UNCHANGED <<engine, active>>
      BY <2>2, <2>7 DEF ToolBatchEnds, TurnFine, LimitsOf
    <3>2. turn' = [turn EXCEPT ![t] = r]
      BY <1>1, <2>7 DEF ToolBatchEnds, TypesOK
    <3>3. r.rounds = turn[t].rounds + 1 /\ r.retries = turn[t].retries /\ r.wrapUp = why
      BY <2>2 DEF TurnRecord
    <3> HIDE DEF r
    <3>4. LimitsOf(r, engine)
      BY <2>2, <3>1, <3>3 DEF LimitsOf
    <3> QED
      BY <1>1, <3>1, <3>2, <3>4, OneTurnLimits
  <2> QED
    BY <2>1, <2>3, <2>4, <2>5, <2>6, <2>7 DEF TurnStep
<1> QED
  BY <1>2, <1>3 DEF turnVars

----
(* The theorems. *)

LEMMA TurnInitInv == TurnInit => TurnInv
<1> SUFFICES ASSUME TurnInit PROVE TurnInv
  OBVIOUS
<1>1. TypesOK
  BY EmptySeq DEF TurnInit, TypesOK, TurnRecord
<1>2. TurnsFine /\ QueueOK
  BY EmptySeq DEF TurnInit, TurnsFine, TurnFine, QueueOK
<1>3. CountOK
  <2>1. Holders = {}
    BY DEF TurnInit, Holders, Querying
  <2> QED
    BY <2>1, FS_EmptySet, TurnConstants DEF TurnInit, CountOK
<1> QED
  BY <1>1, <1>2, <1>3 DEF TurnInv

LEMMA TurnNextInv == TurnInv /\ [TurnNext]_turnVars => TurnInv' /\ (StartsOK \/ UNCHANGED turnVars)
<1> SUFFICES ASSUME TurnInv, [TurnNext]_turnVars
             PROVE  TurnInv' /\ (StartsOK \/ UNCHANGED turnVars)
  OBVIOUS
<1>1. CASE UNCHANGED turnVars
  BY <1>1 DEF turnVars, TurnInv, TypesOK, TurnsFine, QueueOK, CountOK, Holders
<1>2. CASE TurnNext
  <2>1. PICK t \in Turns : TurnStep(t) \/ WorkExpires(t) \/ RootExpires(t)
    BY <1>2 DEF TurnNext
  <2>2. CASE \/ WorkExpires(t) \/ Refuse(t) \/ NextRound(t)
             \/ \E outcome \in Outcomes : WrapCall(t, outcome)
             \/ \E b \in BOOLEAN : FinalText(t, b) \/ CallFails(t, b)
    BY <2>2, QuietSteps
  <2>3. CASE \/ RoundEnds(t) \/ ToolBatchEnds(t)
             \/ \E calls \in Batches : AskTools(t, calls) \/ QueryCallsTools(t, calls)
    BY <2>3, RoundSteps
  <2>4. CASE \E i \in 1..MaxBatch : StartCall(t, i) \/ EndCall(t, i)
    BY <2>4, CallSteps
  <2>5. CASE Deadline(t) \/ \E outcome \in Outcomes : QueryEnds(t, outcome)
    BY <2>5, EndSteps
  <2>7. CASE RootExpires(t)
    BY <2>7, DropStep
  <2>6. CASE Start(t) \/ LeaveQueue(t)
    BY <2>6, StartStep, LeaveStep
  <2> QED
    BY <2>1, <2>2, <2>3, <2>4, <2>5, <2>6, <2>7 DEF TurnStep
<1> QED
  BY <1>1, <1>2

LEMMA TurnInvariant == TurnSpec => []TurnInv
<1>1. TurnInv /\ [TurnNext]_turnVars => TurnInv'
  BY TurnNextInv
<1> QED
  BY TurnInitInv, <1>1, PTL DEF TurnSpec

(* A tool call starts in a round of its turn that was not told to wrap up; *)
(* of those queued none starts once the deadline has come, and after the   *)
(* reply only reads do that a query which ended among its tools had left   *)
(* in the queue.                                                           *)
THEOREM NoLateStart == TurnSpec => StartsInTurn
<1>1. TurnInv /\ [TurnNext]_turnVars => [StartsOK]_turnVars
  BY TurnNextInv
<1>2. []TurnInv /\ [][TurnNext]_turnVars => [][StartsOK]_turnVars
  BY <1>1, PTL
<1> QED
  BY <1>2, TurnInvariant, PTL DEF TurnSpec, StartsInTurn, StartsOK, FromQueue

LEMMA SlotsHold == TurnInv => SlotsHeld
<1> SUFFICES ASSUME TurnInv, engine = "claude"
             PROVE  /\ active = Cardinality({t \in Turns : turn[t].pc \in {"asking", "tools"}})
                    /\ waiters # <<>> => active = Slots
                    /\ \A t \in Turns : turn[t].pc = "slot" <=> \E i \in 1..Len(waiters) : waiters[i] = t
  BY DEF SlotsHeld
<1>1. active = Cardinality({t \in Turns : turn[t].pc \in {"asking", "tools"}})
  BY DEF TurnInv, CountOK, Holders, Querying
<1>2. waiters # <<>> => active = Slots
  BY DEF TurnInv, CountOK
<1>3. \A t \in Turns : turn[t].pc = "slot" <=> \E i \in 1..Len(waiters) : waiters[i] = t
  BY DEF TurnInv, QueueOK
<1> QED
  BY <1>1, <1>2, <1>3

(* A Claude slot is counted for exactly the turns whose query runs, and    *)
(* nobody waits while one is free: a slot is neither lost nor handed out   *)
(* twice, whoever ends, gives up waiting or is admitted.                   *)
THEOREM SlotsExact == TurnSpec => []SlotsHeld
BY SlotsHold, TurnInvariant, PTL

RoundInv == TurnInv /\ RoundsFine /\ LimitsKept

LEMMA LimitsTyped == RoundInv => TurnTypeOK
<1> SUFFICES ASSUME RoundInv PROVE TurnTypeOK
  OBVIOUS
<1>1. TypesOK /\ CountOK /\ LimitsKept /\ RoundsFine
  BY DEF RoundInv, TurnInv
<1>2. turn \in [Turns -> [pc : {"idle", "slot", "round", "asking", "tools", "wrap", "done"},
                         rounds : 0..MaxRounds + 1, retries : 0..MaxRetries, work : BOOLEAN, root : BOOLEAN,
                         wrapUp : {"none", "deadline", "round_cap"},
                         reply : {"none", "model", "fallback", "provider", "maintenance"}]]
  <2>1. \A t \in Turns : turn[t].rounds \in 0..MaxRounds + 1 /\ turn[t].retries \in 0..MaxRetries
    BY <1>1, TurnConstants DEF TypesOK, TurnRecord, LimitsKept, LimitsOf
  <2> QED
    BY <1>1, <2>1 DEF TypesOK, TurnRecord
<1>3. \A t \in Turns : /\ Len(batch[t]) <= MaxBatch
                       /\ \A i \in 1..Len(batch[t]) : batch[t][i] \in CallRecord
  BY <1>1, ElementOfSeq DEF TypesOK, RoundsFine, BatchFine
<1>4. engine \in {"responses", "claude"} /\ active \in 0..Slots
  BY <1>1, TurnConstants DEF TypesOK, CountOK, LimitsKept
<1>5. \A i \in 1..Len(waiters) : waiters[i] \in Turns
  BY <1>1, ElementOfSeq DEF TypesOK
<1> QED
  BY <1>2, <1>3, <1>4, <1>5 DEF TurnTypeOK, CallRecord

LEMMA RoundInvariant == TurnInit /\ [][TurnNext]_turnVars => []RoundInv
<1>1. TurnInit => RoundInv
  <2>1. TurnInit => RoundsFine
    BY NoRoundFine DEF TurnInit, RoundsFine
  <2>2. TurnInit => LimitsKept
    BY TurnConstants DEF TurnInit, LimitsKept, LimitsOf
  <2> QED
    BY <2>1, <2>2, TurnInitInv DEF RoundInv
<1>2. RoundInv /\ [TurnNext]_turnVars => RoundInv'
  BY TurnNextInv, RoundsNext, LimitsNext DEF RoundInv, TurnInv
<1> QED
  BY <1>1, <1>2, PTL

(* Each call of a round gets the order its kind asks for: an effect runs   *)
(* with no other call and after all before it, reads overlap up to the     *)
(* limit and a capped tool runs once a round; and no turn goes past its    *)
(* rounds, its retries and the slots: for any number of turns and calls    *)
(* (toolRoundController.js, claudeTurnControl.js).                         *)
THEOREM RoundsOrdered == TurnSpec => [](TurnTypeOK /\ RoundContract)
<1>1. RoundInv => TurnTypeOK /\ RoundContract
  BY RoundsHold, LimitsTyped DEF RoundInv, TurnInv
<1> QED
  BY <1>1, RoundInvariant, PTL DEF TurnSpec
====
