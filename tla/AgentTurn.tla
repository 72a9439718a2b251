---- MODULE AgentTurn ----
(***************************************************************************)
(* A turn from its admission to its reply: handler.js, turnPreparation.js  *)
(* and the two engines behind turnOrchestrator.js.                         *)
(*                                                                         *)
(* On "responses" GemiX drives the loop of model calls and tool rounds     *)
(* (engines/responsesEngine.js, toolRoundController.js).  On "claude" one  *)
(* Claude Code query drives it, one of a bounded number in the process,    *)
(* and GemiX answers its tool calls and hooks (claudeAgentEngine.js,       *)
(* claudeTurnControl.js).  The model, the tools and Claude Code are        *)
(* external: each call ends, with any of its outcomes.                     *)
(***************************************************************************)
EXTENDS Integers, Sequences, FiniteSets

CONSTANTS
    Turns,
    Slots,        \* maxConcurrentTurns of the Claude profile
    MaxRounds,    \* MAX_TOOL_ROUNDS
    MaxRetries,   \* MAX_EMPTY_OUTPUT_RETRIES
    ReadLimit,    \* TOOL_READ_CONCURRENCY
    MaxBatch      \* bound on the calls of one model response

ASSUME TurnConstants ==
    /\ Slots \in Nat \ {0} /\ MaxRounds \in Nat \ {0} /\ ReadLimit \in Nat \ {0}
    /\ MaxRetries \in Nat /\ MaxBatch \in Nat /\ IsFiniteSet(Turns)

VARIABLES
    engine,    \* the runtime of the active profile
    turn,      \* per turn: where it stands, its rounds, retries, deadlines, wrap-up and reply
    batch,     \* per turn: the tool calls of the current round, in the model's order
    active,    \* the Claude slots' semaphore: holders counted
    waiters    \* and the turns queued for one

turnVars == <<engine, turn, batch, active, waiters>>

(* A tool call: what it does ("stats" is the read with a per-round cap),   *)
(* and how far it is.                                                      *)
Tools == {"read", "stats", "effect"}
Call(tool) == [tool |-> tool, st |-> "new"]
Batches == UNION {[1..n -> {Call(tool) : tool \in Tools}] : n \in 1..MaxBatch}

TurnTypeOK ==
    /\ engine \in {"responses", "claude"}
    /\ turn \in [Turns -> [pc : {"idle", "slot", "round", "asking", "tools", "wrap", "done"},
                           rounds : 0..MaxRounds + 1, retries : 0..MaxRetries, work : BOOLEAN, root : BOOLEAN,
                           wrapUp : {"none", "deadline", "round_cap"},
                           reply : {"none", "model", "fallback", "provider", "maintenance"}]]
    /\ \A t \in Turns :
          /\ Len(batch[t]) <= MaxBatch
          /\ \A i \in 1..Len(batch[t]) :
                batch[t][i] \in [tool : Tools, st : {"new", "queued", "run", "ran", "refused", "dropped"}]
    /\ active \in 0..Slots
    /\ \A i \in 1..Len(waiters) : waiters[i] \in Turns

TurnInit ==
    /\ engine \in {"responses", "claude"}
    /\ turn = [t \in Turns |-> [pc |-> "idle", rounds |-> 0, retries |-> 0, work |-> FALSE, root |-> FALSE,
                                wrapUp |-> "none", reply |-> "none"]]
    /\ batch = [t \in Turns |-> <<>>]
    /\ active = 0
    /\ waiters = <<>>

Go(t, pc) == turn' = [turn EXCEPT ![t].pc = pc]
Reply(t, kind) == turn' = [turn EXCEPT ![t].pc = "done", ![t].reply = kind]

\* Fault: the deadline leaves the queued reads.
AbandonNothing(t) == batch

(* A read that waits for its slot when the turn's deadline comes is        *)
(* rejected; a call that is running goes on, and nobody waits for it.      *)
Abandon(t) ==
    [batch EXCEPT ![t] = [i \in 1..Len(@) |-> IF @[i].st = "queued" THEN [@[i] EXCEPT !.st = "dropped"] ELSE @[i]]]

(* What a deadline still matters to: a turn before its reply, and the      *)
(* reads that a query left queued when it ended among its tools (the       *)
(* timers are released when the reply is out, which may wait for a note to *)
(* the admin: it comes to those reads or not).                             *)
AtWork(t) ==
    \/ turn[t].pc \notin {"idle", "done"}
    \/ \E i \in 1..Len(batch[t]) : batch[t][i].st = "queued"

(* The two deadlines: the work phase's, then the turn's own.               *)
WorkExpires(t) ==
    /\ AtWork(t) /\ ~turn[t].work
    /\ turn' = [turn EXCEPT ![t].work = TRUE]
    /\ UNCHANGED <<engine, batch, active, waiters>>

RootExpires(t) ==
    /\ AtWork(t) /\ turn[t].work /\ ~turn[t].root
    /\ turn' = [turn EXCEPT ![t].root = TRUE]
    /\ batch' = Abandon(t)
    /\ UNCHANGED <<engine, active, waiters>>

(***************************************************************************)
(* Claude slots: createSemaphore.  A released slot is handed to the first  *)
(* waiter; only with none left does the count go down.                     *)
(***************************************************************************)
Granted(t) == [turn EXCEPT ![t].pc = "asking"]

\* Fault: a slot that is handed over is counted as free too.
ReleaseTwice(after) ==
    /\ turn' = IF waiters = <<>> THEN after ELSE [after EXCEPT ![Head(waiters)].pc = "asking"]
    /\ waiters' = IF waiters = <<>> THEN waiters ELSE Tail(waiters)
    /\ active' = active - 1

Release(after) ==
    IF waiters = <<>>
    THEN turn' = after /\ active' = active - 1 /\ UNCHANGED waiters
    ELSE /\ turn' = [after EXCEPT ![Head(waiters)].pc = "asking"]
         /\ waiters' = Tail(waiters)
         /\ UNCHANGED active

(* The end of a query: the slot is given back whatever the outcome.        *)
Ends(t, kind) == Release([turn EXCEPT ![t].pc = "done", ![t].reply = kind])

(***************************************************************************)
(* Admission and preparation.                                              *)
(***************************************************************************)
Refuse(t) ==
    /\ turn[t].pc = "idle"
    /\ Reply(t, "maintenance")
    /\ UNCHANGED <<engine, batch, active, waiters>>

Start(t) ==
    /\ turn[t].pc = "idle"
    /\ UNCHANGED <<engine, batch>>
    /\ \/ Reply(t, "fallback") /\ UNCHANGED <<active, waiters>>           \* the preparation threw
       \/ engine = "responses" /\ Go(t, "round") /\ UNCHANGED <<active, waiters>>
       \/ /\ engine = "claude"
          /\ IF active < Slots
             THEN turn' = Granted(t) /\ active' = active + 1 /\ UNCHANGED waiters
             ELSE Go(t, "slot") /\ waiters' = Append(waiters, t) /\ UNCHANGED active

Without(i) == [j \in 1..Len(waiters) - 1 |-> IF j < i THEN waiters[j] ELSE waiters[j + 1]]

(* A turn whose deadline comes while it is queued leaves the queue.        *)
LeaveQueue(t) ==
    /\ turn[t].pc = "slot" /\ turn[t].root
    /\ \E i \in 1..Len(waiters) : waiters[i] = t /\ waiters' = Without(i)
    /\ Reply(t, "fallback")
    /\ UNCHANGED <<engine, batch, active>>

(***************************************************************************)
(* The Responses engine.                                                   *)
(***************************************************************************)
WrapUp(t, why) == turn' = [turn EXCEPT ![t].pc = "wrap", ![t].wrapUp = why]

NextRound(t) ==
    /\ turn[t].pc = "round"
    /\ UNCHANGED <<engine, batch, active, waiters>>
    /\ IF turn[t].rounds >= MaxRounds THEN WrapUp(t, "round_cap")
       ELSE turn' = [turn EXCEPT ![t].rounds = @ + 1,
                                 ![t].pc = IF turn[t].work THEN "wrap" ELSE "asking",
                                 ![t].wrapUp = IF turn[t].work THEN "deadline" ELSE @]

AskTools(t, calls) ==
    /\ engine = "responses" /\ turn[t].pc = "asking"
    /\ Go(t, "tools")
    /\ batch' = [batch EXCEPT ![t] = calls]
    /\ UNCHANGED <<engine, active, waiters>>

(* A final text; an empty one is asked for again, once, while rounds last. *)
FinalText(t, empty) ==
    /\ engine = "responses" /\ turn[t].pc = "asking"
    /\ UNCHANGED <<engine, batch, active, waiters>>
    /\ IF ~empty THEN Reply(t, "model")
       ELSE IF turn[t].retries < MaxRetries /\ turn[t].rounds < MaxRounds
       THEN turn' = [turn EXCEPT ![t].pc = "round", ![t].retries = @ + 1]
       ELSE Reply(t, "fallback")

(* callAI throws.  A refusal of the provider is always the reply; what the *)
(* work deadline interrupted is wrapped up.                                *)
CallFails(t, refusal) ==
    /\ engine = "responses" /\ turn[t].pc = "asking"
    /\ UNCHANGED <<engine, batch, active, waiters>>
    /\ IF refusal THEN Reply(t, "provider")
       ELSE IF turn[t].work THEN WrapUp(t, "deadline")
       ELSE Reply(t, "fallback")

(* The last call, without tools, under the turn's own deadline.            *)
WrapCall(t, outcome) ==
    /\ turn[t].pc = "wrap"
    /\ Reply(t, outcome)
    /\ UNCHANGED <<engine, batch, active, waiters>>

(***************************************************************************)
(* Tool calls.  Consecutive reads overlap, every other call is alone.      *)
(***************************************************************************)
IsRead(t, i) == batch[t][i].tool # "effect"
Over(t, i) == batch[t][i].st \in {"ran", "refused"}
Running(t) == {i \in 1..Len(batch[t]) : batch[t][i].st = "run"}

\* Fault: the phases of a round are not kept apart.
InTurnAlways(t, i) == TRUE

(* Its phase has come: every earlier call of another phase is over.        *)
InTurnOf(t, i) ==
    \A j \in 1..i - 1 : Over(t, j) \/ \A k \in j..i : IsRead(t, k)

(* The first call of a capped tool runs, the others are refused.           *)
Capped(t, i) == batch[t][i].tool = "stats" /\ \E j \in 1..i - 1 : batch[t][j].tool = "stats"

Free(t, i) == ~IsRead(t, i) \/ Cardinality(Running(t)) < ReadLimit

(* On Claude a read that arrives after the deadline gets no slot.          *)
TooLate(t, i) == engine = "claude" /\ IsRead(t, i) /\ turn[t].root

(* The call reaches its executor (which may refuse it access), is refused  *)
(* by a cap, or queues for a read slot (Claude: the calls of a phase       *)
(* arrive together; Responses: workers take them in order).                *)
StartCall(t, i) ==
    /\ turn[t].pc = "tools" /\ i \in 1..Len(batch[t]) /\ batch[t][i].st = "new"
    /\ InTurnOf(t, i)
    /\ \A j \in 1..i - 1 : batch[t][j].st # "new"
    /\ \E st \in {"refused", "dropped", "run", "queued"} :
          /\ batch' = [batch EXCEPT ![t][i].st = st]
          /\ st = "refused" <=> Capped(t, i)
          /\ st = "dropped" <=> ~Capped(t, i) /\ TooLate(t, i)
          /\ st = "run" => Free(t, i)
          /\ st = "queued" => engine = "claude" /\ ~Free(t, i)
    /\ UNCHANGED <<engine, turn, active, waiters>>

(* A call ends; its read slot goes to the first call queued for one.       *)
EndCall(t, i) ==
    LET queued == {j \in 1..Len(batch[t]) : batch[t][j].st = "queued"}
        next == CHOOSE j \in queued : \A k \in queued : j <= k
        handed == IF queued = {} THEN batch[t] ELSE [batch[t] EXCEPT ![next].st = "run"]
    IN  /\ i \in Running(t)
        /\ batch' = [batch EXCEPT ![t] = [handed EXCEPT ![i].st = "ran"]]
        /\ UNCHANGED <<engine, turn, active, waiters>>

RoundEnds(t) ==
    /\ engine = "responses" /\ turn[t].pc = "tools"
    /\ \A i \in 1..Len(batch[t]) : Over(t, i)
    /\ Go(t, "round")
    /\ batch' = [batch EXCEPT ![t] = <<>>]
    /\ UNCHANGED <<engine, active, waiters>>

(***************************************************************************)
(* The Claude engine.                                                      *)
(***************************************************************************)
\* Fault: the deadline waits for the tools of the round.
DeadlineBetweenRounds(t) ==
    /\ engine = "claude" /\ turn[t].pc = "asking" /\ turn[t].root
    /\ Ends(t, "fallback")
    /\ UNCHANGED <<engine, batch>>

(* The deadline aborts the query.                                          *)
Deadline(t) ==
    /\ engine = "claude" /\ turn[t].pc \in {"asking", "tools"} /\ turn[t].root
    /\ Ends(t, "fallback")
    /\ UNCHANGED <<engine, batch>>

(* After the wrap-up note PreToolUse denies every call.                    *)
QueryCallsTools(t, calls) ==
    /\ engine = "claude" /\ turn[t].pc = "asking" /\ ~turn[t].root
    /\ UNCHANGED <<engine, active, waiters>>
    /\ turn[t].wrapUp = "none"
    /\ Go(t, "tools") /\ batch' = [batch EXCEPT ![t] = calls]

(* PostToolBatch: the round is counted and, at a limit, the wrap-up told.  *)
ToolBatchEnds(t) ==
    /\ engine = "claude" /\ turn[t].pc = "tools" /\ ~turn[t].root
    /\ \A i \in 1..Len(batch[t]) : Over(t, i)
    /\ turn' = [turn EXCEPT ![t].pc = "asking", ![t].rounds = @ + 1,
                            ![t].wrapUp = IF turn[t].rounds + 1 >= MaxRounds THEN "round_cap"
                                          ELSE IF turn[t].work THEN "deadline" ELSE "none"]
    /\ batch' = [batch EXCEPT ![t] = <<>>]
    /\ UNCHANGED <<engine, active, waiters>>

(* The query's result, a failure or refusal it reports, or its end without *)
(* one.  The latter two can come while its tools run: a refusal for the    *)
(* rate, a process that dies.  The calls that run go on then, and the      *)
(* reads that wait for a slot keep waiting, since only the deadline's      *)
(* signal ends that.                                                       *)
QueryEnds(t, outcome) ==
    /\ engine = "claude" /\ turn[t].pc \in {"asking", "tools"}
    /\ turn[t].pc = "tools" => outcome # "model"
    /\ Ends(t, outcome)
    /\ UNCHANGED <<engine, batch>>

Outcomes == {"model", "fallback", "provider"}

TurnStep(t) ==
    \/ Refuse(t) \/ Start(t) \/ LeaveQueue(t) \/ NextRound(t) \/ RoundEnds(t)
    \/ Deadline(t) \/ ToolBatchEnds(t)
    \/ \E calls \in Batches : AskTools(t, calls) \/ QueryCallsTools(t, calls)
    \/ \E b \in BOOLEAN : FinalText(t, b) \/ CallFails(t, b)
    \/ \E outcome \in Outcomes : WrapCall(t, outcome) \/ QueryEnds(t, outcome)
    \/ \E i \in 1..MaxBatch : StartCall(t, i) \/ EndCall(t, i)

TurnNext == \E t \in Turns : TurnStep(t) \/ WorkExpires(t) \/ RootExpires(t)

(* A model call ends (it has a timeout), a tool ends (each has its own),   *)
(* the query's hooks and calls are answered, and time passes.  Nothing     *)
(* obliges the model to answer rather than call tools, or Claude Code to   *)
(* end a query.                                                            *)
ModelAnswers(t) ==
    \/ \E outcome \in Outcomes : WrapCall(t, outcome)
    \/ \E b \in BOOLEAN : FinalText(t, b) \/ CallFails(t, b)
    \/ \E calls \in Batches : AskTools(t, calls)
TurnProceeds(t) == LeaveQueue(t) \/ NextRound(t) \/ RoundEnds(t) \/ Deadline(t) \/ ToolBatchEnds(t)
ToolStarts(t) == \E i \in 1..MaxBatch : StartCall(t, i)
ToolEnds(t) == \E i \in 1..MaxBatch : EndCall(t, i)

TurnFairness ==
    \A t \in Turns :
        /\ WF_turnVars(WorkExpires(t)) /\ WF_turnVars(RootExpires(t))
        /\ WF_turnVars(TurnProceeds(t)) /\ WF_turnVars(ModelAnswers(t))
        /\ WF_turnVars(ToolStarts(t)) /\ WF_turnVars(ToolEnds(t))

TurnSpec == TurnInit /\ [][TurnNext]_turnVars /\ TurnFairness

(***************************************************************************)
(* Properties.                                                             *)
(***************************************************************************)

(* Every turn that starts is answered, whatever the model, the tools and   *)
(* the queue for a Claude slot do: both engines stop at their limits.      *)
TurnAnswers == \A t \in Turns : turn[t].pc # "idle" ~> turn[t].pc = "done"

(* An effect runs with no other call of its round and after all the calls  *)
(* before it; reads overlap up to the limit; a capped tool runs once.      *)
EffectsAlone ==
    \A t \in Turns : \A i \in Running(t) : ~IsRead(t, i) =>
        Running(t) = {i} /\ \A j \in 1..i - 1 : Over(t, j)
ReadsBounded == \A t \in Turns : Cardinality(Running(t)) <= ReadLimit
CappedOnce ==
    \A t \in Turns :
        Cardinality({i \in 1..Len(batch[t]) : batch[t][i].tool = "stats" /\ batch[t][i].st \in {"run", "ran"}}) <= 1
RoundContract == EffectsAlone /\ ReadsBounded /\ CappedOnce

(* A tool call starts in a round of its turn that was not told to wrap up, *)
(* and a call still queued when the turn's deadline comes never starts.    *)
(* There is one exception, which the code has: a read that a Claude query  *)
(* left queued when it ended among its tools can get its slot after the    *)
(* turn has its reply, if it does so before the deadline.                  *)
StartsInTurn ==
    [][\A t \in Turns : \A i \in Running(t)' \ Running(t) :
         \/ turn[t].pc = "tools" /\ turn[t].wrapUp = "none"
         \/ IsRead(t, i) /\ batch[t][i].st = "queued" /\ ~turn[t].root]_turnVars

(* A Claude slot is counted for exactly the turns whose query runs, and    *)
(* nobody waits while one is free.                                         *)
SlotsHeld ==
    engine = "claude" =>
        /\ active = Cardinality({t \in Turns : turn[t].pc \in {"asking", "tools"}})
        /\ waiters # <<>> => active = Slots
        /\ \A t \in Turns : turn[t].pc = "slot" <=> \E i \in 1..Len(waiters) : waiters[i] = t
====
