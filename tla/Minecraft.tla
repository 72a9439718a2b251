---- MODULE Minecraft ----
(***************************************************************************)
(* The Minecraft server on the admin's PC: the controller that every chat   *)
(* shares (controller.js), and the agent on the PC that starts and stops    *)
(* the server (pcAgent.js).                                                 *)
(*                                                                         *)
(* A request to the agent is answered before its client gives up, but for   *)
(* that of a shutdown, whose two probes and stop may together take longer.  *)
(* The PC, the start script and the Java server are external.               *)
(***************************************************************************)
EXTENDS Naturals, FiniteSets

CONSTANTS
    Askers,          \* who asks for the server
    MaxLaunches,    \* bound on the start scripts run
    MaxPowerOffs,   \* bound on the shutdowns asked for
    SlowScripts     \* a start script may take longer than SPAWN_GRACE_MS

ASSUME MinecraftConstants ==
    /\ MaxLaunches \in Nat /\ MaxPowerOffs \in Nat /\ SlowScripts \in BOOLEAN
    /\ Askers \cap {"start", "shutdown"} = {}

VARIABLES
    power,      \* the PC: "off", "booting", "on", or told to go off in SHUTDOWN_DELAY_S
    java,       \* the server: "none", "loading", "up" or "saving"
    scripts,    \* start scripts that have not come to java yet
    spawned,    \* spawnedAt is within its grace
    halting,    \* the agent is stopping the server
    op,         \* operation: its kind, the phase, the step of a start, and launched
    handler,    \* the agent's handlers: of a start, of each chat's stop, of a shutdown
    waiting,    \* the chats that wait for the start
    informed,      \* the phase each of them heard last
    launches, powerOffs,
    overlapped  \* a start script was run while a shutdown was under way

mcVars == <<power, java, scripts, spawned, halting, op, handler, waiting, informed, launches, powerOffs, overlapped>>

Handlers == Askers \cup {"start", "shutdown"}
NoOp == [kind |-> "none", phase |-> "none", pc |-> "none", launched |-> FALSE]

MinecraftTypeOK ==
    /\ power \in {"off", "booting", "on", "closing"}
    /\ java \in {"none", "loading", "up", "saving"} /\ scripts \in 0..MaxLaunches
    /\ {spawned, halting, overlapped} \subseteq BOOLEAN
    /\ op \in [kind : {"none", "start", "shutdown"}, phase : {"none", "waking", "starting"},
               pc : {"none", "read", "wake", "look", "launch"}, launched : BOOLEAN]
    /\ handler \in [Handlers -> {"none", "probe", "launch", "again", "stop", "wait", "off"}]
    /\ waiting \subseteq Askers /\ informed \in [Askers -> {"none", "waking", "starting"}]
    /\ launches \in 0..MaxLaunches /\ powerOffs \in 0..MaxPowerOffs

MinecraftInit ==
    /\ power \in {"off", "on"} /\ java = "none" /\ scripts = 0
    /\ spawned = FALSE /\ halting = FALSE /\ op = NoOp
    /\ handler = [h \in Handlers |-> "none"]
    /\ waiting = {} /\ informed = [c \in Askers |-> "none"]
    /\ launches = 0 /\ powerOffs = 0 /\ overlapped = FALSE

Answers == power \in {"on", "closing"}

(* serverState, of the agent                                               *)
ServerState ==
    IF java = "none" THEN IF spawned THEN "starting" ELSE "stopped"
    ELSE IF halting THEN "stopping" ELSE IF java = "up" THEN "running" ELSE "starting"

(* It forgets a start whose grace is over, or whose server answers.        *)
Looked == spawned' = (spawned /\ java \in {"none", "loading"})

(***************************************************************************)
(* The controller.                                                         *)
(***************************************************************************)
hostVars == <<power, java, scripts>>
bounds == <<launches, powerOffs, overlapped>>

\* Fault: who joins a start is not told how far it is.
AskStartUntold(c) ==
    /\ c \notin waiting /\ op.kind # "shutdown"
    /\ op' = IF op.kind = "start" THEN op ELSE [NoOp EXCEPT !.kind = "start", !.pc = "read"]
    /\ waiting' = waiting \cup {c}
    /\ UNCHANGED <<informed, hostVars, spawned, halting, handler, bounds>>

(* start: begins an operation, or joins the one under way.                 *)
AskStart(c) ==
    /\ c \notin waiting /\ op.kind # "shutdown"
    /\ op' = IF op.kind = "start" THEN op ELSE [NoOp EXCEPT !.kind = "start", !.pc = "read"]
    /\ waiting' = waiting \cup {c}
    /\ informed' = [informed EXCEPT ![c] = op'.phase]
    /\ UNCHANGED <<hostVars, spawned, halting, handler, bounds>>

(* The turn of a chat ends: it stops waiting, the start goes on.           *)
StopWaiting(c) ==
    /\ c \in waiting /\ waiting' = waiting \ {c}
    /\ informed' = [informed EXCEPT ![c] = "none"]
    /\ UNCHANGED <<hostVars, spawned, halting, op, handler, bounds>>

(* The operation is settled, for all who wait.                             *)
Settle == op' = NoOp /\ waiting' = {} /\ informed' = [c \in Askers |-> "none"]

(* emit, and the next step of the start                                    *)
Emit(phase, pc) ==
    /\ op' = [op EXCEPT !.phase = phase, !.pc = pc]
    /\ informed' = [c \in Askers |-> IF c \in waiting THEN phase ELSE informed[c]]
    /\ UNCHANGED waiting

(* runStart reads the PC for the first time.                               *)
StartReads ==
    /\ op.pc = "read"
    /\ CASE ~Answers -> Emit("waking", "wake") /\ UNCHANGED spawned
         [] Answers /\ ServerState = "running" -> Settle /\ Looked
         [] Answers /\ ServerState # "running" -> Emit("starting", "look") /\ Looked
    /\ UNCHANGED <<hostVars, halting, handler, bounds>>

(* wakePc: a packet, again and again, until the PC answers or the time is  *)
(* up.                                                                     *)
SendPacket ==
    /\ op.pc = "wake" /\ power = "off" /\ power' = "booting"
    /\ UNCHANGED <<java, scripts, spawned, halting, op, handler, waiting, informed, bounds>>

PcAnswers ==
    /\ op.pc = "wake" /\ Answers
    /\ IF ServerState = "running" THEN Settle ELSE Emit("starting", "look")
    /\ Looked /\ UNCHANGED <<hostVars, halting, handler, bounds>>

(* The loop after it: the server runs, or it is stopped and has to be      *)
(* started once, or it is on its way.                                      *)
StartLooks ==
    /\ op.pc = "look" /\ Answers /\ Looked
    /\ CASE ServerState = "running" \/ (ServerState = "stopped" /\ op.launched) -> Settle /\ UNCHANGED handler
         [] ServerState = "stopped" /\ ~op.launched ->
              /\ op' = [op EXCEPT !.pc = "launch"]
              /\ handler' = [handler EXCEPT !["start"] = "probe"]
              /\ UNCHANGED <<waiting, informed>>
         [] ServerState \in {"starting", "stopping"} -> UNCHANGED <<op, handler, waiting, informed>>
    /\ UNCHANGED <<hostVars, halting, bounds>>

(* The time is up, the agent refuses, or the PC does not answer any more.   *)
StartFails ==
    /\ op.pc \in {"read", "wake", "look"} \/ (op.pc = "launch" /\ handler["start"] = "none")
    /\ Settle
    /\ UNCHANGED <<hostVars, spawned, halting, handler, bounds>>

(* shutdown: refused during another operation.                             *)
AskShutdown ==
    /\ op = NoOp /\ powerOffs < MaxPowerOffs /\ handler["shutdown"] = "none"
    /\ powerOffs' = powerOffs + 1
    /\ IF Answers
       THEN /\ op' = [NoOp EXCEPT !.kind = "shutdown"] /\ Looked
            /\ handler' = [handler EXCEPT !["shutdown"] = "probe"]
       ELSE UNCHANGED <<op, spawned, handler>>
    /\ UNCHANGED <<hostVars, halting, waiting, informed, launches, overlapped>>

ShutdownTimesOut ==
    /\ op.kind = "shutdown" /\ op' = NoOp
    /\ UNCHANGED <<hostVars, spawned, halting, handler, waiting, informed, bounds>>

(***************************************************************************)
(* The agent's handlers.                                                   *)
(***************************************************************************)
Now(h, step) == handler' = [handler EXCEPT ![h] = step]

(* The answer to a start or a shutdown reaches its operation, if there is  *)
(* one that still waits for it.                                            *)
Replied(h, ok) ==
    IF h = "start"
    THEN IF ok THEN op' = [op EXCEPT !.pc = "look", !.launched = TRUE] /\ UNCHANGED <<waiting, informed>> ELSE Settle
    ELSE /\ op' = IF h = "shutdown" /\ op.kind = "shutdown" THEN NoOp ELSE op
         /\ UNCHANGED <<waiting, informed>>

(* start: a server on its way up is left alone, one on its way down is     *)
(* not started.                                                            *)
AgentStart ==
    /\ handler["start"] = "probe" /\ Answers /\ Looked
    /\ IF ServerState = "stopped" THEN Now("start", "launch") /\ UNCHANGED <<op, waiting, informed>>
       ELSE Now("start", "none") /\ Replied("start", ServerState # "stopping")
    /\ UNCHANGED <<hostVars, halting, bounds>>

AgentLaunches ==
    /\ handler["start"] = "launch" /\ launches < MaxLaunches
    /\ scripts' = scripts + 1 /\ launches' = launches + 1 /\ spawned' = TRUE
    /\ overlapped' = (overlapped \/ handler["shutdown"] # "none" \/ power = "closing")
    /\ Now("start", "none") /\ Replied("start", TRUE)
    /\ UNCHANGED <<power, java, halting, powerOffs>>

(* A chat's stop, or the console command of that name.                     *)
AskStop(c) ==
    /\ handler[c] = "none" /\ Answers
    /\ Now(c, "again")
    /\ UNCHANGED <<hostVars, spawned, halting, op, waiting, informed, bounds>>

(* shutdown looks at the state before it stops the server.                 *)
ShutdownLooks ==
    /\ handler["shutdown"] = "probe" /\ Answers /\ Looked
    /\ Now("shutdown", IF ServerState = "stopped" THEN "off" ELSE "again")
    /\ UNCHANGED <<hostVars, halting, op, waiting, informed, bounds>>

(* stop returned: the shutdown goes on, the chat has its answer.           *)
Stopped(h) ==
    IF h = "shutdown" THEN Now(h, "off") /\ UNCHANGED <<op, waiting, informed>> ELSE Now(h, "none") /\ Replied(h, TRUE)

StopLooks(h) ==
    /\ handler[h] = "again" /\ Answers /\ Looked
    /\ CASE ServerState = "stopped" -> Stopped(h) /\ UNCHANGED halting
         [] ServerState = "starting" -> Now(h, "none") /\ Replied(h, FALSE) /\ UNCHANGED halting
         [] ServerState \in {"running", "stopping"} ->
              Now(h, "stop") /\ halting' = TRUE /\ UNCHANGED <<op, waiting, informed>>
    /\ UNCHANGED <<hostVars, bounds>>

(* The command goes out if the server takes it; a stop that fails, here or *)
(* by its time, is over for the agent.                                     *)
StopSends(h) ==
    /\ handler[h] = "stop"
    /\ IF java = "up" THEN java' = "saving" /\ Now(h, "wait") /\ UNCHANGED <<halting, op, waiting, informed>>
       ELSE Now(h, "none") /\ halting' = FALSE /\ Replied(h, FALSE) /\ UNCHANGED java
    /\ UNCHANGED <<power, scripts, spawned, bounds>>

StopEnds(h) ==
    /\ handler[h] = "wait" /\ halting' = FALSE
    /\ \/ java = "none" /\ Stopped(h)
       \/ java # "none" /\ Now(h, "none") /\ Replied(h, FALSE)
    /\ UNCHANGED <<hostVars, spawned, bounds>>

PowerOff ==
    /\ handler["shutdown"] = "off" /\ power' = "closing"
    /\ Now("shutdown", "none") /\ Replied("shutdown", TRUE)
    /\ UNCHANGED <<java, scripts, spawned, halting, bounds>>

(***************************************************************************)
(* The PC and the server, external.                                        *)
(***************************************************************************)
ScriptEnds(ok) ==
    /\ scripts > 0 /\ scripts' = scripts - 1
    /\ java' = IF ok /\ java = "none" THEN "loading" ELSE java
    /\ UNCHANGED <<power, spawned, halting, op, handler, waiting, informed, bounds>>

GraceOver ==
    /\ spawned /\ (SlowScripts \/ scripts = 0) /\ spawned' = FALSE
    /\ UNCHANGED <<hostVars, halting, op, handler, waiting, informed, bounds>>

ServerMoves ==
    /\ java' = CASE java = "loading" -> "up" [] java = "saving" -> "none" [] OTHER -> java
    /\ java' # java
    /\ UNCHANGED <<power, scripts, spawned, halting, op, handler, waiting, informed, bounds>>

ServerCrashes ==
    /\ java \in {"loading", "up"} /\ java' = "none"
    /\ UNCHANGED <<power, scripts, spawned, halting, op, handler, waiting, informed, bounds>>

PcBoots ==
    /\ power = "booting" /\ power' = "on"
    /\ UNCHANGED <<java, scripts, spawned, halting, op, handler, waiting, informed, bounds>>

(* Everything on the PC goes, and so does the agent's memory.              *)
PcOff ==
    /\ power = "closing" /\ power' = "off"
    /\ java' = "none" /\ scripts' = 0 /\ spawned' = FALSE /\ halting' = FALSE
    /\ handler' = [h \in Handlers |-> "none"]
    /\ op' = IF op.kind = "shutdown" THEN NoOp ELSE op
    /\ UNCHANGED <<waiting, informed, bounds>>

MinecraftNext ==
    \/ \E c \in Askers : AskStart(c) \/ StopWaiting(c) \/ AskStop(c)
    \/ StartReads \/ SendPacket \/ PcAnswers \/ StartLooks \/ StartFails
    \/ AskShutdown \/ ShutdownTimesOut
    \/ AgentStart \/ AgentLaunches \/ ShutdownLooks \/ PowerOff
    \/ \E h \in Handlers : StopLooks(h) \/ StopSends(h) \/ StopEnds(h)
    \/ \E ok \in BOOLEAN : ScriptEnds(ok)
    \/ GraceOver \/ ServerMoves \/ ServerCrashes \/ PcBoots \/ PcOff

MinecraftSpec == MinecraftInit /\ [][MinecraftNext]_mcVars

(***************************************************************************)
(* Properties.                                                             *)
(***************************************************************************)

(* The server is started once, however many chats ask and whatever the     *)
(* others stop meanwhile: no start script runs beside another or beside a  *)
(* server.                                                                 *)
StartedOnce == scripts + (IF java = "none" THEN 0 ELSE 1) <= 1

(* Every chat that waits for the start has heard the phase it is in, those *)
(* that joined it later too.                                               *)
SameProgress ==
    /\ waiting # {} => op.kind = "start"
    /\ \A c \in waiting : informed[c] = op.phase

(* The PC does not go off under a server, but for one that was started     *)
(* while the PC was being shut down.                                       *)
WorldIsSaved == power = "closing" /\ ~overlapped => java = "none" /\ scripts = 0

(* "A shutdown never overlaps a start" (controller.js).                    *)
ShutdownOverlapsNoStart == ~overlapped
====
