---- MODULE Lifecycle ----
(***************************************************************************)
(* The life of the process: startup, the two WhatsApp clients and how each *)
(* comes back, and the shutdown (index.js, platforms/whatsapp/client.js,   *)
(* discord's login, shutdownDeadline.js).                                  *)
(*                                                                         *)
(* whatsapp-web.js and its Chromium are external: an initialize settles    *)
(* either way or is timed out, a session comes up, drops with an event, or *)
(* dies without one.  The dedicated account's failure ends the process;    *)
(* the personal one's restarts that client alone.                          *)
(***************************************************************************)
EXTENDS Integers

CONSTANTS
    MaxReconnects,    \* MAX_INITIALIZE_ATTEMPTS
    MaxLogins,        \* DISCORD_LOGIN_ATTEMPTS
    MaxCallsOpen      \* bound on the initialize calls of one client under way at a time

ASSUME LifeConstants ==
    MaxReconnects \in Nat /\ MaxLogins \in Nat \ {0} /\ MaxCallsOpen \in Nat \ {0}

Accounts == {"dedicated", "personal"}

VARIABLES
    client,       \* per account: the closure of startWhatsAppLifecycle, the page of its last
                  \* initialize, and whether a Chromium of an earlier one is left open
    startup,      \* where index.js is: "preflight", "discord", "running", "failed"
    logins,       \* failed Discord logins
    recovery,     \* recoverPersonalWhatsApp: "idle", "closing" the failed client, "timer"
    destroying,   \* the failed personal client's destroy() has not settled
    stopping      \* shutdownHandler: "no", "notify", "closing", "exited"

lifeVars == <<client, startup, logins, recovery, destroying, stopping>>

NoClient == [on |-> FALSE, attempts |-> 0, timer |-> FALSE, initializing |-> FALSE, calls |-> 0,
             qr |-> FALSE, watchdog |-> FALSE, monitor |-> FALSE, page |-> "none", left |-> FALSE,
             fatal |-> "no", closing |-> FALSE]

LifeTypeOK ==
    /\ client \in [Accounts -> [on : BOOLEAN, attempts : 0..MaxReconnects, timer : BOOLEAN,
                                initializing : BOOLEAN, calls : 0..MaxCallsOpen, qr : BOOLEAN,
                                watchdog : BOOLEAN, monitor : BOOLEAN, page : {"none", "loaded", "up"},
                                left : BOOLEAN, fatal : {"no", "asked", "told"}, closing : BOOLEAN]]
    /\ startup \in {"preflight", "discord", "running", "failed"}
    /\ logins \in 0..MaxLogins
    /\ recovery \in {"idle", "closing", "timer"}
    /\ destroying \in BOOLEAN
    /\ stopping \in {"no", "notify", "closing", "exited"}

LifeInit ==
    /\ client = [a \in Accounts |-> NoClient]
    /\ startup = "preflight" /\ logins = 0
    /\ recovery = "idle" /\ destroying = FALSE
    /\ stopping = "no"

(***************************************************************************)
(* The closure's own functions, on the record c of a client.               *)
(***************************************************************************)
Deaf(c) == c.closing \/ c.fatal # "no"

RequestFatalRecovery(c) ==
    IF Deaf(c) THEN c
    ELSE [c EXCEPT !.fatal = "asked", !.watchdog = FALSE, !.timer = FALSE, !.monitor = FALSE]

ScheduleReconnect(c) ==
    IF Deaf(c) \/ c.timer THEN c
    ELSE IF c.attempts >= MaxReconnects THEN RequestFatalRecovery(c)
    ELSE [c EXCEPT !.attempts = @ + 1, !.timer = TRUE]

(* The Chromium of an initialize whose page or call is still there: nobody *)
(* closes it before the next one, which opens a second on the same session *)
(* and the same client, where the events of both arrive.                   *)
Open(c) == c.page # "none" \/ c.calls > 0

\* Fault: no watchdog.
InitializeUnwatched(c) ==
    IF Deaf(c) \/ c.initializing THEN c
    ELSE [c EXCEPT !.initializing = TRUE, !.qr = FALSE, !.calls = @ + 1, !.page = "none",
                   !.left = @ \/ Open(c)]

InitializeClient(c) ==
    IF Deaf(c) \/ c.initializing THEN c
    ELSE [c EXCEPT !.initializing = TRUE, !.qr = FALSE, !.watchdog = TRUE, !.calls = @ + 1,
                   !.page = "none", !.left = @ \/ Open(c)]

NewClient == InitializeClient([NoClient EXCEPT !.on = TRUE])

Lives(a) == stopping # "exited" /\ client[a].on
Becomes(a, c) ==
    /\ client' = [client EXCEPT ![a] = c]
    /\ UNCHANGED <<startup, logins, recovery, destroying, stopping>>

(***************************************************************************)
(* An initialize call under way.                                           *)
(***************************************************************************)
InitializeResolves(a) ==
    /\ Lives(a) /\ client[a].calls > 0
    /\ Becomes(a, [client[a] EXCEPT !.calls = @ - 1, !.initializing = FALSE,
                                    !.page = IF @ = "none" THEN "loaded" ELSE @])

(* It may have opened its Chromium before it failed.                       *)
InitializeFails(a) ==
    /\ Lives(a) /\ client[a].calls > 0
    /\ \E open \in BOOLEAN :
          LET c == [client[a] EXCEPT !.calls = @ - 1, !.watchdog = FALSE, !.left = @ \/ open]
          IN  \/ Becomes(a, [ScheduleReconnect(c) EXCEPT !.initializing = FALSE])
              \/ Becomes(a, [RequestFatalRecovery(c) EXCEPT !.initializing = FALSE])   \* ETIMEOUT

ReconnectTimerFires(a) ==
    /\ Lives(a) /\ client[a].timer /\ client[a].calls < MaxCallsOpen
    /\ Becomes(a, InitializeClient([client[a] EXCEPT !.timer = FALSE]))

(* No ready in time.  A client that waits for a scan keeps its watchdog.   *)
WatchdogFires(a) ==
    /\ Lives(a) /\ client[a].watchdog /\ ~client[a].qr
    /\ Becomes(a, ScheduleReconnect([client[a] EXCEPT !.watchdog = FALSE, !.initializing = FALSE]))

(***************************************************************************)
(* The client's events, of its last Chromium or of one left open.          *)
(***************************************************************************)
Starting(a) == client[a].calls > 0 \/ client[a].page = "loaded" \/ client[a].left

QrShown(a) ==
    /\ Lives(a) /\ Starting(a)
    /\ Becomes(a, [client[a] EXCEPT !.qr = TRUE])

Ready(a) ==
    /\ Lives(a) /\ Starting(a) /\ ~Deaf(client[a])
    /\ Becomes(a, [client[a] EXCEPT !.watchdog = FALSE, !.timer = FALSE, !.monitor = TRUE, !.page = "up",
                                    !.initializing = FALSE, !.attempts = 0, !.qr = FALSE])

(* auth_failure, or the adapter's own ready callback throwing.             *)
AuthFails(a) ==
    /\ Lives(a) /\ Starting(a) /\ ~client[a].closing
    /\ Becomes(a, RequestFatalRecovery(client[a]))

ReadyCallbackFails(a) ==
    /\ Lives(a) /\ client[a].page = "up"
    /\ Becomes(a, RequestFatalRecovery(client[a]))

(* The library closes the Chromium of a session that ended, not that of    *)
(* one that was logged out.                                                *)
Disconnected(a) ==
    /\ Lives(a) /\ ~client[a].closing
    /\ Open(client[a]) \/ client[a].left
    /\ \E open \in BOOLEAN :
          Becomes(a, ScheduleReconnect([client[a] EXCEPT !.initializing = FALSE, !.timer = FALSE,
                                                        !.watchdog = FALSE, !.monitor = FALSE,
                                                        !.page = "none", !.left = @ \/ open]))

(* Chromium dies or hangs: no event, and the cached info still says ready. *)
PageDies(a) ==
    /\ Lives(a) /\ client[a].page = "up"
    /\ Becomes(a, [client[a] EXCEPT !.page = "none"])

LivenessCheckFails(a) ==
    /\ Lives(a) /\ client[a].monitor /\ client[a].page # "up"
    /\ Becomes(a, RequestFatalRecovery(client[a]))

(***************************************************************************)
(* index.js.                                                               *)
(***************************************************************************)
(* shutdownHandler's synchronous part: only its first caller gets past.    *)
ShutdownBegins(stage) ==
    IF stopping = "no"
    THEN /\ stopping' = stage
         /\ recovery' = IF recovery = "timer" THEN "idle" ELSE recovery
    ELSE UNCHANGED <<stopping, recovery>>

FatalExit == ShutdownBegins("notify")

(* The startup does not look at shutdownStarted.                           *)
StartClients ==
    /\ startup = "preflight" /\ stopping # "exited"
    /\ \/ /\ startup' = "discord"
          /\ client' = [a \in Accounts |-> NewClient]
          /\ UNCHANGED <<stopping, recovery>>
       \/ startup' = "failed" /\ FatalExit /\ UNCHANGED client
    /\ UNCHANGED <<logins, destroying>>

DiscordLogin ==
    /\ startup = "discord" /\ stopping # "exited"
    /\ \/ startup' = "running" /\ UNCHANGED <<logins, stopping, recovery>>
       \/ /\ logins' = logins + 1
          /\ IF logins' < MaxLogins THEN UNCHANGED <<startup, stopping, recovery>>
             ELSE startup' = "failed" /\ FatalExit
    /\ UNCHANGED <<client, destroying>>

(* onFatal of the dedicated account.                                       *)
DedicatedFatal ==
    /\ Lives("dedicated") /\ client["dedicated"].fatal = "asked"
    /\ client' = [client EXCEPT !["dedicated"].fatal = "told"]
    /\ FatalExit
    /\ UNCHANGED <<startup, logins, destroying>>

\* Fault: the failed client's end is not awaited.
PersonalFatalAtOnce ==
    /\ Lives("personal") /\ client["personal"].fatal = "asked"
    /\ IF stopping # "no" \/ recovery # "idle"
       THEN /\ client' = [client EXCEPT !["personal"].fatal = "told"]
            /\ UNCHANGED <<recovery, destroying>>
       ELSE /\ client' = [client EXCEPT !["personal"] = NoClient]
            /\ recovery' = "timer" /\ destroying' = TRUE
    /\ UNCHANGED <<startup, logins, stopping>>

(* onFatal of the personal one: recoverPersonalWhatsApp to its first await *)
PersonalFatal ==
    /\ Lives("personal") /\ client["personal"].fatal = "asked"
    /\ IF stopping # "no" \/ recovery # "idle"
       THEN /\ client' = [client EXCEPT !["personal"].fatal = "told"]
            /\ UNCHANGED <<recovery, destroying>>
       ELSE /\ client' = [client EXCEPT !["personal"] = NoClient]
            /\ recovery' = "closing" /\ destroying' = TRUE
    /\ UNCHANGED <<startup, logins, stopping>>

(* and from there: a shutdown begun meanwhile ends it.                     *)
FailedClientClosed ==
    /\ recovery = "closing" /\ stopping # "exited"
    /\ destroying' = FALSE
    /\ recovery' = IF stopping = "no" THEN "timer" ELSE "idle"
    /\ UNCHANGED <<client, startup, logins, stopping>>

RecoveryTimerFires ==
    /\ recovery = "timer" /\ stopping # "exited"
    /\ recovery' = "idle"
    /\ client' = IF stopping = "no" THEN [client EXCEPT !["personal"] = NewClient] ELSE client
    /\ UNCHANGED <<startup, logins, destroying, stopping>>

(* SIGINT, SIGTERM, an uncaught exception or an unhandled rejection.       *)
StopSignal ==
    /\ stopping = "no"
    /\ \E stage \in {"notify", "closing"} : ShutdownBegins(stage)
    /\ client' = client
    /\ UNCHANGED <<startup, logins, destroying>>

Closed(c) == [c EXCEPT !.closing = TRUE, !.watchdog = FALSE, !.timer = FALSE, !.monitor = FALSE]

(* The admin has been told, or three seconds have gone: every client the   *)
(* process still refers to is shut, and the process exits when they are or *)
(* at the deadline.                                                        *)
AdminTold ==
    /\ stopping = "notify"
    /\ stopping' = "closing"
    /\ UNCHANGED <<client, startup, logins, recovery, destroying>>

ShutClients ==
    /\ stopping = "closing" /\ \E a \in Accounts : client[a].on /\ ~client[a].closing
    /\ client' = [a \in Accounts |-> IF client[a].on THEN Closed(client[a]) ELSE client[a]]
    /\ UNCHANGED <<startup, logins, recovery, destroying, stopping>>

Exit ==
    /\ stopping = "closing"
    /\ stopping' = "exited"
    /\ UNCHANGED <<client, startup, logins, recovery, destroying>>

ClientNext(a) ==
    \/ InitializeResolves(a) \/ InitializeFails(a) \/ ReconnectTimerFires(a) \/ WatchdogFires(a)
    \/ QrShown(a) \/ Ready(a) \/ AuthFails(a) \/ ReadyCallbackFails(a) \/ Disconnected(a)
    \/ PageDies(a) \/ LivenessCheckFails(a)

ProcessNext ==
    \/ StartClients \/ DiscordLogin \/ DedicatedFatal \/ PersonalFatal \/ FailedClientClosed
    \/ RecoveryTimerFires \/ StopSignal \/ AdminTold \/ ShutClients \/ Exit

LifeNext == ProcessNext \/ \E a \in Accounts : ClientNext(a)

(* What is owed: timers fire, an initialize settles (it has a deadline), a *)
(* destroy settles, and the microtasks run; WhatsApp's events are not.     *)
InitializeSettles(a) == InitializeResolves(a) \/ InitializeFails(a)
Recovers == PersonalFatal \/ FailedClientClosed \/ RecoveryTimerFires
Stops == DedicatedFatal \/ AdminTold \/ Exit

LifeFairness ==
    /\ \A a \in Accounts :
          /\ WF_lifeVars(InitializeSettles(a)) /\ WF_lifeVars(ReconnectTimerFires(a))
          /\ WF_lifeVars(WatchdogFires(a)) /\ WF_lifeVars(LivenessCheckFails(a))
    /\ WF_lifeVars(StartClients) /\ WF_lifeVars(Recovers) /\ WF_lifeVars(Stops)

LifeSpec == LifeInit /\ [][LifeNext]_lifeVars /\ LifeFairness

(* The personal account's failed client is destroyed before another is     *)
(* created, and once a shutdown has begun the recovery creates none.  Of   *)
(* Chromiums it says nothing: one client may leave several open.           *)
RecoveryInOrder ==
    /\ (recovery = "closing" \/ destroying) => ~client["personal"].on
    /\ recovery = "timer" => stopping = "no" /\ ~client["personal"].on

(* A client that still listens is never on its own: whatever of its calls  *)
(* failed, resolved late or overlapped, a reconnection, the watchdog of an *)
(* initialize or the check of its page is armed.                           *)
Watched(c) == (c.on /\ ~Deaf(c)) => (c.timer \/ c.watchdog \/ c.monitor)
AlwaysWatched == \A a \in Accounts : Watched(client[a])

(* No client is left on its own, and the recovery keeps its order.         *)
ClientsInHand == RecoveryInOrder /\ AlwaysWatched

(* Neither account is ever given up: over and over it is online, waits for *)
(* its owner's scan or is being initialized, unless the process has ended  *)
(* for its supervisor to start again.                                      *)
ComesBack ==
    \A a \in Accounts :
        []<>(client[a].page = "up" \/ client[a].qr \/ client[a].calls > 0 \/ stopping = "exited")
====
