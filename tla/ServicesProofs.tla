---- MODULE ServicesProofs ----
(***************************************************************************)
(* Proofs about what serves a turn and the services beside it, one part    *)
(* per component of MCServices (AgentTurnProofs holds the turn itself),    *)
(* for every value of the constants.  Each part proves its component's     *)
(* properties of the component's own specification; the last one composes  *)
(* them.                                                                   *)
(***************************************************************************)
EXTENDS MCServices, AgentTurnProofs, FilteringProofs, FiniteSetTheorems, SequenceTheorems, TLAPS

(***************************************************************************)
(* Lifecycle.  No client is left unwatched, and the personal account's     *)
(* next client comes after the end of its last.                            *)
(*                                                                         *)
(* ClientsInHand is not inductive: that the recovery's timer meets no      *)
(* client rests on there being none while a recovery is under way, and     *)
(* that a reconnection goes through rests on no initialize being under way *)
(* while its timer runs (initializeClient would return at once and leave   *)
(* nothing armed).  LifeInv says both, together with the types.            *)
(***************************************************************************)
ClientRecord == [on : BOOLEAN, attempts : 0..MaxReconnects, timer : BOOLEAN,
                 initializing : BOOLEAN, calls : 0..MaxCallsOpen, qr : BOOLEAN,
                 watchdog : BOOLEAN, monitor : BOOLEAN, page : {"none", "loaded", "up"},
                 left : BOOLEAN, fatal : {"no", "asked", "told"}, closing : BOOLEAN]

(* A login is tried again only while attempts are left.                    *)
LoginsLeft == startup \in {"preflight", "discord"} => logins < MaxLogins

(* A recovery holds the place of the client it replaces, and what is being *)
(* destroyed is exactly what the recovery waits for.                       *)
RecoveryAlone ==
    /\ recovery # "idle" => ~client["personal"].on
    /\ destroying <=> recovery = "closing"

(* No client exists before the preflight is done.                          *)
NoneBeforeStart ==
    startup = "preflight" => recovery = "idle" /\ ~client["personal"].on

(* A client whose reconnection is due has no initialize it waits for.      *)
Attended(c) == Watched(c) /\ (c.timer => ~c.initializing)
AllAttended == \A a \in Accounts : Attended(client[a])

LifeInv ==
    /\ LifeTypeOK
    /\ AllAttended
    /\ LoginsLeft
    /\ RecoveryAlone
    /\ NoneBeforeStart
    /\ stopping # "no" => recovery # "timer"

(***************************************************************************)
(* What the closure's functions return.                                    *)
(***************************************************************************)
LEMMA FatalTyped ==
    ASSUME NEW c \in ClientRecord
    PROVE  /\ RequestFatalRecovery(c) \in ClientRecord
           /\ RequestFatalRecovery(c).on = c.on
           /\ RequestFatalRecovery(c).calls = c.calls
           /\ RequestFatalRecovery(c).initializing = c.initializing
           /\ RequestFatalRecovery(c).timer => c.timer
           /\ Deaf(RequestFatalRecovery(c))
<1>1. CASE Deaf(c)
  BY <1>1 DEF RequestFatalRecovery
<1>2. CASE ~Deaf(c)
  <2> DEFINE d == [c EXCEPT !.fatal = "asked", !.watchdog = FALSE, !.timer = FALSE, !.monitor = FALSE]
  <2>1. RequestFatalRecovery(c) = d
    BY <1>2 DEF RequestFatalRecovery
  <2>2. d \in ClientRecord /\ d.on = c.on /\ d.calls = c.calls
    BY DEF ClientRecord
  <2>3. d.initializing = c.initializing /\ d.timer = FALSE /\ d.fatal = "asked"
    BY DEF ClientRecord
  <2> QED
    BY <2>1, <2>2, <2>3 DEF Deaf
<1> QED
  BY <1>1, <1>2

LEMMA ScheduleTyped ==
    ASSUME NEW c \in ClientRecord
    PROVE  /\ ScheduleReconnect(c) \in ClientRecord
           /\ ScheduleReconnect(c).on = c.on
           /\ ScheduleReconnect(c).calls = c.calls
           /\ ScheduleReconnect(c).initializing = c.initializing
           /\ Deaf(ScheduleReconnect(c)) \/ ScheduleReconnect(c).timer
<1>1. CASE Deaf(c) \/ c.timer
  BY <1>1 DEF ScheduleReconnect
<1>2. CASE ~(Deaf(c) \/ c.timer) /\ c.attempts >= MaxReconnects
  BY <1>2, FatalTyped DEF ScheduleReconnect
<1>3. CASE ~(Deaf(c) \/ c.timer) /\ ~(c.attempts >= MaxReconnects)
  <2> DEFINE d == [c EXCEPT !.attempts = @ + 1, !.timer = TRUE]
  <2>1. c.attempts + 1 \in 0..MaxReconnects
    BY <1>3, LifeConstants DEF ClientRecord
  <2>2. ScheduleReconnect(c) = d
    BY <1>3 DEF ScheduleReconnect
  <2>3. d \in ClientRecord /\ d.on = c.on /\ d.calls = c.calls
    BY <2>1 DEF ClientRecord
  <2>4. d.initializing = c.initializing /\ d.timer = TRUE
    BY DEF ClientRecord
  <2> QED
    BY <2>2, <2>3, <2>4
<1> QED
  BY <1>1, <1>2, <1>3

LEMMA ScheduleAttended ==
    ASSUME NEW c \in ClientRecord, c.initializing = FALSE
    PROVE  /\ ScheduleReconnect(c) \in ClientRecord
           /\ ScheduleReconnect(c).on = c.on
           /\ Attended(ScheduleReconnect(c))
<1>1. /\ ScheduleReconnect(c) \in ClientRecord /\ ScheduleReconnect(c).on = c.on
      /\ ScheduleReconnect(c).initializing = FALSE
      /\ Deaf(ScheduleReconnect(c)) \/ ScheduleReconnect(c).timer
  BY ScheduleTyped
<1> QED
  BY <1>1 DEF Attended, Watched

LEMMA UninitializedAttended ==
    ASSUME NEW c \in ClientRecord, Deaf(c) \/ c.timer
    PROVE  /\ [c EXCEPT !.initializing = FALSE] \in ClientRecord
           /\ [c EXCEPT !.initializing = FALSE].on = c.on
           /\ Attended([c EXCEPT !.initializing = FALSE])
<1> DEFINE d == [c EXCEPT !.initializing = FALSE]
<1>1. d \in ClientRecord /\ d.on = c.on
  BY DEF ClientRecord
<1>2. d.initializing = FALSE /\ d.timer = c.timer /\ d.closing = c.closing /\ d.fatal = c.fatal
  BY DEF ClientRecord
<1> HIDE DEF d
<1>3. Attended(d)
  BY <1>2 DEF Attended, Watched, Deaf
<1> QED
  BY <1>1, <1>3 DEF d

(* A reconnection with no initialize in the way arms the watchdog.         *)
LEMMA InitializeTyped ==
    ASSUME NEW c \in ClientRecord, c.calls < MaxCallsOpen, c.timer = FALSE, c.initializing = FALSE
    PROVE  /\ InitializeClient(c) \in ClientRecord
           /\ InitializeClient(c).on = c.on
           /\ Attended(InitializeClient(c))
<1>1. CASE Deaf(c)
  BY <1>1 DEF InitializeClient, Attended, Watched
<1>2. CASE ~Deaf(c)
  <2> DEFINE d == [c EXCEPT !.initializing = TRUE, !.qr = FALSE, !.watchdog = TRUE, !.calls = @ + 1,
                            !.page = "none", !.left = @ \/ Open(c)]
  <2>1. c.calls + 1 \in 0..MaxCallsOpen
    BY LifeConstants DEF ClientRecord
  <2>2. (c.left \/ Open(c)) \in BOOLEAN
    BY DEF Open, ClientRecord
  <2>3. InitializeClient(c) = d
    BY <1>2 DEF InitializeClient
  <2>4. d \in ClientRecord /\ d.on = c.on
    BY <2>1, <2>2 DEF ClientRecord
  <2>5. d.watchdog = TRUE /\ d.timer = FALSE
    BY DEF ClientRecord
  <2> QED
    BY <2>3, <2>4, <2>5 DEF Attended, Watched
<1> QED
  BY <1>1, <1>2

LEMMA ZeroTyped == 0 \in 0..MaxReconnects /\ 0 \in 0..MaxCallsOpen
  BY LifeConstants

LEMMA NoClientTyped ==
    /\ NoClient \in ClientRecord /\ ~NoClient.on /\ NoClient.calls = 0
    /\ Attended(NoClient)
<1>1. NoClient \in ClientRecord /\ NoClient.on = FALSE /\ NoClient.calls = 0 /\ NoClient.timer = FALSE
  BY ZeroTyped DEF NoClient, ClientRecord
<1> QED
  BY <1>1 DEF Attended, Watched

LEMMA ClosedTyped ==
    ASSUME NEW c \in ClientRecord
    PROVE  Closed(c) \in ClientRecord /\ Closed(c).on = c.on /\ Attended(Closed(c))
<1>1. Closed(c) \in ClientRecord /\ Closed(c).on = c.on
  BY DEF Closed, ClientRecord
<1>2. Closed(c).closing = TRUE /\ Closed(c).timer = FALSE
  BY DEF Closed, ClientRecord
<1> QED
  BY <1>1, <1>2 DEF Attended, Watched, Deaf

LEMMA NewClientTyped == NewClient \in ClientRecord /\ NewClient.on /\ Attended(NewClient)
<1> DEFINE c == [NoClient EXCEPT !.on = TRUE]
<1>1. c \in ClientRecord /\ c.on /\ c.calls = 0 /\ c.timer = FALSE /\ c.initializing = FALSE
  BY ZeroTyped DEF NoClient, ClientRecord
<1>2. c.calls < MaxCallsOpen
  BY <1>1, LifeConstants
<1> HIDE DEF c
<1>3. InitializeClient(c) \in ClientRecord /\ InitializeClient(c).on = c.on /\ Attended(InitializeClient(c))
  BY <1>1, <1>2, InitializeTyped
<1> QED
  BY <1>1, <1>3 DEF NewClient, c

(* What a client's own step does to the rest: nothing, and the client is   *)
(* there or not as before, and attended to.                                *)
LEMMA ClientStep ==
    ASSUME LifeTypeOK, AllAttended, NEW a \in Accounts, ClientNext(a)
    PROVE  \E c \in ClientRecord : c.on = client[a].on /\ Attended(c) /\ Becomes(a, c)
<1>1. client[a] \in ClientRecord /\ Attended(client[a])
  BY DEF LifeTypeOK, ClientRecord, AllAttended
<1> DEFINE c0 == client[a]
<1>2. CASE InitializeResolves(a)
  <2> DEFINE d == [c0 EXCEPT !.calls = @ - 1, !.initializing = FALSE,
                             !.page = IF @ = "none" THEN "loaded" ELSE @]
  <2>1. c0.calls - 1 \in 0..MaxCallsOpen
    BY <1>1, <1>2, LifeConstants DEF ClientRecord, InitializeResolves
  <2>2. d \in ClientRecord /\ d.on = c0.on
    BY <1>1, <2>1 DEF ClientRecord
  <2>3. /\ d.timer = c0.timer /\ d.watchdog = c0.watchdog /\ d.monitor = c0.monitor
        /\ d.closing = c0.closing /\ d.fatal = c0.fatal /\ d.initializing = FALSE
    BY <1>1 DEF ClientRecord
  <2>4. Becomes(a, d)
    BY <1>2 DEF InitializeResolves
  <2> HIDE DEF d
  <2>5. Attended(d)
    BY <1>1, <2>2, <2>3 DEF Attended, Watched, Deaf
  <2> QED
    BY <2>2, <2>4, <2>5
<1>3. CASE InitializeFails(a)
  <2>0. PICK open \in BOOLEAN :
          LET c == [c0 EXCEPT !.calls = @ - 1, !.watchdog = FALSE, !.left = @ \/ open]
          IN  \/ Becomes(a, [ScheduleReconnect(c) EXCEPT !.initializing = FALSE])
              \/ Becomes(a, [RequestFatalRecovery(c) EXCEPT !.initializing = FALSE])
    BY <1>3 DEF InitializeFails
  <2> DEFINE c == [c0 EXCEPT !.calls = @ - 1, !.watchdog = FALSE, !.left = @ \/ open]
             s == ScheduleReconnect(c)
             f == RequestFatalRecovery(c)
             d == [s EXCEPT !.initializing = FALSE]
             e == [f EXCEPT !.initializing = FALSE]
  <2>1. c0.calls - 1 \in 0..MaxCallsOpen /\ (c0.left \/ open) \in BOOLEAN
    BY <1>1, <1>3, LifeConstants DEF ClientRecord, InitializeFails
  <2>2. c \in ClientRecord /\ c.on = c0.on
    BY <1>1, <2>1 DEF ClientRecord
  <2>3. Becomes(a, d) \/ Becomes(a, e)
    BY <2>0
  <2> HIDE DEF c
  <2>4. s \in ClientRecord /\ s.on = c0.on /\ (Deaf(s) \/ s.timer)
    BY <2>2, ScheduleTyped
  <2>5. f \in ClientRecord /\ f.on = c0.on /\ Deaf(f)
    BY <2>2, FatalTyped
  <2> HIDE DEF s, f
  <2>6. d \in ClientRecord /\ d.on = c0.on /\ Attended(d)
    BY <2>4, UninitializedAttended
  <2>7. e \in ClientRecord /\ e.on = c0.on /\ Attended(e)
    BY <2>5, UninitializedAttended
  <2> QED
    BY <2>3, <2>6, <2>7
<1>4. CASE ReconnectTimerFires(a)
  <2> DEFINE c == [c0 EXCEPT !.timer = FALSE]
  <2>1. c \in ClientRecord /\ c.on = c0.on /\ c.calls < MaxCallsOpen
    BY <1>1, <1>4 DEF ClientRecord, ReconnectTimerFires
  <2>2. Becomes(a, InitializeClient(c))
    BY <1>4 DEF ReconnectTimerFires
  <2>3. c0.timer = TRUE
    BY <1>1, <1>4 DEF ReconnectTimerFires, ClientRecord
  <2>4. c0.initializing = FALSE
    BY <1>1, <2>3 DEF Attended, ClientRecord
  <2>5. c.timer = FALSE /\ c.initializing = FALSE
    BY <1>1, <2>4 DEF ClientRecord
  <2> HIDE DEF c
  <2> QED
    BY <2>1, <2>2, <2>5, InitializeTyped
<1>5. CASE WatchdogFires(a)
  <2> DEFINE c == [c0 EXCEPT !.watchdog = FALSE, !.initializing = FALSE]
  <2>1. c \in ClientRecord /\ c.on = c0.on /\ c.initializing = FALSE
    BY <1>1 DEF ClientRecord
  <2>2. Becomes(a, ScheduleReconnect(c))
    BY <1>5 DEF WatchdogFires
  <2> HIDE DEF c
  <2> QED
    BY <2>1, <2>2, ScheduleAttended
<1>6. CASE QrShown(a) \/ PageDies(a)
  <2>1. PICK c : Becomes(a, c) /\ (c = [c0 EXCEPT !.qr = TRUE] \/ c = [c0 EXCEPT !.page = "none"])
    BY <1>6 DEF QrShown, PageDies
  <2>2. c \in ClientRecord /\ c.on = c0.on
    BY <1>1, <2>1 DEF ClientRecord
  <2>3. /\ c.timer = c0.timer /\ c.watchdog = c0.watchdog /\ c.monitor = c0.monitor
        /\ c.closing = c0.closing /\ c.fatal = c0.fatal /\ c.initializing = c0.initializing
    BY <1>1, <2>1 DEF ClientRecord
  <2>4. Attended(c)
    BY <1>1, <2>2, <2>3 DEF Attended, Watched, Deaf
  <2> QED
    BY <2>1, <2>2, <2>4
<1>7. CASE Ready(a)
  <2> DEFINE c == [c0 EXCEPT !.watchdog = FALSE, !.timer = FALSE, !.monitor = TRUE, !.page = "up",
                             !.initializing = FALSE, !.attempts = 0, !.qr = FALSE]
  <2>1. c \in ClientRecord /\ c.on = c0.on
    BY <1>1, ZeroTyped DEF ClientRecord
  <2>2. c.monitor = TRUE /\ c.timer = FALSE
    BY <1>1 DEF ClientRecord
  <2>3. Becomes(a, c)
    BY <1>7 DEF Ready
  <2> HIDE DEF c
  <2> QED
    BY <2>1, <2>2, <2>3 DEF Attended, Watched
<1>8. CASE AuthFails(a) \/ ReadyCallbackFails(a) \/ LivenessCheckFails(a)
  <2>1. Becomes(a, RequestFatalRecovery(c0))
    BY <1>8 DEF AuthFails, ReadyCallbackFails, LivenessCheckFails
  <2>2. /\ RequestFatalRecovery(c0) \in ClientRecord /\ RequestFatalRecovery(c0).on = c0.on
        /\ Deaf(RequestFatalRecovery(c0)) /\ RequestFatalRecovery(c0).initializing = c0.initializing
        /\ RequestFatalRecovery(c0).timer => c0.timer
    BY <1>1, FatalTyped
  <2> QED
    BY <1>1, <2>1, <2>2 DEF Attended, Watched
<1>9. CASE Disconnected(a)
  <2>0. PICK open \in BOOLEAN :
          Becomes(a, ScheduleReconnect([c0 EXCEPT !.initializing = FALSE, !.timer = FALSE,
                                                  !.watchdog = FALSE, !.monitor = FALSE,
                                                  !.page = "none", !.left = @ \/ open]))
    BY <1>9 DEF Disconnected
  <2> DEFINE c == [c0 EXCEPT !.initializing = FALSE, !.timer = FALSE, !.watchdog = FALSE,
                             !.monitor = FALSE, !.page = "none", !.left = @ \/ open]
  <2>1. (c0.left \/ open) \in BOOLEAN
    BY <1>1 DEF ClientRecord
  <2>2. c \in ClientRecord /\ c.on = c0.on /\ c.initializing = FALSE
    BY <1>1, <2>1 DEF ClientRecord
  <2>3. Becomes(a, ScheduleReconnect(c))
    BY <2>0
  <2> HIDE DEF c
  <2> QED
    BY <2>2, <2>3, ScheduleAttended
<1> QED
  BY <1>2, <1>3, <1>4, <1>5, <1>6, <1>7, <1>8, <1>9 DEF ClientNext

(***************************************************************************)
(* The invariant.                                                          *)
(***************************************************************************)
LEMMA LifeInitInv == LifeInit => LifeInv
<1> SUFFICES ASSUME LifeInit PROVE LifeInv
  OBVIOUS
<1>1. client \in [Accounts -> ClientRecord] /\ ~client["personal"].on /\ AllAttended
  BY NoClientTyped DEF LifeInit, Accounts, AllAttended
<1>2. 0 \in 0..MaxLogins /\ 0 < MaxLogins
  BY LifeConstants
<1>3. LifeTypeOK
  BY <1>1, <1>2 DEF LifeInit, LifeTypeOK, ClientRecord
<1> QED
  BY <1>1, <1>2, <1>3 DEF LifeInit, LifeInv, LoginsLeft, RecoveryAlone, NoneBeforeStart

LEMMA ClientKeeps ==
    ASSUME LifeInv, NEW a \in Accounts, ClientNext(a)
    PROVE  LifeInv'
<1>1. PICK c \in ClientRecord : c.on = client[a].on /\ Attended(c) /\ Becomes(a, c)
  BY ClientStep DEF LifeInv
<1>2. client' \in [Accounts -> ClientRecord] /\ AllAttended'
  BY <1>1 DEF LifeInv, LifeTypeOK, ClientRecord, Becomes, AllAttended
<1>3. client'["personal"].on = client["personal"].on
  BY <1>1 DEF LifeInv, LifeTypeOK, Becomes, Accounts
<1>4. UNCHANGED <<startup, logins, recovery, destroying, stopping>>
  BY <1>1 DEF Becomes
<1>5. LifeTypeOK'
  BY <1>2, <1>4 DEF LifeInv, LifeTypeOK, ClientRecord
<1> QED
  BY <1>2, <1>3, <1>4, <1>5 DEF LifeInv, LoginsLeft, RecoveryAlone, NoneBeforeStart

(* A fatal failure that was told of.                                       *)
LEMMA ToldAttended ==
    ASSUME NEW c \in ClientRecord, Attended(c)
    PROVE  /\ [c EXCEPT !.fatal = "told"] \in ClientRecord
           /\ [c EXCEPT !.fatal = "told"].on = c.on
           /\ Attended([c EXCEPT !.fatal = "told"])
<1> DEFINE d == [c EXCEPT !.fatal = "told"]
<1>1. d \in ClientRecord /\ d.on = c.on
  BY DEF ClientRecord
<1>2. d.timer = c.timer /\ d.initializing = c.initializing /\ d.fatal = "told"
  BY DEF ClientRecord
<1> HIDE DEF d
<1>3. Attended(d)
  BY <1>2 DEF Attended, Watched, Deaf
<1> QED
  BY <1>1, <1>3 DEF d

LEMMA ProcessKeeps ==
    ASSUME LifeInv, ProcessNext
    PROVE  LifeInv'
<1>0. client \in [Accounts -> ClientRecord] /\ AllAttended
  BY DEF LifeInv, LifeTypeOK, ClientRecord
<1> USE DEF LifeInv, LoginsLeft, RecoveryAlone, NoneBeforeStart
<1>1. CASE StartClients
  <2>1. client' \in [Accounts -> ClientRecord] /\ AllAttended'
    BY <1>0, <1>1, NewClientTyped DEF StartClients, AllAttended
  <2>2. LifeTypeOK'
    BY <1>1, <2>1 DEF StartClients, FatalExit, ShutdownBegins, LifeTypeOK, ClientRecord
  <2> QED
    BY <1>1, <2>1, <2>2 DEF StartClients, FatalExit, ShutdownBegins
<1>2. CASE DiscordLogin
  <2>1. logins' \in 0..MaxLogins
    BY <1>2, LifeConstants DEF DiscordLogin, LifeTypeOK
  <2>2. LifeTypeOK'
    BY <1>2, <2>1 DEF DiscordLogin, FatalExit, ShutdownBegins, LifeTypeOK
  <2>3. AllAttended'
    BY <1>0, <1>2 DEF DiscordLogin, AllAttended
  <2> QED
    BY <1>2, <2>2, <2>3 DEF DiscordLogin, FatalExit, ShutdownBegins
<1>3. CASE DedicatedFatal
  <2>0. [client["dedicated"] EXCEPT !.fatal = "told"] \in ClientRecord
        /\ Attended([client["dedicated"] EXCEPT !.fatal = "told"])
    BY <1>0, ToldAttended DEF AllAttended, Accounts
  <2>1. client' \in [Accounts -> ClientRecord] /\ client'["personal"] = client["personal"] /\ AllAttended'
    BY <1>0, <1>3, <2>0 DEF DedicatedFatal, Accounts, AllAttended
  <2>2. LifeTypeOK'
    BY <1>3, <2>1 DEF DedicatedFatal, FatalExit, ShutdownBegins, LifeTypeOK, ClientRecord
  <2> QED
    BY <1>3, <2>1, <2>2 DEF DedicatedFatal, FatalExit, ShutdownBegins
<1>4. CASE PersonalFatal
  <2>1. client["personal"].on
    BY <1>4 DEF PersonalFatal, Lives
  <2>2. CASE stopping # "no" \/ recovery # "idle"
    <3>0. /\ [client["personal"] EXCEPT !.fatal = "told"] \in ClientRecord
          /\ [client["personal"] EXCEPT !.fatal = "told"].on = client["personal"].on
          /\ Attended([client["personal"] EXCEPT !.fatal = "told"])
      BY <1>0, ToldAttended DEF AllAttended, Accounts
    <3>1. client' \in [Accounts -> ClientRecord] /\ AllAttended'
          /\ client'["personal"].on = client["personal"].on
      BY <1>0, <1>4, <2>2, <3>0 DEF PersonalFatal, Accounts, AllAttended
    <3> QED
      BY <1>4, <2>2, <3>1 DEF PersonalFatal, LifeTypeOK, ClientRecord
  <2>3. CASE ~(stopping # "no" \/ recovery # "idle")
    <3>1. client' \in [Accounts -> ClientRecord] /\ ~client'["personal"].on /\ AllAttended'
      BY <1>0, <1>4, <2>3, NoClientTyped DEF PersonalFatal, Accounts, AllAttended
    <3> QED
      BY <1>4, <2>1, <2>3, <3>1 DEF PersonalFatal, LifeTypeOK, ClientRecord
  <2> QED
    BY <2>2, <2>3
<1>5. CASE FailedClientClosed
  BY <1>5 DEF FailedClientClosed, LifeTypeOK, AllAttended
<1>6. CASE RecoveryTimerFires
  <2>1. client' \in [Accounts -> ClientRecord] /\ AllAttended'
    BY <1>0, <1>6, NewClientTyped DEF RecoveryTimerFires, AllAttended
  <2>2. LifeTypeOK'
    BY <1>6, <2>1 DEF RecoveryTimerFires, LifeTypeOK, ClientRecord
  <2> QED
    BY <1>6, <2>1, <2>2 DEF RecoveryTimerFires
<1>7. CASE StopSignal
  BY <1>7 DEF StopSignal, ShutdownBegins, LifeTypeOK, AllAttended
<1>8. CASE AdminTold \/ Exit
  BY <1>8 DEF AdminTold, Exit, LifeTypeOK, AllAttended
<1>9. CASE ShutClients
  <2>1. \A a \in Accounts : /\ Closed(client[a]) \in ClientRecord /\ Closed(client[a]).on = client[a].on
                            /\ Attended(Closed(client[a]))
    BY <1>0, ClosedTyped
  <2>2. client' \in [Accounts -> ClientRecord] /\ client'["personal"].on = client["personal"].on /\ AllAttended'
    BY <1>0, <1>9, <2>1 DEF ShutClients, Accounts, AllAttended
  <2> QED
    BY <1>9, <2>2 DEF ShutClients, LifeTypeOK, ClientRecord
<1> QED
  BY <1>1, <1>2, <1>3, <1>4, <1>5, <1>6, <1>7, <1>8, <1>9 DEF ProcessNext

LEMMA LifeNextInv == LifeInv /\ [LifeNext]_lifeVars => LifeInv'
<1> SUFFICES ASSUME LifeInv, [LifeNext]_lifeVars
             PROVE  LifeInv'
  OBVIOUS
<1>1. CASE UNCHANGED lifeVars
  BY <1>1 DEF LifeInv, LifeTypeOK, AllAttended, LoginsLeft, RecoveryAlone, NoneBeforeStart, lifeVars
<1>2. CASE LifeNext
  BY <1>2, ClientKeeps, ProcessKeeps DEF LifeNext
<1> QED
  BY <1>1, <1>2

LEMMA LifeInvariant == LifeSpec => []LifeInv
<1> QED
  BY LifeInitInv, LifeNextInv, PTL DEF LifeSpec

(* Every variable of the process keeps its type, whatever the limits: no   *)
(* client is initialized, and no login tried, more often than they allow.  *)
THEOREM LifeTyped == LifeSpec => []LifeTypeOK
<1>1. LifeInv => LifeTypeOK
  BY DEF LifeInv
<1> QED
  BY <1>1, LifeInvariant, PTL

(* A WhatsApp client that still listens always has a reconnection, the     *)
(* watchdog of an initialize or the check of its page armed, and the       *)
(* personal account's next client waits for the end of its last: for every *)
(* number of attempts and of overlapping initialize calls.                 *)
THEOREM ClientsWatched == LifeSpec => []ClientsInHand
<1>1. LifeInv => ClientsInHand
  BY DEF LifeInv, AllAttended, Attended, RecoveryAlone, ClientsInHand, RecoveryInOrder, AlwaysWatched
<1> QED
  BY <1>1, LifeInvariant, PTL

(***************************************************************************)
(* MediaQuota.  The count on disk is what was drawn in the period, for any *)
(* number of jobs and any limits.                                          *)
(*                                                                         *)
(* QuotaExact needs to know that no record is ahead of the clock: a slot   *)
(* of a period gone by can then never be of the present one, whatever      *)
(* comes late.  Dated says so of jobs and of the record on disk.           *)
(***************************************************************************)
JobPcs == {"idle", "reserve", "first", "again", "second", "refs", "submit", "poll", "fetch", "song",
           "stage", "release"}
JobType == [pc : JobPcs, kind : Media \cup {"none"}, period : -1..LastDay, refs : BOOLEAN,
            fallback : Backends \cup {"none"}, backend : Backends \cup {"none"}, polls : 0..Max429]

\* A job has a period from its reservation on, and none that is to come.
JobDated(r) ==
    /\ r.pc \in {"idle", "reserve"} => r.period = -1
    /\ r.pc # "idle" => r.kind \in Media
    /\ r.kind \in Media => r.period <= Period(r.kind)

Dated ==
    /\ \A j \in Jobs : JobDated(job[j])
    /\ \A kind \in Media : usage[kind].period <= Period(kind)

QuotaInv == QuotaTypeOK /\ Dated /\ QuotaExact

-----------------------------------------------------------------------------
(* Periods.                                                                *)

LEMMA WeekStart ==
    ASSUME NEW w \in Nat \ {0}, NEW d \in Nat
    PROVE  /\ (d \div w) * w \in 0..d
           /\ (d \div w) * w <= ((d + 1) \div w) * w
<1>1. PICK q, p : q = d \div w /\ p = (d + 1) \div w
  OBVIOUS
<1>2. /\ q \in Int /\ q * w <= d /\ d < q * w + w
      /\ p \in Int /\ p * w <= d + 1 /\ d + 1 < p * w + w
  BY <1>1, SMTT(30)
<1>3. q >= 0
  <2>1. SUFFICES ASSUME q <= -1 PROVE FALSE
    BY <1>2
  <2>2. q * w <= -1 * w
    BY <2>1, <1>2, SMTT(30)
  <2> QED
    BY <2>2, <1>2
<1>4. q <= p
  <2>1. SUFFICES ASSUME p + 1 <= q PROVE FALSE
    BY <1>2
  <2>2. (p + 1) * w <= q * w
    BY <2>1, <1>2, SMTT(30)
  <2>3. (p + 1) * w = p * w + w
    BY <1>2, SMTT(30)
  <2> QED
    BY <2>2, <2>3, <1>2, SMTT(30)
<1>5. q * w >= 0 /\ q * w <= p * w
  BY <1>2, <1>3, <1>4, SMTT(30)
<1> QED
  BY <1>1, <1>2, <1>5, SMTT(30)

LEMMA Periods ==
    ASSUME QuotaTypeOK, NEW kind \in Media
    PROVE  /\ Period(kind) \in 0..LastDay
           /\ Period(kind) <= PeriodKey(kind, day + 1)
<1>1. day \in Nat /\ day <= LastDay /\ LastDay \in Nat /\ Week \in Nat \ {0}
  BY QuotaConstants DEF QuotaTypeOK
<1>2. (day \div Week) * Week \in 0..day /\ (day \div Week) * Week <= ((day + 1) \div Week) * Week
  BY <1>1, WeekStart
<1> QED
  BY <1>1, <1>2 DEF Period, PeriodKey

LEMMA ClockType == QuotaTypeOK => day \in 0..LastDay /\ -1 \in -1..LastDay
  BY QuotaConstants DEF QuotaTypeOK

-----------------------------------------------------------------------------
(* Pieces of steps.                                                        *)

\* What a step does to one job, and so to the slots held.
LEMMA JobStep ==
    ASSUME QuotaInv, NEW j \in Jobs, NEW r \in JobType, JobDated(r),
           job' = [job EXCEPT ![j] = r], day' = day
    PROVE  /\ job' \in [Jobs -> JobType]
           /\ \A i \in Jobs : JobDated(job[i])'
           /\ \A kind \in Media :
                /\ Period(kind)' = Period(kind)
                /\ StillHeld(kind)' = IF r.kind = kind /\ r.period = Period(kind)
                                      THEN StillHeld(kind) \cup {j} ELSE StillHeld(kind) \ {j}
<1>1. job \in [Jobs -> JobType]
  BY DEF QuotaInv, QuotaTypeOK, JobType, JobPcs
<1>2. job' \in [Jobs -> JobType] /\ \A i \in Jobs : job'[i] = IF i = j THEN r ELSE job[i]
  BY <1>1
<1>3. ASSUME NEW kind PROVE Period(kind)' = Period(kind)
  BY DEF Period, PeriodKey
<1>4. ASSUME NEW i \in Jobs PROVE JobDated(job[i])'
  <2>1. JobDated(job[i]) /\ JobDated(r)
    BY DEF QuotaInv, Dated
  <2> QED
    BY <2>1, <1>2, <1>3 DEF JobDated
<1>5. ASSUME NEW kind \in Media
      PROVE  StillHeld(kind)' = IF r.kind = kind /\ r.period = Period(kind)
                                THEN StillHeld(kind) \cup {j} ELSE StillHeld(kind) \ {j}
  BY <1>2, <1>3 DEF StillHeld
<1> QED
  BY <1>2, <1>3, <1>4, <1>5

\* The slots held can be counted.
LEMMA HeldFinite ==
    ASSUME IsFiniteSet(Jobs), NEW kind
    PROVE  /\ IsFiniteSet(StillHeld(kind)) /\ StillHeld(kind) \subseteq Jobs
           /\ Cardinality(StillHeld(kind)) \in Nat
<1>1. StillHeld(kind) \subseteq Jobs
  BY DEF StillHeld
<1> QED
  BY <1>1, FS_Subset, FS_CardinalityType

\* A slot is its holder's until it is given back or kept.
LEMMA OneMore ==
    ASSUME IsFiniteSet(Jobs), NEW kind, NEW j \in Jobs
    PROVE  /\ j \notin StillHeld(kind) =>
                /\ Cardinality(StillHeld(kind) \cup {j}) = Cardinality(StillHeld(kind)) + 1
                /\ StillHeld(kind) \ {j} = StillHeld(kind)
           /\ j \in StillHeld(kind) =>
                /\ Cardinality(StillHeld(kind) \ {j}) = Cardinality(StillHeld(kind)) - 1
                /\ Cardinality(StillHeld(kind)) >= 1
                /\ StillHeld(kind) \cup {j} = StillHeld(kind)
<1>1. IsFiniteSet(StillHeld(kind)) /\ Cardinality(StillHeld(kind)) \in Nat
  BY HeldFinite
<1>2. CASE j \notin StillHeld(kind)
  <2>1. Cardinality(StillHeld(kind) \cup {j}) = Cardinality(StillHeld(kind)) + 1
    BY <1>1, <1>2, FS_AddElement
  <2>2. StillHeld(kind) \ {j} = StillHeld(kind)
    BY <1>2
  <2> QED
    BY <2>1, <2>2, <1>2
<1>3. CASE j \in StillHeld(kind)
  <2>1. Cardinality(StillHeld(kind) \ {j}) = Cardinality(StillHeld(kind)) - 1
    BY <1>1, <1>3, FS_RemoveElement
  <2>2. IsFiniteSet(StillHeld(kind) \ {j})
    BY <1>1, FS_RemoveElement
  <2>3. Cardinality(StillHeld(kind) \ {j}) \in Nat
    BY <2>2, FS_CardinalityType
  <2>4. StillHeld(kind) \cup {j} = StillHeld(kind)
    BY <1>3
  <2> QED
    BY <2>1, <2>3, <2>4, <1>1, <1>3
<1> QED
  BY <1>2, <1>3

\* A step of a job that keeps what it holds, and all the accounts.
LEMMA JobGoesOn ==
    ASSUME QuotaInv, NEW j \in Jobs, NEW r \in JobType, JobDated(r),
           job' = [job EXCEPT ![j] = r],
           \/ r.kind = job[j].kind /\ r.period = job[j].period
           \/ r.period = -1 /\ job[j].period = -1,
           UNCHANGED <<day, usage, kept, bound>>, cool' \subseteq Backends, generating' \in BOOLEAN
    PROVE  QuotaInv'
<1>1. /\ job' \in [Jobs -> JobType]
      /\ \A i \in Jobs : JobDated(job[i])'
      /\ \A kind \in Media :
           /\ Period(kind)' = Period(kind)
           /\ StillHeld(kind)' = IF r.kind = kind /\ r.period = Period(kind)
                                 THEN StillHeld(kind) \cup {j} ELSE StillHeld(kind) \ {j}
  BY JobStep
<1>2. ASSUME NEW kind \in Media PROVE StillHeld(kind)' = StillHeld(kind)
  <2>1. Period(kind) \in 0..LastDay
    BY Periods DEF QuotaInv
  <2>2. j \in StillHeld(kind) <=> job[j].kind = kind /\ job[j].period = Period(kind)
    BY DEF StillHeld
  <2>3. (r.kind = kind /\ r.period = Period(kind)) <=> j \in StillHeld(kind)
    BY <2>1, <2>2, QuotaConstants
  <2> QED
    BY <2>3, <1>1
<1>3. QuotaTypeOK'
  BY <1>1 DEF QuotaInv, QuotaTypeOK, JobType, JobPcs
<1>4. Dated'
  BY <1>1 DEF QuotaInv, Dated
<1>5. QuotaExact'
  BY <1>1, <1>2 DEF QuotaInv, QuotaExact, UsedCount
<1> QED
  BY <1>3, <1>4, <1>5 DEF QuotaInv

LEMMA JobIs ==
    ASSUME QuotaInv, NEW j \in Jobs
    PROVE  job[j] \in JobType /\ JobDated(job[j]) /\ NoJob \in JobType /\ JobDated(NoJob)
<1>1. job \in [Jobs -> JobType] /\ JobDated(job[j])
  BY DEF QuotaInv, QuotaTypeOK, Dated, JobType, JobPcs
<1>2. NoJob \in JobType /\ NoJob.pc = "idle" /\ NoJob.period = -1 /\ NoJob.kind \notin Media
  BY QuotaConstants, ClockType DEF QuotaInv, NoJob, JobType, JobPcs, Media
<1> QED
  BY <1>1, <1>2 DEF JobDated

\* Work under way: a job past its reservation goes to another step.
LEMMA WorkGoesOn ==
    ASSUME QuotaInv, NEW j \in Jobs, job[j].pc \notin {"idle", "reserve"},
           NEW pc \in JobPcs \ {"idle", "reserve"}, NEW b \in Backends, NEW n \in 0..Max429,
           \/ Leaves(j, pc)
           \/ Goes(j, pc)
           \/ job' = [job EXCEPT ![j].pc = pc, ![j].backend = b]
           \/ job' = [job EXCEPT ![j].polls = n],
           UNCHANGED <<day, usage, kept, bound>>, cool' \subseteq Backends, generating' \in BOOLEAN
    PROVE  QuotaInv'
<1> DEFINE left == [NoJob EXCEPT !.pc = pc, !.kind = job[j].kind, !.period = job[j].period]
           went == [job[j] EXCEPT !.pc = pc]
           moved == [job[j] EXCEPT !.pc = pc, !.backend = b]
           polled == [job[j] EXCEPT !.polls = n]
<1>1. /\ job[j] \in JobType /\ JobDated(job[j]) /\ NoJob \in JobType
      /\ job \in [Jobs -> JobType]
  BY JobIs DEF QuotaInv, QuotaTypeOK, JobType, JobPcs
<1>2. PICK r \in {left, went, moved, polled} : job' = [job EXCEPT ![j] = r]
  BY <1>1 DEF Leaves, Goes
<1>3. r \in JobType /\ r.kind = job[j].kind /\ r.period = job[j].period /\ r.pc \notin {"idle", "reserve"}
  <2>1. left \in JobType /\ left.kind = job[j].kind /\ left.period = job[j].period /\ left.pc = pc
    BY <1>1 DEF JobType, NoJob
  <2>2. went \in JobType /\ went.kind = job[j].kind /\ went.period = job[j].period /\ went.pc = pc
    BY <1>1 DEF JobType
  <2>3. moved \in JobType /\ moved.kind = job[j].kind /\ moved.period = job[j].period /\ moved.pc = pc
    BY <1>1 DEF JobType
  <2>4. polled \in JobType /\ polled.kind = job[j].kind /\ polled.period = job[j].period
        /\ polled.pc = job[j].pc
    BY <1>1 DEF JobType
  <2> QED
    BY <2>1, <2>2, <2>3, <2>4
<1>4. JobDated(r)
  BY <1>1, <1>3 DEF JobDated
<1>5. job' = [job EXCEPT ![j] = r]
  BY <1>2
<1> HIDE DEF left, went, moved, polled
<1> QED
  BY <1>3, <1>4, <1>5, JobGoesOn

\* What was drawn can only be of the present period.
LEMMA UsedFacts ==
    ASSUME QuotaInv, NEW kind \in Media
    PROVE  /\ UsedCount(kind) \in Nat
           /\ Limit[kind] \in Nat \ {0}
           /\ usage[kind].period \in -1..LastDay /\ usage[kind].used \in Nat
           /\ Period(kind) \in 0..LastDay
  BY Periods, QuotaConstants DEF QuotaInv, QuotaTypeOK, UsedCount

LEMMA PruneIs ==
    ASSUME QuotaInv
    PROVE  /\ Prune \in [Media -> [period : -1..LastDay, used : Nat]]
           /\ \A kind \in Media :
                /\ Prune[kind].period <= Period(kind)
                /\ (IF Prune[kind].period = Period(kind) THEN Prune[kind].used ELSE 0) = UsedCount(kind)
<1>1. NoUse \in [period : -1..LastDay, used : Nat] /\ NoUse.period = -1
  BY ClockType DEF QuotaInv, NoUse
<1>2. usage \in [Media -> [period : -1..LastDay, used : Nat]]
  BY DEF QuotaInv, QuotaTypeOK
<1>3. Prune \in [Media -> [period : -1..LastDay, used : Nat]]
  BY <1>1, <1>2 DEF Prune
<1>4. ASSUME NEW kind \in Media
      PROVE  /\ Prune[kind].period <= Period(kind)
             /\ (IF Prune[kind].period = Period(kind) THEN Prune[kind].used ELSE 0) = UsedCount(kind)
  <2>1. UsedCount(kind) \in Nat /\ Period(kind) \in 0..LastDay /\ usage[kind].period <= Period(kind)
    BY UsedFacts DEF QuotaInv, Dated
  <2>2. Prune[kind] = IF UsedCount(kind) > 0 THEN usage[kind] ELSE NoUse
    BY DEF Prune
  <2>3. CASE UsedCount(kind) > 0
    BY <2>1, <2>2, <2>3 DEF UsedCount
  <2>4. CASE UsedCount(kind) = 0
    BY <2>1, <2>2, <2>4, <1>1, QuotaConstants
  <2> QED
    BY <2>1, <2>3, <2>4
<1> QED
  BY <1>3, <1>4

-----------------------------------------------------------------------------
(* The steps that move the accounts.                                       *)

\* The slots held once job j is r, and the slots a record says are used.
HeldWith(kind, j, r) ==
    IF r.kind = kind /\ r.period = Period(kind) THEN StillHeld(kind) \cup {j} ELSE StillHeld(kind) \ {j}
Taken(record, kind) == IF record.period = Period(kind) THEN record.used ELSE 0

UseType == [period : -1..LastDay, used : Nat]

\* One job moves and so do the accounts: what is left to show of them.
LEMMA Booked ==
    ASSUME QuotaInv, NEW j \in Jobs, NEW r \in JobType, JobDated(r),
           job' = [job EXCEPT ![j] = r], UNCHANGED <<day, bound>>,
           cool' \subseteq Backends, generating' \in BOOLEAN,
           usage' \in [Media -> UseType], kept' \in [Media -> Nat],
           \A kind \in Media :
              /\ usage'[kind].period <= Period(kind)
              /\ Taken(usage'[kind], kind) = kept'[kind] + Cardinality(HeldWith(kind, j, r))
              /\ Taken(usage'[kind], kind) <= Limit[kind]
    PROVE  QuotaInv'
<1>1. /\ job' \in [Jobs -> JobType]
      /\ \A i \in Jobs : JobDated(job[i])'
      /\ \A kind \in Media :
           /\ Period(kind)' = Period(kind)
           /\ StillHeld(kind)' = HeldWith(kind, j, r)
  BY JobStep DEF HeldWith
<1>2. QuotaTypeOK'
  BY <1>1 DEF QuotaInv, QuotaTypeOK, JobType, JobPcs, UseType
<1>3. Dated'
  BY <1>1 DEF Dated
<1>4. QuotaExact'
  BY <1>1 DEF QuotaExact, UsedCount, Taken
<1> QED
  BY <1>2, <1>3, <1>4 DEF QuotaInv

\* The accounts before a step, and what one job more or less does to them.
LEMMA Books ==
    ASSUME IsFiniteSet(Jobs), QuotaInv, NEW kind \in Media, NEW j \in Jobs
    PROVE  /\ usage \in [Media -> UseType] /\ kept \in [Media -> Nat]
           /\ UsedCount(kind) = Taken(usage[kind], kind)
           /\ UsedCount(kind) = kept[kind] + Cardinality(StillHeld(kind))
           /\ UsedCount(kind) <= Limit[kind] /\ Limit[kind] \in Nat /\ UsedCount(kind) \in Nat
           /\ usage[kind].period <= Period(kind) /\ Period(kind) \in 0..LastDay
           /\ Cardinality(StillHeld(kind)) \in Nat /\ kept[kind] \in Nat
           /\ HeldWith(kind, j, NoJob) = StillHeld(kind) \ {j}
           /\ j \in StillHeld(kind) <=> job[j].kind = kind /\ job[j].period = Period(kind)
<1>1. NoJob.kind \notin Media
  BY DEF NoJob, Media
<1>2. HeldWith(kind, j, NoJob) = StillHeld(kind) \ {j}
  BY <1>1 DEF HeldWith
<1>3. j \in StillHeld(kind) <=> job[j].kind = kind /\ job[j].period = Period(kind)
  BY DEF StillHeld
<1> QED
  BY <1>2, <1>3, UsedFacts, HeldFinite DEF QuotaInv, QuotaTypeOK, QuotaExact, Dated, UsedCount, Taken, UseType

LEMMA ReserveKeeps ==
    ASSUME IsFiniteSet(Jobs), QuotaInv, NEW j \in Jobs, Reserve(j)
    PROVE  QuotaInv'
<1>1. PICK mine \in Media : mine = job[j].kind
  BY JobIs DEF JobDated, Reserve
<1>2. PICK present \in 0..LastDay, n \in Nat : present = Period(mine) /\ n = UsedCount(mine)
  BY Books
<1>3. PICK pc \in JobPcs \ {"idle", "reserve"} : pc = FirstStep(mine)
  BY DEF FirstStep, JobPcs
<1>4. /\ job[j] \in JobType /\ job \in [Jobs -> JobType] /\ job[j].period = -1
      /\ NoJob \in JobType /\ JobDated(NoJob)
      /\ generating \in BOOLEAN /\ cool \subseteq Backends /\ kept \in [Media -> Nat]
  BY JobIs DEF QuotaInv, QuotaTypeOK, JobType, JobPcs, Reserve, JobDated
<1>5. /\ UNCHANGED <<day, kept, bound, cool>>
      /\ IF n >= Limit[mine]
         THEN usage' = Prune /\ job' = [job EXCEPT ![j] = NoJob] /\ UNCHANGED generating
         ELSE /\ usage' = [Prune EXCEPT ![mine] = [period |-> present, used |-> n + 1]]
              /\ job' = [job EXCEPT ![j].pc = pc, ![j].period = present]
              /\ generating' = (generating \/ mine = "song")
  BY <1>1, <1>2, <1>3, Zenon DEF Reserve
<1>5a. UNCHANGED <<day, kept, bound, cool>>
  BY <1>5
<1>6. Prune \in [Media -> UseType]
  BY PruneIs DEF UseType
<1>7. ASSUME NEW kind \in Media
      PROVE  /\ Prune[kind].period <= Period(kind) /\ Taken(Prune[kind], kind) = UsedCount(kind)
             /\ StillHeld(kind) \ {j} = StillHeld(kind)
             /\ Cardinality(StillHeld(kind) \cup {j}) = Cardinality(StillHeld(kind)) + 1
  <2>1. Prune[kind].period <= Period(kind) /\ Taken(Prune[kind], kind) = UsedCount(kind)
    BY PruneIs DEF Taken
  <2>2. j \notin StillHeld(kind)
    BY <1>4, Books
  <2> QED
    BY <2>1, <2>2, OneMore
<1>8. CASE n >= Limit[mine]
  <2>1. usage' = Prune /\ job' = [job EXCEPT ![j] = NoJob] /\ generating' = generating
    BY <1>5, <1>8
  <2>2. ASSUME NEW kind \in Media
        PROVE  /\ usage'[kind].period <= Period(kind)
               /\ Taken(usage'[kind], kind) = kept'[kind] + Cardinality(HeldWith(kind, j, NoJob))
               /\ Taken(usage'[kind], kind) <= Limit[kind]
    <3>1. usage'[kind] = Prune[kind] /\ kept'[kind] = kept[kind]
      BY <1>5a, <2>1
    <3>2. HeldWith(kind, j, NoJob) = StillHeld(kind)
      BY <1>7, Books
    <3>3. /\ Taken(usage'[kind], kind) = UsedCount(kind) /\ usage'[kind].period <= Period(kind)
      BY <3>1, <1>7
    <3>4. UsedCount(kind) = kept[kind] + Cardinality(StillHeld(kind)) /\ UsedCount(kind) <= Limit[kind]
      BY Books
    <3> QED
      BY <3>1, <3>2, <3>3, <3>4
  <2> QED
    BY <1>4, <1>5a, <1>6, <2>1, <2>2, Booked
<1>9. CASE ~(n >= Limit[mine])
  <2> DEFINE r == [job[j] EXCEPT !.pc = pc, !.period = present]
             record == [period |-> present, used |-> n + 1]
  <2>1. /\ usage' = [Prune EXCEPT ![mine] = record]
        /\ job' = [job EXCEPT ![j] = r]
        /\ generating' \in BOOLEAN
    <3>1. /\ usage' = [Prune EXCEPT ![mine] = record]
          /\ job' = [job EXCEPT ![j].pc = pc, ![j].period = present]
          /\ generating' = (generating \/ mine = "song")
      BY <1>5, <1>9
    <3>2. job' = [job EXCEPT ![j] = r]
      BY <3>1, <1>4
    <3>3. generating' \in BOOLEAN
      BY <3>1
    <3> QED
      BY <3>1, <3>2, <3>3
  <2>2. r \in JobType /\ r.kind = mine /\ r.period = present /\ r.pc = pc
    <3>1. present \in -1..LastDay /\ job[j] \in JobType
      BY <1>4, QuotaConstants
    <3> QED
      BY <3>1, <1>1 DEF JobType
  <2>3. record \in UseType /\ record.period = present /\ record.used = n + 1
    BY DEF UseType
  <2> HIDE DEF r, record
  <2>4. JobDated(r)
    BY <1>1, <1>2, <2>2 DEF JobDated
  <2>5. /\ usage' \in [Media -> UseType]
        /\ \A kind \in Media : usage'[kind] = IF kind = mine THEN record ELSE Prune[kind]
    BY <1>6, <2>1, <2>3
  <2>6. ASSUME NEW kind \in Media
        PROVE  /\ usage'[kind].period <= Period(kind)
               /\ Taken(usage'[kind], kind) = kept'[kind] + Cardinality(HeldWith(kind, j, r))
               /\ Taken(usage'[kind], kind) <= Limit[kind]
    <3>1. CASE kind = mine
      <4>1. Taken(usage'[mine], mine) = n + 1 /\ usage'[mine].period = present
        BY <1>2, <2>3, <2>5 DEF Taken
      <4>2. HeldWith(mine, j, r) = StillHeld(mine) \cup {j}
        BY <1>2, <2>2 DEF HeldWith
      <4>3. n = kept'[mine] + Cardinality(StillHeld(mine)) /\ n + 1 <= Limit[mine]
        BY <1>2, <1>5a, <1>9, Books
      <4>4. Cardinality(StillHeld(mine) \cup {j}) = Cardinality(StillHeld(mine)) + 1
        BY <1>7
      <4>5. Cardinality(StillHeld(mine)) \in Nat /\ kept'[mine] \in Nat
        BY <1>4, <1>5a, Books
      <4> QED
        BY <3>1, <4>1, <4>2, <4>3, <4>4, <4>5, <1>2
    <3>2. CASE kind # mine
      <4>1. usage'[kind] = Prune[kind] /\ HeldWith(kind, j, r) = StillHeld(kind) \ {j}
        BY <2>2, <2>5, <3>2 DEF HeldWith
      <4>2. HeldWith(kind, j, r) = StillHeld(kind) /\ kept'[kind] = kept[kind]
        BY <4>1, <1>7, <1>5a
      <4>3. Taken(usage'[kind], kind) = UsedCount(kind) /\ usage'[kind].period <= Period(kind)
        BY <4>1, <1>7
      <4>4. UsedCount(kind) = kept[kind] + Cardinality(StillHeld(kind)) /\ UsedCount(kind) <= Limit[kind]
        BY Books
      <4> QED
        BY <4>2, <4>3, <4>4
    <3> QED
      BY <3>1, <3>2
  <2> QED
    BY <1>4, <1>5a, <2>1, <2>2, <2>4, <2>5, <2>6, Booked
<1> QED
  BY <1>8, <1>9

\* A job that had a slot and gives it up: the slot is refunded or kept.
LEMMA SlotLeft ==
    ASSUME IsFiniteSet(Jobs), QuotaInv, NEW j \in Jobs, NEW mine \in Media, mine = job[j].kind,
           job' = [job EXCEPT ![j] = NoJob], UNCHANGED <<day, bound, cool, generating>>,
           usage' \in [Media -> UseType], kept' \in [Media -> Nat],
           \A kind \in Media \ {mine} : usage'[kind] = usage[kind] /\ kept'[kind] = kept[kind],
           usage'[mine].period = usage[mine].period,
           LET present == job[j].period = Period(mine) IN
           \/ /\ ~present /\ kept'[mine] = kept[mine]
              /\ Taken(usage'[mine], mine) = Taken(usage[mine], mine)
           \/ /\ present /\ kept'[mine] = kept[mine]
              /\ Taken(usage'[mine], mine) = Taken(usage[mine], mine) - 1
           \/ /\ present /\ kept'[mine] = kept[mine] + 1
              /\ Taken(usage'[mine], mine) = Taken(usage[mine], mine)
    PROVE  QuotaInv'
<1>1. /\ NoJob \in JobType /\ JobDated(NoJob)
      /\ generating' \in BOOLEAN /\ cool' \subseteq Backends /\ UNCHANGED <<day, bound>>
  BY JobIs DEF QuotaInv, QuotaTypeOK
<1>2. ASSUME NEW kind \in Media
      PROVE  /\ usage'[kind].period <= Period(kind)
             /\ Taken(usage'[kind], kind) = kept'[kind] + Cardinality(HeldWith(kind, j, NoJob))
             /\ Taken(usage'[kind], kind) <= Limit[kind]
  <2>1. /\ UsedCount(kind) = Taken(usage[kind], kind)
        /\ UsedCount(kind) = kept[kind] + Cardinality(StillHeld(kind))
        /\ UsedCount(kind) <= Limit[kind] /\ Limit[kind] \in Nat /\ UsedCount(kind) \in Nat
        /\ usage[kind].period <= Period(kind)
        /\ Cardinality(StillHeld(kind)) \in Nat /\ kept[kind] \in Nat
        /\ HeldWith(kind, j, NoJob) = StillHeld(kind) \ {j}
        /\ j \in StillHeld(kind) <=> job[j].kind = kind /\ job[j].period = Period(kind)
    BY Books
  <2>2. CASE kind # mine
    <3>1. StillHeld(kind) \ {j} = StillHeld(kind)
      BY <2>1, <2>2
    <3> QED
      BY <2>1, <2>2, <3>1
  <2>3. CASE kind = mine /\ job[j].period # Period(mine)
    <3>1. StillHeld(kind) \ {j} = StillHeld(kind)
      BY <2>1, <2>3
    <3> QED
      BY <2>1, <2>3, <3>1
  <2>4. CASE kind = mine /\ job[j].period = Period(mine)
    <3>1. Cardinality(StillHeld(kind) \ {j}) = Cardinality(StillHeld(kind)) - 1
      BY <2>1, <2>4, OneMore
    <3>2. \/ /\ kept'[kind] = kept[kind]
             /\ Taken(usage'[kind], kind) = Taken(usage[kind], kind) - 1
          \/ /\ kept'[kind] = kept[kind] + 1
             /\ Taken(usage'[kind], kind) = Taken(usage[kind], kind)
      BY <2>4, Zenon
    <3>3. usage'[kind].period = usage[kind].period
      BY <2>4, Zenon
    <3> QED
      BY <2>1, <3>1, <3>2, <3>3
  <2> QED
    BY <2>2, <2>3, <2>4
<1> QED
  BY <1>1, <1>2, Booked

LEMMA ReleaseKeeps ==
    ASSUME IsFiniteSet(Jobs), QuotaInv, NEW j \in Jobs, NEW written \in BOOLEAN, ReleaseHandle(j, written)
    PROVE  QuotaInv'
<1>1. PICK mine \in Media : mine = job[j].kind
  BY JobIs DEF JobDated, ReleaseHandle
<1> DEFINE present == job[j].period = Period(mine)
<1>2. /\ job' = [job EXCEPT ![j] = NoJob]
      /\ usage' = IF written /\ usage[mine].period = job[j].period /\ UsedCount(mine) > 0
                  THEN [usage EXCEPT ![mine].used = @ - 1] ELSE usage
      /\ kept' = IF ~written /\ present THEN [kept EXCEPT ![mine] = @ + 1] ELSE kept
      /\ UNCHANGED <<day, bound, cool, generating>>
  BY <1>1, Zenon DEF ReleaseHandle
<1>3. /\ usage \in [Media -> UseType] /\ kept \in [Media -> Nat]
      /\ UsedCount(mine) = Taken(usage[mine], mine)
      /\ UsedCount(mine) = kept[mine] + Cardinality(StillHeld(mine))
      /\ UsedCount(mine) \in Nat /\ Cardinality(StillHeld(mine)) \in Nat /\ kept[mine] \in Nat
      /\ j \in StillHeld(mine) <=> present
  BY <1>1, Books
<1>4. ASSUME present PROVE UsedCount(mine) > 0
  <2>1. j \in StillHeld(mine)
    BY <1>3, <1>4
  <2>2. Cardinality(StillHeld(mine)) >= 1
    BY <2>1, OneMore
  <2> QED
    BY <2>2, <1>3
<1>5. UsedCount(mine) > 0 => usage[mine].period = Period(mine) /\ UsedCount(mine) = usage[mine].used
  BY <1>3 DEF Taken
<1>6. CASE ~written
  <2>1. usage' = usage /\ kept' = IF present THEN [kept EXCEPT ![mine] = @ + 1] ELSE kept
    BY <1>2, <1>6
  <2>2. kept' \in [Media -> Nat] /\ \A kind \in Media \ {mine} : kept'[kind] = kept[kind]
    BY <1>3, <2>1
  <2>3. kept'[mine] = IF present THEN kept[mine] + 1 ELSE kept[mine]
    BY <1>3, <2>1
  <2> QED
    BY <1>1, <1>2, <1>3, <2>1, <2>2, <2>3, SlotLeft
<1>7. CASE written /\ present
  <2> DEFINE record == [usage[mine] EXCEPT !.used = @ - 1]
  <2>1. usage' = [usage EXCEPT ![mine] = record] /\ kept' = kept
    BY <1>2, <1>4, <1>5, <1>7
  <2>2. usage[mine] \in UseType /\ usage[mine].used > 0
    BY <1>3, <1>4, <1>5, <1>7
  <2>3. record \in UseType /\ record.period = usage[mine].period /\ record.used = usage[mine].used - 1
    BY <2>2 DEF UseType
  <2> HIDE DEF record
  <2>4. usage' \in [Media -> UseType] /\ usage'[mine] = record
        /\ \A kind \in Media \ {mine} : usage'[kind] = usage[kind]
    BY <1>3, <2>1, <2>3
  <2>5. Taken(usage'[mine], mine) = Taken(usage[mine], mine) - 1
    BY <1>4, <1>5, <1>7, <2>3, <2>4 DEF Taken
  <2> QED
    BY <1>1, <1>2, <1>3, <1>7, <2>1, <2>3, <2>4, <2>5, SlotLeft
<1>8. CASE written /\ ~present
  <2>1. usage' = usage /\ kept' = kept
    BY <1>2, <1>5, <1>8
  <2> QED
    BY <1>1, <1>2, <1>3, <1>8, <2>1, SlotLeft
<1> QED
  BY <1>6, <1>7, <1>8

LEMMA StageKeeps ==
    ASSUME IsFiniteSet(Jobs), QuotaInv, NEW j \in Jobs, NEW ok \in BOOLEAN, StageAndCommit(j, ok)
    PROVE  QuotaInv'
<1>1. PICK mine \in Media : mine = job[j].kind
  BY JobIs DEF JobDated, StageAndCommit
<1>2. /\ job[j].pc = "stage" /\ UNCHANGED <<day, usage, bound, cool, generating>>
      /\ kept \in [Media -> Nat] /\ usage \in [Media -> UseType]
  BY Books DEF StageAndCommit
<1>3. CASE ok
  <2>1. /\ job' = [job EXCEPT ![j] = NoJob]
        /\ kept' = IF job[j].period = Period(mine) THEN [kept EXCEPT ![mine] = @ + 1] ELSE kept
    BY <1>1, <1>3 DEF StageAndCommit
  <2>2. /\ kept' \in [Media -> Nat] /\ \A kind \in Media \ {mine} : kept'[kind] = kept[kind]
        /\ kept'[mine] = IF job[j].period = Period(mine) THEN kept[mine] + 1 ELSE kept[mine]
    BY <1>2, <2>1
  <2> QED
    BY <1>1, <1>2, <2>1, <2>2, SlotLeft
<1>4. CASE ~ok
  <2>1. Leaves(j, "release") /\ kept' = kept
    BY <1>4 DEF StageAndCommit
  <2>2. "release" \in JobPcs \ {"idle", "reserve"} /\ cool' \subseteq Backends /\ generating' \in BOOLEAN
        /\ \E b \in Backends : TRUE
    BY <1>2 DEF JobPcs, QuotaInv, QuotaTypeOK, Backends
  <2>3. 0 \in 0..Max429
    BY QuotaConstants
  <2> QED
    BY <1>2, <2>1, <2>2, <2>3, WorkGoesOn
<1> QED
  BY <1>3, <1>4

LEMMA RollOverKeeps ==
    ASSUME IsFiniteSet(Jobs), QuotaInv, RollOver
    PROVE  QuotaInv'
<1>1. /\ day < LastDay /\ day' = day + 1 /\ UNCHANGED <<usage, job, bound, cool, generating>>
      /\ kept' = [kind \in Media |-> IF PeriodKey(kind, day + 1) = Period(kind) THEN kept[kind] ELSE 0]
  BY DEF RollOver
<1>2. /\ day \in 0..LastDay /\ kept \in [Media -> Nat] /\ LastDay \in Nat
      /\ job \in [Jobs -> JobType] /\ usage \in [Media -> UseType]
  BY QuotaConstants DEF QuotaInv, QuotaTypeOK, JobType, JobPcs, UseType
<1>3. QuotaTypeOK'
  <2>1. day' \in 0..LastDay /\ kept' \in [Media -> Nat]
    BY <1>1, <1>2
  <2> QED
    BY <1>1, <2>1 DEF QuotaInv, QuotaTypeOK
<1>4. ASSUME NEW kind \in Media
      PROVE  /\ Period(kind)' = PeriodKey(kind, day + 1) /\ Period(kind)' \in 0..LastDay
             /\ Period(kind) \in 0..LastDay /\ Period(kind) <= Period(kind)'
  <2>1. Period(kind)' = PeriodKey(kind, day + 1)
    BY <1>1 DEF Period
  <2>2. Period(kind) \in 0..LastDay /\ Period(kind) <= PeriodKey(kind, day + 1)
    BY Periods DEF QuotaInv
  <2>3. Period(kind)' \in 0..LastDay
    <3>1. day' \in Nat /\ day' <= LastDay /\ Week \in Nat \ {0}
      BY <1>1, <1>2, QuotaConstants
    <3>2. (day' \div Week) * Week \in 0..day'
      BY <3>1, WeekStart
    <3>3. Period(kind)' \in {day', (day' \div Week) * Week}
      BY Zenon DEF Period, PeriodKey
    <3>4. PICK d, start : d = day' /\ start = (day' \div Week) * Week
      OBVIOUS
    <3>5. Period(kind)' \in {d, start} /\ start \in 0..d /\ d \in Nat /\ d <= LastDay
      BY <3>1, <3>2, <3>3, <3>4, Zenon
    <3> QED
      BY <3>5, <1>2
  <2> QED
    BY <2>1, <2>2, <2>3
<1>5. ASSUME NEW j \in Jobs PROVE JobDated(job[j])'
  <2>1. JobDated(job[j]) /\ job[j].period \in -1..LastDay /\ job' = job
    BY <1>1, JobIs DEF JobType
  <2>2. job[j].kind \in Media => job[j].period <= Period(job[j].kind)'
    BY <2>1, <1>2, <1>4 DEF JobDated
  <2> QED
    BY <2>1, <2>2 DEF JobDated
<1>6. ASSUME NEW kind \in Media PROVE usage'[kind].period <= Period(kind)'
  <2>1. usage[kind].period <= Period(kind) /\ usage[kind].period \in -1..LastDay
    BY UsedFacts DEF QuotaInv, Dated
  <2> QED
    BY <1>1, <1>2, <1>4, <2>1
<1>7. ASSUME NEW kind \in Media
      PROVE  /\ UsedCount(kind)' = kept'[kind] + Cardinality(StillHeld(kind)')
             /\ UsedCount(kind)' <= Limit[kind]
  <2>1. /\ UsedCount(kind) = kept[kind] + Cardinality(StillHeld(kind)) /\ UsedCount(kind) <= Limit[kind]
        /\ Limit[kind] \in Nat \ {0} /\ usage[kind].period <= Period(kind)
        /\ usage[kind].period \in -1..LastDay
    BY UsedFacts DEF QuotaInv, QuotaExact, Dated
  <2>2. CASE Period(kind)' = Period(kind)
    <3>1. StillHeld(kind)' = StillHeld(kind) /\ UsedCount(kind)' = UsedCount(kind)
      BY <2>2, <1>1 DEF StillHeld, UsedCount
    <3>2. kept'[kind] = kept[kind]
      BY <2>2, <1>1, <1>4
    <3> QED
      BY <3>1, <3>2, <2>1
  <2>3. CASE Period(kind)' # Period(kind)
    <3>1. Period(kind) < Period(kind)' /\ kept'[kind] = 0
      BY <2>3, <1>1, <1>4
    <3>2. UsedCount(kind)' = 0
      BY <3>1, <2>1, <1>1, <1>4 DEF UsedCount
    <3>3. ASSUME NEW j \in Jobs, job[j].kind = kind PROVE job[j].period # Period(kind)'
      <4>1. job[j].period <= Period(kind) /\ job[j].period \in -1..LastDay
        BY <3>3, JobIs DEF JobDated, JobType
      <4> QED
        BY <4>1, <3>1, <1>2, <1>4
    <3>4. StillHeld(kind)' = {}
      BY <3>3, <1>1 DEF StillHeld
    <3> QED
      BY <3>1, <3>2, <3>4, <2>1, FS_EmptySet
  <2> QED
    BY <2>2, <2>3
<1> QED
  BY <1>3, <1>5, <1>6, <1>7 DEF QuotaInv, Dated, QuotaExact

LEMMA CrashKeeps ==
    ASSUME IsFiniteSet(Jobs), QuotaInv, QuotaCrash
    PROVE  QuotaInv'
<1>1. /\ job' = [j \in Jobs |-> NoJob] /\ cool' = {} /\ generating' = FALSE
      /\ kept' = [kind \in Media |-> kept[kind] + Cardinality(StillHeld(kind))]
      /\ UNCHANGED <<day, usage, bound>>
  BY DEF QuotaCrash
<1>2. ASSUME NEW kind \in Media
      PROVE  /\ kept'[kind] = UsedCount(kind) /\ UsedCount(kind) \in Nat /\ UsedCount(kind) <= Limit[kind]
             /\ usage[kind].period <= Period(kind)
             /\ Period(kind)' = Period(kind) /\ UsedCount(kind)' = UsedCount(kind)
  BY <1>1, UsedFacts DEF QuotaInv, QuotaExact, Dated, UsedCount, Period, PeriodKey
<1>3. ASSUME NEW j \in Jobs PROVE job'[j] = NoJob /\ JobDated(job[j])'
  <2>1. job'[j] = NoJob /\ NoJob.pc = "idle" /\ NoJob.period = -1 /\ NoJob.kind \notin Media
    BY <1>1 DEF NoJob, Media
  <2> QED
    BY <2>1 DEF JobDated
<1>4. ASSUME NEW kind \in Media PROVE StillHeld(kind)' = {}
  <2>1. NoJob.kind \notin Media
    BY DEF NoJob, Media
  <2> QED
    BY <2>1, <1>3 DEF StillHeld
<1>5. QuotaTypeOK'
  <2>1. job' \in [Jobs -> JobType]
    <3>1. ASSUME NEW j \in Jobs PROVE NoJob \in JobType
      BY JobIs
    <3> QED
      BY <3>1, <1>1
  <2>2. kept' \in [Media -> Nat]
    BY <1>1, <1>2
  <2> QED
    BY <2>1, <2>2, <1>1 DEF QuotaInv, QuotaTypeOK, JobType, JobPcs
<1>6. Dated'
  BY <1>1, <1>2, <1>3 DEF Dated
<1>7. ASSUME NEW kind \in Media
      PROVE  /\ UsedCount(kind)' = kept'[kind] + Cardinality(StillHeld(kind)')
             /\ UsedCount(kind)' <= Limit[kind]
  <2>1. Cardinality(StillHeld(kind)') = 0
    BY <1>4, FS_EmptySet
  <2> QED
    BY <2>1, <1>2
<1> QED
  BY <1>5, <1>6, <1>7 DEF QuotaInv, QuotaExact

-----------------------------------------------------------------------------
(* The steps that leave the accounts alone.                                *)

LEMMA StartKeeps ==
    ASSUME QuotaInv, NEW j \in Jobs,
           \/ GenerateVideo(j) \/ MusicCreator(j) \/ ReserveThrows(j)
           \/ \E refs \in BOOLEAN : GenerateImage(j, refs)
    PROVE  QuotaInv'
<1>1. /\ job[j].period = -1 /\ NoJob \in JobType /\ NoJob.period = -1 /\ JobDated(NoJob)
      /\ UNCHANGED <<day, usage, kept, bound>> /\ cool' \subseteq Backends /\ generating' \in BOOLEAN
  BY JobIs DEF JobDated, NoJob, GenerateVideo, MusicCreator, ReserveThrows, GenerateImage, QuotaInv, QuotaTypeOK
<1>2. PICK r \in JobType : /\ job' = [job EXCEPT ![j] = r]
                           /\ r.period = -1
                           /\ r = NoJob \/ (r.pc = "reserve" /\ r.kind \in Media)
  <2>1. CASE ReserveThrows(j)
    BY <1>1, <2>1 DEF ReserveThrows
  <2> DEFINE prompted(kind) == [NoJob EXCEPT !.pc = "reserve", !.kind = kind]
  <2>2. ASSUME NEW kind \in Media
        PROVE  prompted(kind) \in JobType /\ prompted(kind).period = -1 /\ prompted(kind).pc = "reserve" /\ prompted(kind).kind = kind
    BY <1>1 DEF JobType, JobPcs, NoJob
  <2>3. "video" \in Media /\ "song" \in Media /\ "image" \in Media
    BY DEF Media
  <2>4. CASE GenerateVideo(j)
    <3>1. job' = [job EXCEPT ![j] = prompted("video")]
      BY <2>4 DEF GenerateVideo
    <3> QED
      BY <3>1, <2>2, <2>3
  <2>5. CASE MusicCreator(j)
    <3>1. job' = [job EXCEPT ![j] = prompted("song")]
      BY <2>5 DEF MusicCreator
    <3> QED
      BY <3>1, <2>2, <2>3
  <2>6. ASSUME NEW refs \in BOOLEAN, GenerateImage(j, refs)
        PROVE  \E r \in JobType : /\ job' = [job EXCEPT ![j] = r]
                                  /\ r.period = -1
                                  /\ r = NoJob \/ (r.pc = "reserve" /\ r.kind \in Media)
    <3> DEFINE r == [NoJob EXCEPT !.pc = "reserve", !.kind = "image", !.refs = refs,
                                  !.backend = Primary, !.fallback = Behind]
    <3>1. Primary \in Backends \cup {"none"} /\ Behind \in Backends \cup {"none"}
      BY DEF Primary, Behind, FallbackOf, Backends, QuotaInv, QuotaTypeOK
    <3>2. r \in JobType /\ r.period = -1 /\ r.pc = "reserve" /\ r.kind = "image"
      BY <1>1, <2>3, <3>1 DEF JobType, JobPcs, NoJob
    <3>3. job' = [job EXCEPT ![j] = r]
      BY <2>6 DEF GenerateImage
    <3> QED
      BY <2>3, <3>2, <3>3
  <2> QED
    BY <2>1, <2>4, <2>5, <2>6
<1>3. JobDated(r)
  <2>1. CASE r = NoJob
    BY <1>1, <2>1
  <2>2. CASE r.pc = "reserve" /\ r.kind \in Media
    <3>1. Period(r.kind) \in 0..LastDay
      BY <2>2, Periods DEF QuotaInv
    <3> QED
      BY <1>2, <2>2, <3>1, QuotaConstants DEF JobDated
  <2> QED
    BY <1>2, <2>1, <2>2
<1> QED
  BY <1>1, <1>2, <1>3, JobGoesOn

LEMMA WorkKeeps ==
    ASSUME QuotaInv, NEW j \in Jobs,
           \/ ImageUnavailable(j)
           \/ \E outcome \in Codes \cup {"ok", "ABORT"} : ImageAttempt(j, outcome)
           \/ \E ok \in BOOLEAN : VideoStep(j, ok) \/ PollAgain(j, ok) \/ SongStep(j, ok)
    PROVE  QuotaInv'
<1>1. job[j] \in JobType /\ cool \subseteq Backends /\ generating \in BOOLEAN /\ 0 \in 0..Max429
  BY JobIs, QuotaConstants DEF QuotaInv, QuotaTypeOK
<1>2. {"again", "second", "submit", "poll", "fetch", "stage", "release"} \subseteq JobPcs \ {"idle", "reserve"}
  BY DEF JobPcs
<1>3. "xai" \in Backends /\ "cloudflare" \in Backends
  BY DEF Backends
<1>4. CASE ImageUnavailable(j)
  BY <1>1, <1>2, <1>3, <1>4, WorkGoesOn DEF ImageUnavailable
<1>5. ASSUME NEW outcome \in Codes \cup {"ok", "ABORT"}, ImageAttempt(j, outcome) PROVE QuotaInv'
  <2>1. job[j].pc \notin {"idle", "reserve"} /\ UNCHANGED <<day, usage, kept, bound, generating>>
    BY <1>5 DEF ImageAttempt
  <2>2. cool' \subseteq Backends
    <3>1. CanUse(job[j].backend, job[j].refs) => job[j].backend \in Backends
      BY DEF CanUse, Backends, QuotaInv, QuotaTypeOK
    <3> QED
      BY <1>1, <1>5, <3>1 DEF ImageAttempt
  <2>3. \/ Leaves(j, "stage") \/ Leaves(j, "release") \/ Goes(j, "again") \/ TryFallback(j)
    BY <1>5, Zenon DEF ImageAttempt
  <2>4. CASE Leaves(j, "stage") \/ Leaves(j, "release") \/ Goes(j, "again")
    BY <1>1, <1>2, <1>3, <2>1, <2>2, <2>4, WorkGoesOn
  <2>5. CASE TryFallback(j)
    <3>1. CASE Leaves(j, "release")
      BY <1>1, <1>2, <1>3, <2>1, <2>2, <3>1, WorkGoesOn
    <3>2. CASE /\ job[j].fallback # "none"
               /\ job' = [job EXCEPT ![j].pc = "second", ![j].backend = job[j].fallback]
      <4>1. job[j].fallback \in Backends
        BY <1>1, <3>2 DEF JobType
      <4> QED
        BY <1>1, <1>2, <2>1, <2>2, <3>2, <4>1, WorkGoesOn
    <3> QED
      BY <2>5, <3>1, <3>2 DEF TryFallback
  <2> QED
    BY <2>3, <2>4, <2>5
<1>6. ASSUME NEW ok \in BOOLEAN, VideoStep(j, ok) PROVE QuotaInv'
  <2>1. /\ job[j].pc \notin {"idle", "reserve"} /\ UNCHANGED <<day, usage, kept, bound, cool, generating>>
        /\ \E pc \in {"submit", "poll", "fetch", "stage", "release"} : Leaves(j, pc)
    BY <1>6 DEF VideoStep, VideoSteps
  <2> QED
    BY <1>1, <1>2, <1>3, <2>1, WorkGoesOn
<1>7. ASSUME NEW limited \in BOOLEAN, PollAgain(j, limited) PROVE QuotaInv'
  <2>1. job[j].pc = "poll" /\ UNCHANGED <<day, usage, kept, bound, cool, generating>>
    BY <1>7 DEF PollAgain
  <2>2. CASE Leaves(j, "release")
    BY <1>1, <1>2, <1>3, <2>1, <2>2, WorkGoesOn
  <2>3. CASE ~Leaves(j, "release")
    <3>1. PICK n : n = IF limited THEN job[j].polls + 1 ELSE 0
      OBVIOUS
    <3>2. job' = [job EXCEPT ![j].polls = n] /\ (limited => job[j].polls + 1 < Max429)
      <4>1. ~(limited /\ job[j].polls + 1 >= Max429) /\ job' = [job EXCEPT ![j].polls = n]
        BY <1>7, <2>3, <3>1 DEF PollAgain
      <4>2. job[j].polls \in 0..Max429
        BY <1>1 DEF JobType
      <4> QED
        BY <4>1, <4>2, QuotaConstants
    <3>3. n \in 0..Max429
      <4>1. job[j].polls \in 0..Max429
        BY <1>1 DEF JobType
      <4> QED
        BY <4>1, <3>1, <3>2, QuotaConstants
    <3> QED
      BY <1>1, <1>2, <1>3, <2>1, <3>2, <3>3, WorkGoesOn
  <2> QED
    BY <2>2, <2>3
<1>8. ASSUME NEW ok \in BOOLEAN, SongStep(j, ok) PROVE QuotaInv'
  <2>1. /\ job[j].pc = "song" /\ UNCHANGED <<day, usage, kept, bound, cool>> /\ generating' = FALSE
        /\ (Leaves(j, "stage") \/ Leaves(j, "release"))
    BY <1>8 DEF SongStep
  <2> QED
    BY <1>1, <1>2, <1>3, <2>1, WorkGoesOn
<1> QED
  BY <1>4, <1>5, <1>6, <1>7, <1>8

-----------------------------------------------------------------------------
(* The invariant and the theorems.                                         *)

LEMMA QuotaStarts ==
    ASSUME IsFiniteSet(Jobs), QuotaInit
    PROVE  QuotaInv
<1>1. /\ day = 0 /\ usage = [kind \in Media |-> NoUse] /\ kept = [kind \in Media |-> 0]
      /\ job = [j \in Jobs |-> NoJob] /\ bound \in Backends /\ cool = {} /\ generating = FALSE
  BY DEF QuotaInit
<1>2. -1 \in -1..LastDay /\ LastDay \in Nat /\ 0 \in 0..LastDay
  BY QuotaConstants
<1>3. NoUse \in UseType /\ NoUse.period = -1
  BY <1>2 DEF NoUse, UseType
<1>4. NoJob \in JobType /\ NoJob.pc = "idle" /\ NoJob.period = -1 /\ NoJob.kind \notin Media
  BY <1>2, QuotaConstants DEF NoJob, JobType, JobPcs, Media
<1>5. QuotaTypeOK
  <2>1. job \in [Jobs -> JobType] /\ usage \in [Media -> UseType] /\ kept \in [Media -> Nat]
    BY <1>1, <1>3, <1>4
  <2> QED
    BY <2>1, <1>1, <1>2 DEF QuotaTypeOK, JobType, JobPcs, UseType
<1>6. ASSUME NEW kind \in Media PROVE Period(kind) \in 0..LastDay /\ StillHeld(kind) = {}
  <2>1. Period(kind) \in 0..LastDay
    BY <1>5, Periods
  <2>2. \A j \in Jobs : job[j].kind # kind
    BY <1>1, <1>4
  <2> QED
    BY <2>1, <2>2 DEF StillHeld
<1>7. Dated
  <2>1. ASSUME NEW j \in Jobs PROVE JobDated(job[j])
    BY <1>1, <1>4 DEF JobDated
  <2>2. ASSUME NEW kind \in Media PROVE usage[kind].period <= Period(kind)
    BY <1>1, <1>2, <1>3, <1>6
  <2> QED
    BY <2>1, <2>2 DEF Dated
<1>8. ASSUME NEW kind \in Media
      PROVE  /\ UsedCount(kind) = kept[kind] + Cardinality(StillHeld(kind))
             /\ UsedCount(kind) <= Limit[kind]
  <2>1. UsedCount(kind) = 0
    BY <1>1, <1>2, <1>3, <1>6 DEF UsedCount
  <2>2. Cardinality(StillHeld(kind)) = 0
    BY <1>6, FS_EmptySet
  <2> QED
    BY <2>1, <2>2, <1>1, QuotaConstants
<1> QED
  BY <1>5, <1>7, <1>8 DEF QuotaInv, QuotaExact

LEMMA QuotaSteps ==
    ASSUME IsFiniteSet(Jobs), QuotaInv, [QuotaNext]_quotaVars
    PROVE  QuotaInv'
<1>1. CASE UNCHANGED quotaVars
  BY <1>1 DEF quotaVars, QuotaInv, QuotaTypeOK, Dated, JobDated, QuotaExact, UsedCount, StillHeld, Period, PeriodKey
<1>2. CASE RollOver
  BY <1>2, RollOverKeeps
<1>3. CASE QuotaCrash
  BY <1>3, CrashKeeps
<1>4. ASSUME NEW b \in Backends, CooldownEnds(b) PROVE QuotaInv'
  <2>1. cool' \subseteq Backends /\ UNCHANGED <<day, usage, kept, job, bound, generating>>
    BY <1>4 DEF CooldownEnds, QuotaInv, QuotaTypeOK
  <2> QED
    BY <2>1 DEF QuotaInv, QuotaTypeOK, Dated, JobDated, QuotaExact, UsedCount, StillHeld, Period, PeriodKey
<1>5. ASSUME NEW j \in Jobs,
             \/ GenerateVideo(j) \/ MusicCreator(j) \/ Reserve(j) \/ ReserveThrows(j) \/ ImageUnavailable(j)
             \/ \E outcome \in Codes \cup {"ok", "ABORT"} : ImageAttempt(j, outcome)
             \/ \E b \in BOOLEAN : \/ GenerateImage(j, b) \/ VideoStep(j, b) \/ PollAgain(j, b)
                                   \/ SongStep(j, b) \/ StageAndCommit(j, b) \/ ReleaseHandle(j, b)
      PROVE  QuotaInv'
  <2>1. CASE \/ GenerateVideo(j) \/ MusicCreator(j) \/ ReserveThrows(j)
             \/ \E refs \in BOOLEAN : GenerateImage(j, refs)
    BY <2>1, StartKeeps
  <2>2. CASE \/ ImageUnavailable(j)
             \/ \E outcome \in Codes \cup {"ok", "ABORT"} : ImageAttempt(j, outcome)
             \/ \E ok \in BOOLEAN : VideoStep(j, ok) \/ PollAgain(j, ok) \/ SongStep(j, ok)
    BY <2>2, WorkKeeps
  <2>3. CASE Reserve(j)
    BY <2>3, ReserveKeeps
  <2>4. CASE \E b \in BOOLEAN : StageAndCommit(j, b) \/ ReleaseHandle(j, b)
    BY <2>4, StageKeeps, ReleaseKeeps
  <2> QED
    BY <1>5, <2>1, <2>2, <2>3, <2>4
<1> QED
  BY <1>1, <1>2, <1>3, <1>4, <1>5 DEF QuotaNext

\* The accounts keep their types: no job is polled past the limit of 429
\* answers, and no more days are recorded than the clock may show
\* (utils/mediaUsageLimits.js, tools/imagineGenerator.js).
THEOREM QuotaTyped == QuotaSpec => []QuotaTypeOK
<1>1. QuotaInit => QuotaInv
  BY QuotaStarts, QuotaConstants
<1>2. QuotaInv /\ [QuotaNext]_quotaVars => QuotaInv'
  BY QuotaSteps, QuotaConstants
<1>3. QuotaInv => QuotaTypeOK
  BY DEF QuotaInv
<1> QED
  BY <1>1, <1>2, <1>3, PTL DEF QuotaSpec

\* What the state file says is used is what the period has given out, and
\* never more than the limit: reservations, commits and refunds of any number
\* of jobs may cross the resets and the deaths of the process in any order
\* (reserveMediaQuota and refundMediaQuota, utils/mediaUsageLimits.js).
THEOREM QuotaHonest == QuotaSpec => []QuotaExact
<1>1. QuotaInit => QuotaInv
  BY QuotaStarts, QuotaConstants
<1>2. QuotaInv /\ [QuotaNext]_quotaVars => QuotaInv'
  BY QuotaSteps, QuotaConstants
<1>3. QuotaInv => QuotaExact
  BY DEF QuotaInv
<1> QED
  BY <1>1, <1>2, <1>3, PTL DEF QuotaSpec

(***************************************************************************)
(* CredentialRing.  What this process has marked spent in this period, the *)
(* latest state says is spent, whether that is the file's or the one that  *)
(* a failed write left in memory; and the list offered leaves those out.   *)
(***************************************************************************)
RingCall == [pc : {"idle", "xai", "send", "works", "spent", "next", "edge"}, todo : Seq(Creds),
             tried : SUBSET Creds, recoded : BOOLEAN, stt : BOOLEAN]
RingState == [active : 0..Pool, stamp : [Creds -> -1..LastPeriod], here : BOOLEAN]

\* A call on its way down the ring has a credential at the head.
CallFine(r) == r \in RingCall /\ (r.pc \in {"send", "works", "spent", "next"} => r.todo # <<>>)

RingTyped ==
    /\ service \in {"cloudflare", "cartesia"} /\ period \in 0..LastPeriod
    /\ saved \in RingState /\ unsaved \in RingState
    /\ rcall \in [Calls -> RingCall] /\ \A k \in Calls : CallFine(rcall[k])

RingInv == RingTyped /\ proved \subseteq SpentNow(Load)

LEMMA RingNumbers == Pool \in Nat /\ LastPeriod \in Nat /\ -1 \in -1..LastPeriod /\ 0 \in 0..Pool /\ 0 \notin Creds
BY RingConstants DEF Creds

LEMMA NothingIs ==
    /\ NoState \in RingState /\ NoState.here = FALSE
    /\ CallFine(NoRingCall) /\ NoRingCall.pc = "idle"
<1>1. [c \in Creds |-> -1] \in [Creds -> -1..LastPeriod]
  BY RingNumbers
<1>2. <<>> \in Seq(Creds)
  OBVIOUS
<1> QED
  BY <1>1, <1>2, RingNumbers DEF NoState, NoRingCall, RingState, RingCall, CallFine

LEMMA RingStarts == RingInit => RingInv
<1> SUFFICES ASSUME RingInit PROVE RingInv
  OBVIOUS
<1>1. /\ service \in {"cloudflare", "cartesia"} /\ period = 0 /\ saved = NoState /\ unsaved = NoState
      /\ rcall = [k \in Calls |-> NoRingCall] /\ proved = {}
  BY DEF RingInit
<1>2. \A k \in Calls : CallFine(rcall[k])
  BY <1>1, NothingIs
<1>3. rcall \in [Calls -> RingCall]
  BY <1>1, NothingIs DEF CallFine
<1>4. period \in 0..LastPeriod
  BY <1>1, RingNumbers
<1> QED
  BY <1>1, <1>2, <1>3, <1>4, NothingIs DEF RingInv, RingTyped

LEMMA LoadIs == RingTyped => Load \in RingState /\ SpentNow(Load) \subseteq Creds
BY DEF RingTyped, Load, SpentNow

LEMMA UsableIs ==
    ASSUME RingTyped
    PROVE  /\ Usable \in Seq(Creds) /\ \A i \in 1..Len(Usable) : Usable[i] \notin SpentNow(Load)
           /\ FirstOf(Usable) \in Seq(Creds)
<1> DEFINE all == [c \in Creds |-> c]
           eligible == Filtered(all, Creds \ SpentNow(Load))
           a == Load.active
           rest == Filtered(eligible, Creds \ {a})
<1>1. all \in Seq(Creds)
  BY RingNumbers DEF Creds
<1>2. eligible \in Seq(Creds) /\ \A i \in 1..Len(eligible) : eligible[i] \in Creds \ SpentNow(Load)
  <2> HIDE DEF all
  <2> QED
    BY <1>1, KeptDrawn
<1>3. /\ rest \in Seq(Creds)
      /\ \A j \in 1..Len(rest) : \E i \in 1..Len(eligible) : rest[j] = eligible[i]
  <2> HIDE DEF eligible, a
  <2>1. rest \in Seq(Creds) /\ DrawnFrom(rest, eligible, Len(eligible))
    BY <1>2, KeptDrawn
  <2> QED
    BY <2>1 DEF DrawnFrom
<1>4. Usable = IF a \in Creds \ SpentNow(Load) THEN <<a>> \o rest ELSE eligible
  BY DEF Usable
<1> HIDE DEF all, eligible, rest
<1>5. \A j \in 1..Len(rest) : rest[j] \in Creds \ SpentNow(Load)
  BY <1>2, <1>3
<1>6. Usable \in Seq(Creds) /\ \A i \in 1..Len(Usable) : Usable[i] \notin SpentNow(Load)
  <2>1. CASE a \in Creds \ SpentNow(Load)
    <3> DEFINE one == <<a>>
    <3>1. one \in Seq(Creds) /\ Len(one) = 1 /\ one[1] = a
      BY <2>1
    <3> HIDE DEF one
    <3>2. /\ one \o rest \in Seq(Creds) /\ Len(one \o rest) = 1 + Len(rest) /\ Len(rest) \in Nat
          /\ (one \o rest)[1] = a /\ \A i \in 2..Len(rest) + 1 : (one \o rest)[i] = rest[i - 1]
      <4>1. /\ one \o rest \in Seq(Creds) /\ Len(one \o rest) = Len(one) + Len(rest)
            /\ \A i \in 1..Len(one) + Len(rest) :
                  (one \o rest)[i] = IF i <= Len(one) THEN one[i] ELSE rest[i - Len(one)]
        BY <1>3, <3>1, ConcatProperties, Zenon
      <4>2. Len(rest) \in Nat
        BY <1>3
      <4>3. (one \o rest)[1] = a
        BY <3>1, <4>1, <4>2
      <4>4. \A i \in 2..Len(rest) + 1 : (one \o rest)[i] = rest[i - 1]
        BY <3>1, <4>1, <4>2
      <4> QED
        BY <3>1, <4>1, <4>2, <4>3, <4>4
    <3>3. ASSUME NEW i \in 1..Len(one \o rest) PROVE (one \o rest)[i] \notin SpentNow(Load)
      <4>1. CASE i = 1
        BY <2>1, <3>2, <4>1
      <4>2. CASE i # 1
        <5>1. i \in 2..Len(rest) + 1 /\ i - 1 \in 1..Len(rest)
          BY <3>2, <4>2
        <5> QED
          BY <1>5, <3>2, <5>1
      <4> QED
        BY <4>1, <4>2
    <3> QED
      BY <1>4, <2>1, <3>2, <3>3 DEF one
  <2>2. CASE ~(a \in Creds \ SpentNow(Load))
    BY <1>2, <1>4, <2>2
  <2> QED
    BY <2>1, <2>2
<1>7. FirstOf(Usable) \in Seq(Creds)
  <2> HIDE DEF a
  <2>1. CASE Usable = <<>>
    BY <1>6, <2>1 DEF FirstOf
  <2>2. CASE Usable # <<>>
    <3>1. Head(Usable) \in Creds
      BY <1>6, <2>2
    <3> QED
      BY <2>2, <3>1 DEF FirstOf
  <2> QED
    BY <2>1, <2>2
<1> QED
  BY <1>6, <1>7

\* A call moves; the state stays.
LEMMA RingCallMoves ==
    ASSUME RingInv, NEW k \in Calls, NEW r, CallFine(r), rcall' = [rcall EXCEPT ![k] = r],
           UNCHANGED <<service, period, saved, unsaved, proved>>
    PROVE  RingInv'
<1>1. r \in RingCall /\ \A j \in Calls : rcall'[j] = IF j = k THEN r ELSE rcall[j]
  BY DEF RingInv, RingTyped, CallFine
<1>2. rcall' \in [Calls -> RingCall] /\ \A j \in Calls : CallFine(rcall'[j])
  BY <1>1 DEF RingInv, RingTyped
<1>3. SpentNow(Load)' = SpentNow(Load)
  BY DEF SpentNow, Load
<1> QED
  BY <1>2, <1>3 DEF RingInv, RingTyped

LEMMA AtIs ==
    ASSUME NEW r, CallFine(r), NEW list \in Seq(Creds)
    PROVE  CallFine(At(r, list)) /\ CallFine(Ended(At(r, list)))
           /\ \A b \in BOOLEAN : CallFine(Ended([At(r, list) EXCEPT !.stt = b]))
                              /\ CallFine(Ended([At(r, list) EXCEPT !.recoded = b]))
<1> DEFINE pc == IF list # <<>> THEN "send" ELSE IF service = "cartesia" THEN "edge" ELSE "idle"
           x == At(r, list)
<1>1. x = [r EXCEPT !.todo = list, !.pc = pc]
  BY DEF At
<1>2. r \in RingCall
  BY DEF CallFine
<1>3. /\ pc \in {"send", "edge", "idle"} /\ (pc = "send" <=> list # <<>>)
  OBVIOUS
<1> HIDE DEF pc
<1>4. x \in RingCall /\ x.pc = pc /\ x.todo = list
  BY <1>1, <1>2, <1>3 DEF RingCall
<1> HIDE DEF x
<1>5. CallFine(x) /\ CallFine(Ended(x))
  BY <1>3, <1>4, NothingIs DEF CallFine, Ended
<1>6. ASSUME NEW b \in BOOLEAN
      PROVE  CallFine(Ended([x EXCEPT !.stt = b])) /\ CallFine(Ended([x EXCEPT !.recoded = b]))
  <2> DEFINE y == [x EXCEPT !.stt = b]
             z == [x EXCEPT !.recoded = b]
  <2>1. y \in RingCall /\ y.pc = pc /\ y.todo = list /\ z \in RingCall /\ z.pc = pc /\ z.todo = list
    BY <1>4 DEF RingCall
  <2> HIDE DEF y, z
  <2>2. CallFine(y) /\ CallFine(z)
    BY <1>3, <2>1 DEF CallFine
  <2>3. CallFine(Ended(y)) /\ CallFine(Ended(z))
    BY <2>2, NothingIs DEF Ended
  <2> QED
    BY <2>3 DEF y, z
<1> QED
  BY <1>5, <1>6 DEF x

LEMMA WalkIs == RingTyped => Walk \in Seq(Creds)
BY UsableIs DEF Walk

LEMMA StartRingCallKeeps ==
    ASSUME RingInv, NEW k \in Calls,
           StartRingCall(k) \/ \E falls \in BOOLEAN : XaiTranscribes(k, falls)
    PROVE  RingInv'
<1>1. Walk \in Seq(Creds) /\ CallFine(rcall[k])
  BY WalkIs DEF RingInv, RingTyped
<1>2. UNCHANGED <<service, period, saved, unsaved, proved>>
  BY DEF StartRingCall, XaiTranscribes
<1> DEFINE voice == [NoRingCall EXCEPT !.pc = "xai", !.stt = TRUE]
<1>3. CallFine(voice)
  BY NothingIs DEF NoRingCall, RingCall, CallFine
<1>4. \/ rcall' = [rcall EXCEPT ![k] = Ended(At(NoRingCall, Walk))]
      \/ rcall' = [rcall EXCEPT ![k] = voice]
      \/ rcall' = [rcall EXCEPT ![k] = Ended([At(NoRingCall, Walk) EXCEPT !.stt = TRUE])]
      \/ rcall' = [rcall EXCEPT ![k] = Ended(At(rcall[k], Walk))]
      \/ rcall' = [rcall EXCEPT ![k] = NoRingCall]
  BY DEF StartRingCall, XaiTranscribes
<1> HIDE DEF voice
<1>5. /\ CallFine(Ended(At(NoRingCall, Walk))) /\ CallFine(Ended([At(NoRingCall, Walk) EXCEPT !.stt = TRUE]))
      /\ CallFine(Ended(At(rcall[k], Walk))) /\ CallFine(NoRingCall)
  BY <1>1, AtIs, NothingIs
<1>6. \E r : CallFine(r) /\ rcall' = [rcall EXCEPT ![k] = r]
  BY <1>3, <1>4, <1>5
<1> QED
  BY <1>2, <1>6, RingCallMoves

LEMMA AnsweredKeeps ==
    ASSUME RingInv, NEW k \in Calls, NEW answer, Answered(k, answer)
    PROVE  RingInv'
<1>1. Walk \in Seq(Creds) /\ CallFine(rcall[k]) /\ rcall[k].pc = "send" /\ rcall[k] \in RingCall
  BY WalkIs DEF RingInv, RingTyped, CallFine, Answered
<1>2. UNCHANGED <<service, period, saved, unsaved, proved>>
  BY DEF Answered
<1>3. rcall[k].todo # <<>> /\ rcall[k].todo \in Seq(Creds)
  BY <1>1 DEF CallFine, RingCall
<1>4. Head(rcall[k].todo) \in Creds
  BY <1>3
<1> DEFINE tried == IF service = "cartesia" THEN rcall[k].tried \cup {Head(rcall[k].todo)} ELSE rcall[k].tried
           told == [rcall[k] EXCEPT !.pc = answer, !.tried = tried]
           edge == [NoRingCall EXCEPT !.pc = "edge"]
<1>5. CallFine(edge)
  BY NothingIs DEF NoRingCall, RingCall, CallFine
<1>6. answer \in {"works", "spent"} => CallFine(told)
  <2> SUFFICES ASSUME answer \in {"works", "spent"} PROVE CallFine(told)
    OBVIOUS
  <2>1. tried \in SUBSET Creds
    BY <1>1, <1>4 DEF RingCall
  <2> HIDE DEF tried
  <2>2. told \in RingCall /\ told.todo = rcall[k].todo
    BY <1>1, <2>1 DEF RingCall
  <2> QED
    BY <1>3, <2>2 DEF CallFine
<1>7. \/ answer \in {"works", "spent"} /\ rcall' = [rcall EXCEPT ![k] = told]
      \/ rcall' = [rcall EXCEPT ![k] = Ended([At(rcall[k], Walk) EXCEPT !.recoded = TRUE])]
      \/ rcall' = [rcall EXCEPT ![k] = IF service = "cartesia" THEN edge ELSE NoRingCall]
  BY DEF Answered
<1> HIDE DEF told, edge
<1>8. CallFine(Ended([At(rcall[k], Walk) EXCEPT !.recoded = TRUE])) /\ CallFine(NoRingCall)
  BY <1>1, AtIs, NothingIs
<1>9. \E r : CallFine(r) /\ rcall' = [rcall EXCEPT ![k] = r]
  BY <1>5, <1>6, <1>7, <1>8
<1> QED
  BY <1>2, <1>9, RingCallMoves

\* What is saved, or kept because it could not be, is what is loaded next.
LEMMA SaveIs ==
    ASSUME RingInv, NEW state \in RingState, NEW ok \in BOOLEAN, Save(state, ok), period' = period
    PROVE  saved' \in RingState /\ unsaved' \in RingState /\ SpentNow(Load)' = SpentNow(state)
<1>1. CASE ok
  <2>1. saved' = state /\ unsaved' = NoState
    BY <1>1 DEF Save
  <2>2. Load' = state
    BY <2>1, NothingIs DEF Load
  <2> QED
    BY <2>1, <2>2, NothingIs DEF SpentNow
<1>2. CASE ~ok
  <2> DEFINE x == [state EXCEPT !.here = TRUE]
  <2>1. saved' = saved /\ unsaved' = x
    BY <1>2 DEF Save
  <2>2. x \in RingState /\ x.here = TRUE /\ x.stamp = state.stamp
    BY DEF RingState
  <2> HIDE DEF x
  <2>3. Load' = x
    BY <2>1, <2>2 DEF Load
  <2> QED
    BY <2>1, <2>2, <2>3 DEF SpentNow, RingInv, RingTyped
<1> QED
  BY <1>1, <1>2

LEMMA MarkWorkingKeeps ==
    ASSUME RingInv, NEW k \in Calls, NEW ok \in BOOLEAN, MarkWorking(k, ok)
    PROVE  RingInv'
<1>1. rcall[k] \in RingCall /\ rcall[k].todo # <<>> /\ Load \in RingState
  BY LoadIs DEF MarkWorking, RingInv, RingTyped, CallFine
<1>2. Head(rcall[k].todo) \in 0..Pool
  <2>1. rcall[k].todo \in Seq(Creds)
    BY <1>1 DEF RingCall
  <2>2. Head(rcall[k].todo) \in Creds
    BY <1>1, <2>1
  <2> QED
    BY <2>2, RingNumbers DEF Creds
<1> DEFINE c == Head(rcall[k].todo)
           state == [Load EXCEPT !.active = c]
<1>3. /\ rcall' = [rcall EXCEPT ![k] = NoRingCall] /\ UNCHANGED <<service, period, proved>>
      /\ UNCHANGED <<saved, unsaved>> \/ Save(state, ok)
  BY DEF MarkWorking
<1>4. state \in RingState /\ state.stamp = Load.stamp
  BY <1>1, <1>2 DEF RingState
<1> HIDE DEF state
<1>5. saved' \in RingState /\ unsaved' \in RingState /\ SpentNow(Load)' = SpentNow(Load)
  <2>1. CASE UNCHANGED <<saved, unsaved>>
    BY <1>3, <2>1 DEF RingInv, RingTyped, SpentNow, Load
  <2>2. CASE Save(state, ok)
    BY <1>3, <1>4, <2>2, SaveIs DEF SpentNow
  <2> QED
    BY <1>3, <2>1, <2>2
<1>6. rcall' \in [Calls -> RingCall] /\ \A j \in Calls : CallFine(rcall'[j])
  <2>1. \A j \in Calls : rcall'[j] = IF j = k THEN NoRingCall ELSE rcall[j]
    BY <1>3 DEF RingInv, RingTyped
  <2> QED
    BY <1>3, <2>1, NothingIs DEF RingInv, RingTyped, CallFine
<1> QED
  BY <1>3, <1>5, <1>6 DEF RingInv, RingTyped

LEMMA MarkExhaustedKeeps ==
    ASSUME RingInv, NEW k \in Calls, NEW ok \in BOOLEAN, MarkExhausted(k, ok)
    PROVE  RingInv'
<1> DEFINE c == Head(rcall[k].todo)
           r == [rcall[k] EXCEPT !.pc = "next"]
           stamps == [d \in Creds |-> IF d = c \/ d \in SpentNow(Load) THEN period ELSE -1]
           x == [Load EXCEPT !.active = IF @ = c THEN 0 ELSE @, !.stamp = stamps]
<1>1. /\ Save(x, ok) /\ proved' = proved \cup {c} /\ rcall' = [rcall EXCEPT ![k] = r]
      /\ UNCHANGED <<service, period>>
  BY DEF MarkExhausted, Exhausted
<1>2. rcall[k] \in RingCall /\ rcall[k].todo # <<>> /\ Load \in RingState /\ period \in 0..LastPeriod
  BY LoadIs DEF MarkExhausted, RingInv, RingTyped, CallFine
<1>3. c \in Creds
  BY <1>2 DEF RingCall
<1>4. CallFine(r)
  BY <1>2 DEF RingCall, CallFine
<1>5. x \in RingState /\ x.stamp = stamps
  <2>1. stamps \in [Creds -> -1..LastPeriod]
    BY <1>2, RingNumbers
  <2>2. (IF Load.active = c THEN 0 ELSE Load.active) \in 0..Pool
    BY <1>2, RingNumbers DEF RingState
  <2> HIDE DEF stamps, c
  <2> QED
    BY <1>2, <2>1, <2>2 DEF RingState
<1>6. SpentNow(Load) \cup {c} \subseteq SpentNow(x)
  <2>1. SpentNow(Load) \subseteq Creds
    BY LoadIs DEF RingInv
  <2> HIDE DEF c, x
  <2> QED
    BY <1>3, <1>5, <2>1 DEF SpentNow
<1> HIDE DEF c, r, x
<1>7. saved' \in RingState /\ unsaved' \in RingState /\ SpentNow(Load)' = SpentNow(x)
  BY <1>1, <1>5, SaveIs
<1>8. proved' \subseteq SpentNow(Load)'
  BY <1>1, <1>6, <1>7 DEF RingInv
<1>9. rcall' \in [Calls -> RingCall] /\ \A j \in Calls : CallFine(rcall'[j])
  <2>1. \A j \in Calls : rcall'[j] = IF j = k THEN r ELSE rcall[j]
    BY <1>1 DEF RingInv, RingTyped
  <2> QED
    BY <1>1, <1>4, <2>1 DEF RingInv, RingTyped, CallFine
<1> QED
  BY <1>1, <1>7, <1>8, <1>9 DEF RingInv, RingTyped

LEMMA NextCredentialKeeps ==
    ASSUME RingInv, NEW k \in Calls, NextCredential(k) \/ EdgeSpeaks(k)
    PROVE  RingInv'
<1>1. UNCHANGED <<service, period, saved, unsaved, proved>>
  BY DEF NextCredential, EdgeSpeaks
<1>2. CallFine(rcall[k]) /\ rcall[k] \in RingCall /\ rcall[k].todo \in Seq(Creds)
  BY DEF RingInv, RingTyped, CallFine, RingCall
<1>3. CASE NextCredential(k)
  <2> DEFINE list == IF service = "cloudflare" THEN NextAccount(k) ELSE NextKey(k)
  <2>1. rcall' = [rcall EXCEPT ![k] = Ended(At(rcall[k], list))] /\ rcall[k].todo # <<>>
    BY <1>2, <1>3 DEF NextCredential, CallFine
  <2>2. NextAccount(k) \in Seq(Creds)
    BY <1>2, <2>1 DEF NextAccount
  <2>3. NextKey(k) \in Seq(Creds)
    BY UsableIs, KeptDrawn DEF NextKey, RingInv
  <2>4. CallFine(Ended(At(rcall[k], list)))
    BY <1>2, <2>2, <2>3, AtIs
  <2> QED
    BY <1>1, <2>1, <2>4, RingCallMoves
<1>4. CASE EdgeSpeaks(k)
  BY <1>1, <1>4, NothingIs, RingCallMoves DEF EdgeSpeaks
<1> QED
  BY <1>3, <1>4

LEMMA RingSteps == RingInv /\ [RingNext]_ringVars => RingInv'
<1> SUFFICES ASSUME RingInv, [RingNext]_ringVars PROVE RingInv'
  OBVIOUS
<1>1. CASE NewPeriod
  <2>1. period' \in 0..LastPeriod /\ proved' = {} /\ UNCHANGED <<service, saved, unsaved, rcall>>
    BY <1>1, RingNumbers DEF NewPeriod, RingInv, RingTyped
  <2> QED
    BY <2>1 DEF RingInv, RingTyped
<1>2. CASE RingRestarts
  <2>1. /\ unsaved' = NoState /\ proved' = {} /\ rcall' = [k \in Calls |-> NoRingCall]
        /\ UNCHANGED <<service, period, saved>>
    BY <1>2 DEF RingRestarts
  <2>2. rcall' \in [Calls -> RingCall] /\ \A k \in Calls : CallFine(rcall'[k])
    BY <2>1, NothingIs DEF CallFine
  <2> QED
    BY <2>1, <2>2, NothingIs DEF RingInv, RingTyped
<1>3. ASSUME NEW k \in Calls,
             \/ StartRingCall(k) \/ NextCredential(k) \/ EdgeSpeaks(k)
             \/ \E code \in AnswerCodes : Answered(k, AnswerOf(code))
             \/ \E b \in BOOLEAN : XaiTranscribes(k, b) \/ MarkWorking(k, b) \/ MarkExhausted(k, b)
      PROVE  RingInv'
  BY <1>3, StartRingCallKeeps, NextCredentialKeeps, AnsweredKeeps, MarkWorkingKeeps, MarkExhaustedKeeps
<1>4. CASE UNCHANGED ringVars
  <2>1. SpentNow(Load)' = SpentNow(Load)
    BY <1>4 DEF ringVars, SpentNow, Load
  <2> QED
    BY <1>4, <2>1 DEF ringVars, RingInv, RingTyped
<1> QED
  BY <1>1, <1>2, <1>3, <1>4 DEF RingNext

LEMMA RingInvHolds == RingInv => RingTypeOK /\ RingRemembers
<1> SUFFICES ASSUME RingInv PROVE RingTypeOK /\ RingRemembers
  OBVIOUS
<1>1. RingRemembers
  BY UsableIs DEF RingInv, RingRemembers
<1>2. ASSUME NEW k \in Calls
      PROVE  /\ rcall[k].pc \in {"idle", "xai", "send", "works", "spent", "next", "edge"}
             /\ rcall[k].tried \subseteq Creds /\ rcall[k].recoded \in BOOLEAN /\ rcall[k].stt \in BOOLEAN
             /\ \A i \in 1..Len(rcall[k].todo) : rcall[k].todo[i] \in Creds
  <2>1. rcall[k] \in RingCall
    BY DEF RingInv, RingTyped
  <2>2. /\ rcall[k].pc \in {"idle", "xai", "send", "works", "spent", "next", "edge"}
        /\ rcall[k].tried \subseteq Creds /\ rcall[k].recoded \in BOOLEAN /\ rcall[k].stt \in BOOLEAN
        /\ rcall[k].todo \in Seq(Creds)
    BY <2>1 DEF RingCall
  <2>3. \A i \in 1..Len(rcall[k].todo) : rcall[k].todo[i] \in Creds
    BY <2>2
  <2> QED
    BY <2>2, <2>3
<1>3. proved \subseteq Creds
  BY LoadIs DEF RingInv
<1>4. /\ service \in {"cloudflare", "cartesia"} /\ period \in 0..LastPeriod
      /\ {saved, unsaved} \subseteq [active : 0..Pool, stamp : [Creds -> -1..LastPeriod], here : BOOLEAN]
  BY DEF RingInv, RingTyped, RingState
<1> QED
  BY <1>1, <1>2, <1>3, <1>4 DEF RingTypeOK

LEMMA RingInvariant == RingInit /\ [][RingNext]_ringVars => []RingInv
BY RingStarts, RingSteps, PTL

\* A credential found spent is not offered again in the period, whatever
\* becomes of the writes that should have recorded it: for every pool and any
\* number of calls (utils/credentialRing.js).
THEOREM SpentIsNotOffered == RingSpec => []RingRemembers
<1>1. RingInv => RingRemembers
  BY RingInvHolds
<1> QED
  BY <1>1, RingInvariant, PTL DEF RingSpec

(***************************************************************************)
(* Minecraft, when no start script outlives its grace.  Between the agent's *)
(* look at a stopped server and its script nothing else can start one, and *)
(* once a shutdown has stopped it only a start under way, which is then    *)
(* counted as an overlap, brings one back before the PC is told to go off. *)
(***************************************************************************)
OpRecord == [kind : {"none", "start", "shutdown"}, phase : {"none", "waking", "starting"},
             pc : {"none", "read", "wake", "look", "launch"}, launched : BOOLEAN]
HandlerSteps == {"none", "probe", "launch", "again", "stop", "wait", "off"}

HostTyped ==
    /\ power \in {"off", "booting", "on", "closing"}
    /\ java \in {"none", "loading", "up", "saving"} /\ scripts \in 0..MaxLaunches
    /\ spawned \in BOOLEAN /\ halting \in BOOLEAN /\ overlapped \in BOOLEAN
    /\ handler \in [Handlers -> HandlerSteps]
    /\ launches \in 0..MaxLaunches /\ powerOffs \in 0..MaxPowerOffs

HostFine == scripts > 0 => spawned = TRUE /\ java = "none" /\ scripts = 1
Idle == java = "none" /\ scripts = 0

\* How far the handlers of a start and of a shutdown may be.
StepFine(h, step) ==
    /\ h = "start" => step \in {"none", "probe", "launch"} /\ (step = "launch" => Idle)
    /\ h = "shutdown" /\ ~overlapped => (step = "wait" => scripts = 0) /\ (step = "off" => Idle)

ServerInv ==
    /\ HostTyped /\ HostFine
    /\ StepFine("start", handler["start"]) /\ StepFine("shutdown", handler["shutdown"])
    /\ power = "closing" /\ ~overlapped => Idle

ProgressInv ==
    /\ op \in OpRecord /\ waiting \subseteq Askers /\ informed \in [Askers -> {"none", "waking", "starting"}]
    /\ SameProgress

MinecraftInv == ServerInv /\ ProgressInv

LEMMA HandlersApart ==
    /\ "start" \in Handlers /\ "shutdown" \in Handlers /\ Askers \subseteq Handlers
    /\ "start" \notin Askers /\ "shutdown" \notin Askers
BY MinecraftConstants DEF Handlers

LEMMA MinecraftHolds == MinecraftInv => MinecraftTypeOK /\ StartedOnce /\ SameProgress /\ WorldIsSaved
<1> SUFFICES ASSUME MinecraftInv PROVE MinecraftTypeOK /\ StartedOnce /\ SameProgress /\ WorldIsSaved
  OBVIOUS
<1>1. MinecraftTypeOK
  BY DEF MinecraftInv, ServerInv, ProgressInv, HostTyped, MinecraftTypeOK, OpRecord, HandlerSteps
<1>2. StartedOnce
  BY MinecraftConstants DEF MinecraftInv, ServerInv, HostTyped, HostFine, StartedOnce
<1> QED
  BY <1>1, <1>2 DEF MinecraftInv, ServerInv, ProgressInv, WorldIsSaved, Idle

LEMMA MinecraftStarts == MinecraftInit => MinecraftInv
<1> SUFFICES ASSUME MinecraftInit PROVE MinecraftInv
  OBVIOUS
<1>1. HostTyped /\ handler["start"] = "none" /\ handler["shutdown"] = "none"
  <2>1. spawned \in BOOLEAN /\ halting \in BOOLEAN /\ overlapped \in BOOLEAN
    BY Zenon DEF MinecraftInit
  <2>2. /\ handler \in [Handlers -> HandlerSteps] /\ handler["start"] = "none" /\ handler["shutdown"] = "none"
    BY HandlersApart DEF MinecraftInit, HandlerSteps
  <2>3. /\ scripts \in 0..MaxLaunches /\ launches \in 0..MaxLaunches /\ powerOffs \in 0..MaxPowerOffs
    BY MinecraftConstants DEF MinecraftInit
  <2> QED
    BY <2>1, <2>2, <2>3 DEF MinecraftInit, HostTyped
<1>2. ServerInv
  BY <1>1 DEF MinecraftInit, ServerInv, HostFine, StepFine
<1>3. ProgressInv
  BY DEF MinecraftInit, ProgressInv, SameProgress, NoOp, OpRecord
<1> QED
  BY <1>2, <1>3 DEF MinecraftInv

\* What may become of the operation and of those who wait for it.
ProgressMove ==
    \/ Settle
    \/ \E phase \in {"waking", "starting"}, pc \in {"wake", "look"} : Emit(phase, pc)
    \/ /\ UNCHANGED <<waiting, informed>>
       /\ op' \in OpRecord /\ (op.kind = "start" => op'.kind = op.kind /\ op'.phase = op.phase)
    \/ \E c \in Askers : AskStart(c) \/ StopWaiting(c)

LEMMA ProgressKeeps == ProgressInv /\ ProgressMove => ProgressInv'
<1> SUFFICES ASSUME ProgressInv, ProgressMove PROVE ProgressInv'
  OBVIOUS
<1> USE DEF ProgressInv, SameProgress
<1>1. CASE Settle
  BY <1>1 DEF Settle, NoOp, OpRecord
<1>2. ASSUME NEW phase \in {"waking", "starting"}, NEW pc \in {"wake", "look"}, Emit(phase, pc)
      PROVE  ProgressInv'
  <2>1. op' \in OpRecord /\ op'.kind = op.kind /\ op'.phase = phase
    BY <1>2 DEF Emit, OpRecord
  <2>2. /\ waiting' = waiting /\ informed' \in [Askers -> {"none", "waking", "starting"}]
        /\ \A c \in waiting : informed'[c] = phase
    BY <1>2 DEF Emit
  <2> QED
    BY <2>1, <2>2
<1>3. CASE /\ UNCHANGED <<waiting, informed>>
           /\ op' \in OpRecord /\ (op.kind = "start" => op'.kind = op.kind /\ op'.phase = op.phase)
  BY <1>3
<1>4. ASSUME NEW c \in Askers, AskStart(c) PROVE ProgressInv'
  <2>1. op' \in OpRecord /\ op'.kind = "start" /\ (waiting # {} => op' = op)
    BY <1>4 DEF AskStart, NoOp, OpRecord
  <2>2. /\ waiting' = waiting \cup {c} /\ informed' = [informed EXCEPT ![c] = op'.phase]
        /\ op'.phase \in {"none", "waking", "starting"}
    BY <1>4, <2>1 DEF AskStart, OpRecord
  <2> QED
    BY <2>1, <2>2
<1>5. ASSUME NEW c \in Askers, StopWaiting(c) PROVE ProgressInv'
  BY <1>5 DEF StopWaiting
<1> QED
  BY <1>1, <1>2, <1>3, <1>4, <1>5 DEF ProgressMove

LEMMA HandlerMoves ==
    ASSUME HostTyped, NEW h \in Handlers, NEW step \in HandlerSteps, Now(h, step)
    PROVE  /\ handler' \in [Handlers -> HandlerSteps]
           /\ handler'["start"] = IF h = "start" THEN step ELSE handler["start"]
           /\ handler'["shutdown"] = IF h = "shutdown" THEN step ELSE handler["shutdown"]
BY HandlersApart DEF HostTyped, Now

\* A step of a handler, or none, that leaves the server as it is.
HandlerStep ==
    /\ UNCHANGED <<power, java, scripts, launches, overlapped>>
    /\ UNCHANGED spawned \/ Looked
    /\ halting' \in BOOLEAN /\ powerOffs' \in 0..MaxPowerOffs
    /\ \/ UNCHANGED handler
       \/ \E h \in Handlers, step \in HandlerSteps : Now(h, step) /\ StepFine(h, step)

LEMMA HandlerStepKeeps == ServerInv /\ HandlerStep => ServerInv'
<1> SUFFICES ASSUME ServerInv, HandlerStep PROVE ServerInv'
  OBVIOUS
<1>1. /\ handler' \in [Handlers -> HandlerSteps]
      /\ StepFine("start", handler'["start"]) /\ StepFine("shutdown", handler'["shutdown"])
  <2>1. CASE UNCHANGED handler
    BY <2>1 DEF ServerInv, HostTyped
  <2>2. ASSUME NEW h \in Handlers, NEW step \in HandlerSteps, Now(h, step), StepFine(h, step)
        PROVE  /\ handler' \in [Handlers -> HandlerSteps]
               /\ StepFine("start", handler'["start"]) /\ StepFine("shutdown", handler'["shutdown"])
    BY <2>2, HandlerMoves DEF ServerInv
  <2> QED
    BY <2>1, <2>2 DEF HandlerStep
<1>2. spawned' \in BOOLEAN /\ (scripts > 0 => spawned' = TRUE)
  <2>1. CASE UNCHANGED spawned
    BY <2>1 DEF ServerInv, HostTyped, HostFine
  <2>2. CASE Looked
    <3>1. spawned' \in BOOLEAN
      BY <2>2 DEF Looked
    <3>2. ASSUME scripts > 0 PROVE spawned' = TRUE
      <4>1. spawned = TRUE /\ java = "none"
        BY <3>2 DEF ServerInv, HostFine
      <4>2. spawned /\ java \in {"none", "loading"}
        BY <4>1, Zenon
      <4> QED
        BY <2>2, <4>2, Zenon DEF Looked
    <3> QED
      BY <3>1, <3>2
  <2> QED
    BY <2>1, <2>2 DEF HandlerStep
<1>3. UNCHANGED <<power, java, scripts, launches, overlapped>> /\ halting' \in BOOLEAN /\ powerOffs' \in 0..MaxPowerOffs
  BY DEF HandlerStep
<1> QED
  BY <1>1, <1>2, <1>3 DEF ServerInv, HostTyped, HostFine, StepFine, Idle

\* A step of the PC or of the server, which no handler takes.
ServerStep ==
    /\ UNCHANGED <<halting, handler, launches, powerOffs, overlapped>>
    /\ power' \in {"off", "booting", "on", "closing"} /\ (power' = "closing" => power = "closing")
    /\ java' \in {"none", "loading", "up", "saving"} /\ scripts' \in 0..MaxLaunches /\ spawned' \in BOOLEAN
    /\ Idle => Idle'
    /\ scripts = 0 => scripts' = 0
    /\ HostFine'

LEMMA ServerStepKeeps == ServerInv /\ ServerStep => ServerInv'
BY DEF ServerInv, ServerStep, HostTyped, StepFine

LEMMA ServerKeepsItself ==
    ASSUME ServerInv, ~SlowScripts,
           \/ SendPacket \/ GraceOver \/ ServerMoves \/ ServerCrashes \/ PcBoots
           \/ \E ok \in BOOLEAN : ScriptEnds(ok)
    PROVE  ServerInv'
<1> USE DEF ServerInv, ServerStep, HostTyped, HostFine, Idle
<1>1. CASE SendPacket \/ PcBoots
  BY <1>1, ServerStepKeeps DEF SendPacket, PcBoots, bounds
<1>2. CASE GraceOver
  <2>1. scripts = 0 /\ spawned' \in BOOLEAN
    BY <1>2, Zenon DEF GraceOver
  <2>2. UNCHANGED <<power, java, scripts, halting, handler, launches, powerOffs, overlapped>>
    BY <1>2 DEF GraceOver, bounds, hostVars
  <2> QED
    BY <2>1, <2>2, ServerStepKeeps
<1>3. CASE ServerMoves \/ ServerCrashes
  BY <1>3, ServerStepKeeps DEF ServerMoves, ServerCrashes, bounds
<1>4. CASE \E ok \in BOOLEAN : ScriptEnds(ok)
  <2>1. scripts = 1 /\ scripts' = 0 /\ java = "none" /\ java' \in {"none", "loading"}
    BY <1>4, MinecraftConstants DEF ScriptEnds
  <2>2. UNCHANGED <<power, spawned, halting, handler, launches, powerOffs, overlapped>>
    BY <1>4 DEF ScriptEnds, bounds
  <2> QED
    BY <2>1, <2>2, ServerStepKeeps, MinecraftConstants
<1> QED
  BY <1>1, <1>2, <1>3, <1>4

LEMMA PcOffKeeps == ServerInv /\ PcOff => ServerInv'
<1> SUFFICES ASSUME ServerInv, PcOff PROVE ServerInv'
  OBVIOUS
<1>1. handler' \in [Handlers -> HandlerSteps] /\ handler'["start"] = "none" /\ handler'["shutdown"] = "none"
  BY HandlersApart DEF PcOff, HandlerSteps
<1>2. /\ power' = "off" /\ java' = "none" /\ scripts' = 0
      /\ UNCHANGED <<launches, powerOffs, overlapped>>
  BY DEF PcOff, bounds
<1>3. spawned' \in BOOLEAN /\ halting' \in BOOLEAN
  BY Zenon DEF PcOff
<1> QED
  BY <1>1, <1>2, <1>3, MinecraftConstants DEF ServerInv, HostTyped, HostFine, StepFine, Idle

LEMMA PowerOffKeeps == ServerInv /\ PowerOff => ServerInv'
<1> SUFFICES ASSUME ServerInv, PowerOff PROVE ServerInv'
  OBVIOUS
<1>1. /\ handler["shutdown"] = "off" /\ Now("shutdown", "none") /\ power' = "closing"
      /\ UNCHANGED <<java, scripts, spawned, halting, launches, powerOffs, overlapped>>
  BY DEF PowerOff, bounds
<1>2. /\ handler' \in [Handlers -> HandlerSteps] /\ handler'["shutdown"] = "none"
      /\ handler'["start"] = handler["start"]
  BY <1>1, HandlersApart, HandlerMoves DEF ServerInv, HandlerSteps
<1> QED
  BY <1>1, <1>2 DEF ServerInv, HostTyped, HostFine, StepFine, Idle

LEMMA LaunchKeeps == ServerInv /\ AgentLaunches => ServerInv'
<1> SUFFICES ASSUME ServerInv, AgentLaunches PROVE ServerInv'
  OBVIOUS
<1>1. /\ handler["start"] = "launch" /\ Now("start", "none") /\ launches < MaxLaunches
      /\ scripts' = scripts + 1 /\ launches' = launches + 1 /\ spawned' = TRUE
      /\ overlapped' = (overlapped \/ handler["shutdown"] # "none" \/ power = "closing")
      /\ UNCHANGED <<power, java, halting, powerOffs>>
  BY DEF AgentLaunches
<1>2. /\ handler' \in [Handlers -> HandlerSteps] /\ handler'["start"] = "none"
      /\ handler'["shutdown"] = handler["shutdown"]
  BY <1>1, HandlersApart, HandlerMoves DEF ServerInv, HandlerSteps
<1>3. java = "none" /\ scripts = 0
  BY <1>1 DEF ServerInv, StepFine, Idle
<1>4. scripts' = 1 /\ scripts' \in 0..MaxLaunches /\ launches' \in 0..MaxLaunches
  BY <1>1, <1>3, MinecraftConstants DEF ServerInv, HostTyped
<1>5. HostTyped'
  BY <1>1, <1>2, <1>4 DEF ServerInv, HostTyped
<1> QED
  BY <1>1, <1>2, <1>3, <1>4, <1>5 DEF ServerInv, HostFine, StepFine

\* The command of a stop goes to a server that is up, so none is starting.
LEMMA StopSendsKeeps == ASSUME ServerInv, NEW h \in Handlers, StopSends(h) PROVE ServerInv'
<1>1. CASE java = "up"
  <2>1. /\ java' = "saving" /\ Now(h, "wait")
        /\ UNCHANGED <<power, scripts, spawned, halting, launches, powerOffs, overlapped>>
    BY <1>1 DEF StopSends, bounds
  <2>2. scripts = 0
    BY <1>1, MinecraftConstants DEF ServerInv, HostFine, HostTyped
  <2>3. /\ handler' \in [Handlers -> HandlerSteps]
        /\ handler'["start"] = IF h = "start" THEN "wait" ELSE handler["start"]
        /\ handler'["shutdown"] = IF h = "shutdown" THEN "wait" ELSE handler["shutdown"]
    BY <2>1, HandlerMoves DEF ServerInv, HandlerSteps
  <2>4. h # "start"
    BY DEF StopSends, ServerInv, StepFine
  <2> QED
    BY <1>1, <2>1, <2>2, <2>3, <2>4 DEF ServerInv, HostTyped, HostFine, StepFine, Idle
<1>2. CASE java # "up"
  <2>1. /\ UNCHANGED <<power, java, scripts, spawned, launches, powerOffs, overlapped>> /\ halting' = FALSE
        /\ Now(h, "none")
    BY <1>2 DEF StopSends, bounds
  <2>2. StepFine(h, "none") /\ "none" \in HandlerSteps
    BY DEF StepFine, HandlerSteps
  <2>3. HandlerStep
    BY <2>1, <2>2 DEF HandlerStep, ServerInv, HostTyped
  <2> QED
    BY <2>3, HandlerStepKeeps
<1> QED
  BY <1>1, <1>2

\* Where the agent finds the server stopped there is no server, nor a script.
LEMMA StoppedIsIdle == ServerInv /\ ServerState = "stopped" => Idle
BY MinecraftConstants DEF ServerState, ServerInv, HostFine, HostTyped, Idle

LEMMA StatesAre == ServerState \in {"stopped", "starting", "stopping", "running"}
BY DEF ServerState

LEMMA HandlersKeep ==
    ASSUME ServerInv,
           \/ \E c \in Askers : AskStart(c) \/ StopWaiting(c) \/ AskStop(c)
           \/ StartReads \/ PcAnswers \/ StartLooks \/ StartFails \/ AskShutdown \/ ShutdownTimesOut
           \/ AgentStart \/ ShutdownLooks
           \/ \E h \in Handlers : StopLooks(h) \/ StopEnds(h)
    PROVE  ServerInv'
<1>1. \A h : h # "start" => \A step \in {"none", "again", "stop", "probe"} : StepFine(h, step)
  BY DEF StepFine
<1>2. \A step \in {"none", "probe"} : StepFine("start", step)
  BY DEF StepFine
<1>3. Idle => \A h : h # "start" => StepFine(h, "off")
  BY DEF StepFine
<1>4. Idle => StepFine("start", "launch")
  BY DEF StepFine
<1>5. halting \in BOOLEAN /\ powerOffs \in 0..MaxPowerOffs
  BY DEF ServerInv, HostTyped
<1>6. CASE \E c \in Askers : AskStart(c) \/ StopWaiting(c)
  BY <1>5, <1>6, HandlerStepKeeps DEF AskStart, StopWaiting, HandlerStep, hostVars, bounds
<1>7. CASE \E c \in Askers : AskStop(c)
  <2>1. PICK c \in Askers : AskStop(c)
    BY <1>7
  <2>2. c \in Handlers /\ c # "start" /\ Now(c, "again") /\ "again" \in HandlerSteps
    BY <2>1, HandlersApart DEF AskStop, HandlerSteps
  <2>3. HandlerStep
    BY <1>1, <1>5, <2>1, <2>2 DEF AskStop, HandlerStep, hostVars, bounds
  <2> QED
    BY <2>3, HandlerStepKeeps
<1>8. CASE StartReads \/ PcAnswers \/ StartFails \/ ShutdownTimesOut
  BY <1>5, <1>8, HandlerStepKeeps DEF StartReads, PcAnswers, StartFails, ShutdownTimesOut, HandlerStep, hostVars, bounds
<1>9. CASE StartLooks
  <2>1. /\ UNCHANGED <<power, java, scripts, halting, launches, powerOffs, overlapped>> /\ Looked
        /\ UNCHANGED handler \/ Now("start", "probe")
    BY <1>9, StatesAre DEF StartLooks, hostVars, bounds, Now
  <2>2. "start" \in Handlers /\ "probe" \in HandlerSteps
    BY HandlersApart DEF HandlerSteps
  <2>3. HandlerStep
    BY <1>2, <1>5, <2>1, <2>2 DEF HandlerStep
  <2> QED
    BY <2>3, HandlerStepKeeps
<1>10. CASE AskShutdown
  <2>1. /\ UNCHANGED <<power, java, scripts, halting, launches, overlapped>> /\ powerOffs' = powerOffs + 1
        /\ powerOffs < MaxPowerOffs /\ (UNCHANGED spawned \/ Looked)
        /\ UNCHANGED handler \/ Now("shutdown", "probe")
    BY <1>10 DEF AskShutdown, hostVars, Now
  <2>2. powerOffs' \in 0..MaxPowerOffs /\ "shutdown" \in Handlers /\ "probe" \in HandlerSteps
    BY <1>5, <2>1, HandlersApart, MinecraftConstants DEF HandlerSteps
  <2>3. HandlerStep
    BY <1>1, <1>5, <2>1, <2>2 DEF HandlerStep
  <2> QED
    BY <2>3, HandlerStepKeeps
<1>11. CASE AgentStart
  <2>1. /\ UNCHANGED <<power, java, scripts, halting, launches, powerOffs, overlapped>> /\ Looked
        /\ (ServerState = "stopped" /\ Now("start", "launch")) \/ Now("start", "none")
    BY <1>11 DEF AgentStart, hostVars, bounds
  <2>2. "start" \in Handlers /\ {"launch", "none"} \subseteq HandlerSteps
    BY HandlersApart DEF HandlerSteps
  <2>3. \E step \in HandlerSteps : Now("start", step) /\ StepFine("start", step)
    BY <1>2, <1>4, <2>1, <2>2, StoppedIsIdle
  <2>4. HandlerStep
    BY <1>5, <2>1, <2>2, <2>3 DEF HandlerStep
  <2> QED
    BY <2>4, HandlerStepKeeps
<1>12. CASE ShutdownLooks
  <2>1. /\ UNCHANGED <<power, java, scripts, halting, launches, powerOffs, overlapped>> /\ Looked
        /\ (ServerState = "stopped" /\ Now("shutdown", "off")) \/ Now("shutdown", "again")
    BY <1>12 DEF ShutdownLooks, hostVars, bounds
  <2>2. "shutdown" \in Handlers /\ {"off", "again"} \subseteq HandlerSteps
    BY HandlersApart DEF HandlerSteps
  <2>3. \E step \in HandlerSteps : Now("shutdown", step) /\ StepFine("shutdown", step)
    BY <1>1, <1>3, <2>1, <2>2, StoppedIsIdle
  <2>4. HandlerStep
    BY <1>5, <2>1, <2>2, <2>3 DEF HandlerStep
  <2> QED
    BY <2>4, HandlerStepKeeps
<1>13. ASSUME NEW h \in Handlers, StopLooks(h) PROVE ServerInv'
  <2>1. /\ UNCHANGED <<power, java, scripts, launches, powerOffs, overlapped>> /\ Looked
        /\ halting' = halting \/ halting' = TRUE
        /\ \/ ServerState = "stopped" /\ h = "shutdown" /\ Now(h, "off")
           \/ Now(h, "none") \/ Now(h, "stop")
    BY <1>13, StatesAre DEF StopLooks, Stopped, hostVars, bounds
  <2>2. h # "start"
    BY <1>13 DEF StopLooks, ServerInv, StepFine
  <2>3. {"off", "none", "stop"} \subseteq HandlerSteps
    BY DEF HandlerSteps
  <2>4. \E step \in HandlerSteps : Now(h, step) /\ StepFine(h, step)
    BY <1>1, <1>3, <2>1, <2>2, <2>3, StoppedIsIdle
  <2>5. HandlerStep
    BY <1>5, <2>1, <2>4 DEF HandlerStep
  <2> QED
    BY <2>5, HandlerStepKeeps
<1>14. ASSUME NEW h \in Handlers, StopEnds(h) PROVE ServerInv'
  <2>1. /\ UNCHANGED <<power, java, scripts, spawned, launches, powerOffs, overlapped>> /\ halting' = FALSE
        /\ (java = "none" /\ h = "shutdown" /\ Now(h, "off")) \/ Now(h, "none")
    BY <1>14 DEF StopEnds, Stopped, hostVars, bounds
  <2>2. h # "start" /\ handler[h] = "wait"
    BY <1>14 DEF StopEnds, ServerInv, StepFine
  <2>3. {"off", "none"} \subseteq HandlerSteps
    BY DEF HandlerSteps
  <2>4. java = "none" /\ h = "shutdown" => StepFine(h, "off")
    BY <2>2 DEF ServerInv, StepFine, Idle
  <2>5. \E step \in HandlerSteps : Now(h, step) /\ StepFine(h, step)
    BY <1>1, <2>1, <2>2, <2>3, <2>4
  <2>6. HandlerStep
    BY <1>5, <2>1, <2>5 DEF HandlerStep
  <2> QED
    BY <2>6, HandlerStepKeeps
<1> QED
  BY <1>6, <1>7, <1>8, <1>9, <1>10, <1>11, <1>12, <1>13, <1>14

LEMMA ProgressMoves == ProgressInv /\ MinecraftNext => ProgressMove
<1> SUFFICES ASSUME ProgressInv, MinecraftNext PROVE ProgressMove
  OBVIOUS
<1>1. op \in OpRecord
  BY DEF ProgressInv
<1>2. /\ [op EXCEPT !.pc = "launch"] \in OpRecord /\ [op EXCEPT !.pc = "launch"].kind = op.kind
      /\ [op EXCEPT !.pc = "launch"].phase = op.phase
  BY <1>1 DEF OpRecord
<1>3. /\ [op EXCEPT !.pc = "look", !.launched = TRUE] \in OpRecord
      /\ [op EXCEPT !.pc = "look", !.launched = TRUE].kind = op.kind
      /\ [op EXCEPT !.pc = "look", !.launched = TRUE].phase = op.phase
  BY <1>1 DEF OpRecord
<1>4. NoOp \in OpRecord /\ NoOp.kind = "none" /\ [NoOp EXCEPT !.kind = "shutdown"] \in OpRecord
  BY DEF NoOp, OpRecord
<1>5. \A h, ok : Replied(h, ok) => ProgressMove
  BY <1>1, <1>3, <1>4 DEF Replied, ProgressMove
<1>6. UNCHANGED <<op, waiting, informed>> => ProgressMove
  BY <1>1 DEF ProgressMove
<1>7. CASE \E c \in Askers : AskStart(c) \/ StopWaiting(c) \/ AskStop(c)
  BY <1>6, <1>7 DEF AskStop, ProgressMove
<1>8. CASE StartReads \/ PcAnswers \/ StartFails
  BY <1>8 DEF StartReads, PcAnswers, StartFails, ProgressMove
<1>9. CASE StartLooks
  BY <1>2, <1>6, <1>9, StatesAre DEF StartLooks, ProgressMove
<1>10. CASE AskShutdown \/ ShutdownTimesOut
  BY <1>1, <1>4, <1>10 DEF AskShutdown, ShutdownTimesOut, ProgressMove
<1>11. CASE AgentStart \/ AgentLaunches \/ ShutdownLooks \/ PowerOff
  BY <1>5, <1>6, <1>11 DEF AgentStart, AgentLaunches, ShutdownLooks, PowerOff
<1>12. CASE \E h \in Handlers : StopLooks(h) \/ StopSends(h) \/ StopEnds(h)
  BY <1>5, <1>6, <1>12, StatesAre DEF StopLooks, StopSends, StopEnds, Stopped
<1>13. CASE SendPacket \/ GraceOver \/ ServerMoves \/ ServerCrashes \/ PcBoots \/ \E ok \in BOOLEAN : ScriptEnds(ok)
  BY <1>6, <1>13 DEF SendPacket, GraceOver, ServerMoves, ServerCrashes, PcBoots, ScriptEnds
<1>14. CASE PcOff
  BY <1>1, <1>4, <1>14 DEF PcOff, ProgressMove
<1> QED
  BY <1>7, <1>8, <1>9, <1>10, <1>11, <1>12, <1>13, <1>14 DEF MinecraftNext

LEMMA MinecraftSteps == ASSUME ~SlowScripts PROVE MinecraftInv /\ [MinecraftNext]_mcVars => MinecraftInv'
<1> SUFFICES ASSUME MinecraftInv, [MinecraftNext]_mcVars PROVE MinecraftInv'
  OBVIOUS
<1>1. CASE UNCHANGED mcVars
  BY <1>1 DEF mcVars, MinecraftInv, ServerInv, ProgressInv, HostTyped, HostFine, StepFine, Idle, SameProgress
<1>2. CASE MinecraftNext
  <2>1. ServerInv'
    BY <1>2, HandlersKeep, ServerKeepsItself, PcOffKeeps, PowerOffKeeps, LaunchKeeps, StopSendsKeeps
       DEF MinecraftInv, MinecraftNext
  <2>2. ProgressInv'
    BY <1>2, ProgressMoves, ProgressKeeps DEF MinecraftInv
  <2> QED
    BY <2>1, <2>2 DEF MinecraftInv
<1> QED
  BY <1>1, <1>2

(* The types rest on nothing but that every script was launched, so they    *)
(* hold with slow scripts too.                                             *)
HostCounted == HostTyped /\ scripts <= launches

LEMMA HostCountedSteps == HostCounted /\ [MinecraftNext]_mcVars => HostCounted'
<1> SUFFICES ASSUME HostCounted, [MinecraftNext]_mcVars PROVE HostCounted'
  OBVIOUS
<1>1. /\ power \in {"off", "booting", "on", "closing"} /\ java \in {"none", "loading", "up", "saving"}
      /\ scripts \in 0..MaxLaunches /\ launches \in 0..MaxLaunches /\ powerOffs \in 0..MaxPowerOffs
      /\ scripts <= launches
      /\ handler \in [Handlers -> HandlerSteps]
  BY DEF HostCounted, HostTyped
<1>2. spawned \in BOOLEAN /\ halting \in BOOLEAN /\ overlapped \in BOOLEAN
  BY Zenon DEF HostCounted, HostTyped
<1>3. HandlerSteps = {"none", "probe", "launch", "again", "stop", "wait", "off"}
  BY DEF HandlerSteps
<1>4. \A h, step : step \in HandlerSteps /\ Now(h, step) => handler' \in [Handlers -> HandlerSteps]
  BY <1>1 DEF Now
<1>5. Looked => spawned' \in BOOLEAN
  BY DEF Looked
<1>6. ASSUME UNCHANGED <<power, java, scripts, launches, overlapped>>, UNCHANGED spawned \/ Looked,
             UNCHANGED halting \/ halting' \in BOOLEAN, UNCHANGED powerOffs \/ powerOffs' \in 0..MaxPowerOffs,
             UNCHANGED handler \/ \E h, step : step \in HandlerSteps /\ Now(h, step)
      PROVE  HostCounted'
  <2>1. spawned' \in BOOLEAN /\ halting' \in BOOLEAN /\ overlapped' \in BOOLEAN
    BY <1>2, <1>5, <1>6, Zenon
  <2>2. handler' \in [Handlers -> HandlerSteps] /\ powerOffs' \in 0..MaxPowerOffs
    BY <1>1, <1>4, <1>6
  <2> QED
    BY <1>1, <1>6, <2>1, <2>2 DEF HostCounted, HostTyped
<1>7. ASSUME UNCHANGED <<halting, handler, launches, powerOffs, overlapped>>, UNCHANGED spawned \/ spawned' = FALSE,
             power' \in {"off", "booting", "on", "closing"}, java' \in {"none", "loading", "up", "saving"},
             scripts' \in 0..scripts
      PROVE  HostCounted'
  <2>1. spawned' \in BOOLEAN /\ halting' \in BOOLEAN /\ overlapped' \in BOOLEAN
    BY <1>2, <1>7, Zenon
  <2>2. scripts' \in 0..MaxLaunches /\ scripts' <= launches'
    BY <1>1, <1>7, MinecraftConstants
  <2> QED
    BY <1>1, <1>7, <2>1, <2>2 DEF HostCounted, HostTyped
<1>8. CASE UNCHANGED mcVars
  BY <1>6, <1>8 DEF mcVars
<1>9. CASE \E c \in Askers : AskStart(c) \/ StopWaiting(c) \/ AskStop(c)
  BY <1>3, <1>6, <1>9 DEF AskStart, StopWaiting, AskStop, hostVars, bounds
<1>10. CASE StartReads \/ PcAnswers \/ StartFails \/ ShutdownTimesOut
  BY <1>6, <1>10 DEF StartReads, PcAnswers, StartFails, ShutdownTimesOut, hostVars, bounds
<1>11. CASE StartLooks
  BY <1>3, <1>6, <1>11, StatesAre DEF StartLooks, hostVars, bounds, Now
<1>12. CASE AskShutdown
  <2>1. powerOffs' \in 0..MaxPowerOffs
    BY <1>1, <1>12, MinecraftConstants DEF AskShutdown
  <2> QED
    BY <1>3, <1>6, <1>12, <2>1 DEF AskShutdown, hostVars, Now
<1>13. CASE AgentStart \/ ShutdownLooks
  BY <1>3, <1>6, <1>13 DEF AgentStart, ShutdownLooks, hostVars, bounds
<1>14. CASE AgentLaunches
  <2>1. /\ launches < MaxLaunches /\ scripts' = scripts + 1 /\ launches' = launches + 1
        /\ spawned' = TRUE /\ Now("start", "none") /\ UNCHANGED <<power, java, halting, powerOffs>>
    BY <1>14 DEF AgentLaunches
  <2>2. overlapped' \in BOOLEAN
    BY <1>14 DEF AgentLaunches
  <2>3. spawned' \in BOOLEAN /\ halting' \in BOOLEAN
    BY <1>2, <2>1, Zenon
  <2>4. handler' \in [Handlers -> HandlerSteps]
    BY <1>3, <1>4, <2>1
  <2>5. scripts' \in 0..MaxLaunches /\ launches' \in 0..MaxLaunches /\ scripts' <= launches'
    BY <1>1, <2>1, MinecraftConstants
  <2> QED
    BY <1>1, <2>1, <2>2, <2>3, <2>4, <2>5 DEF HostCounted, HostTyped
<1>15. CASE \E h \in Handlers : StopLooks(h) \/ StopEnds(h)
  <2>1. PICK h \in Handlers : StopLooks(h) \/ StopEnds(h)
    BY <1>15
  <2>2. UNCHANGED <<power, java, scripts, launches, overlapped, powerOffs>> /\ (UNCHANGED spawned \/ Looked)
    BY <2>1 DEF StopLooks, StopEnds, hostVars, bounds
  <2>3. UNCHANGED halting \/ halting' \in BOOLEAN
    BY <2>1, StatesAre DEF StopLooks, StopEnds
  <2>4. UNCHANGED handler \/ \E k, step : step \in HandlerSteps /\ Now(k, step)
    BY <1>3, <2>1, StatesAre DEF StopLooks, StopEnds, Stopped
  <2> QED
    BY <1>6, <2>2, <2>3, <2>4
<1>16. CASE \E h \in Handlers : StopSends(h)
  <2>1. PICK h \in Handlers : StopSends(h)
    BY <1>16
  <2>2. /\ UNCHANGED <<power, scripts, spawned, launches, powerOffs, overlapped>>
        /\ java' \in {"none", "loading", "up", "saving"} /\ handler' \in [Handlers -> HandlerSteps]
    BY <1>1, <1>3, <1>4, <2>1 DEF StopSends, bounds
  <2>3. halting' \in BOOLEAN
    BY <1>2, <2>1 DEF StopSends
  <2>4. spawned' \in BOOLEAN /\ overlapped' \in BOOLEAN
    BY <1>2, <2>2, Zenon
  <2> QED
    BY <1>1, <2>2, <2>3, <2>4 DEF HostCounted, HostTyped
<1>17. CASE PowerOff
  <2>1. /\ power' = "closing" /\ Now("shutdown", "none")
        /\ UNCHANGED <<java, scripts, spawned, halting, launches, powerOffs, overlapped>>
    BY <1>17 DEF PowerOff, bounds
  <2>2. handler' \in [Handlers -> HandlerSteps]
    BY <1>3, <1>4, <2>1
  <2>3. spawned' \in BOOLEAN /\ halting' \in BOOLEAN /\ overlapped' \in BOOLEAN
    BY <1>2, <2>1, Zenon
  <2> QED
    BY <1>1, <2>1, <2>2, <2>3 DEF HostCounted, HostTyped
<1>18. CASE SendPacket \/ GraceOver \/ ServerMoves \/ ServerCrashes \/ PcBoots
  <2>1. UNCHANGED <<scripts, halting, handler, launches, powerOffs, overlapped>> /\ (UNCHANGED spawned \/ spawned' = FALSE)
    BY <1>18 DEF SendPacket, GraceOver, ServerMoves, ServerCrashes, PcBoots, hostVars, bounds
  <2>2. power' \in {"off", "booting", "on", "closing"}
    BY <1>1, <1>18 DEF SendPacket, GraceOver, ServerMoves, ServerCrashes, PcBoots, hostVars
  <2>3. java' \in {"none", "loading", "up", "saving"}
    BY <1>1, <1>18 DEF SendPacket, GraceOver, ServerMoves, ServerCrashes, PcBoots, hostVars
  <2>4. scripts' \in 0..scripts
    BY <1>1, <2>1, MinecraftConstants
  <2> QED
    BY <1>7, <2>1, <2>2, <2>3, <2>4
<1>19. CASE \E ok \in BOOLEAN : ScriptEnds(ok)
  BY <1>1, <1>7, <1>19, MinecraftConstants DEF ScriptEnds, bounds
<1>20. CASE PcOff
  <2>1. handler' \in [Handlers -> HandlerSteps]
    BY <1>3, <1>20 DEF PcOff
  <2>2. power' = "off" /\ java' = "none" /\ scripts' = 0 /\ UNCHANGED <<launches, powerOffs, overlapped>>
    BY <1>20 DEF PcOff, bounds
  <2>3. spawned' \in BOOLEAN /\ halting' \in BOOLEAN /\ overlapped' \in BOOLEAN
    BY <1>2, <1>20, <2>2, Zenon DEF PcOff
  <2> QED
    BY <1>1, <2>1, <2>2, <2>3, MinecraftConstants DEF HostCounted, HostTyped
<1> QED
  BY <1>8, <1>9, <1>10, <1>11, <1>12, <1>13, <1>14, <1>15, <1>16, <1>17, <1>18, <1>19, <1>20 DEF MinecraftNext

LEMMA MinecraftTypes == MinecraftInit /\ [][MinecraftNext]_mcVars => []MinecraftTypeOK
<1>1. MinecraftInit => HostCounted /\ ProgressInv
  BY MinecraftStarts, MinecraftConstants DEF MinecraftInit, MinecraftInv, ServerInv, HostCounted, HostTyped
<1>2. ProgressInv /\ [MinecraftNext]_mcVars => ProgressInv'
  <2>1. ProgressInv /\ MinecraftNext => ProgressInv'
    BY ProgressMoves, ProgressKeeps
  <2>2. ProgressInv /\ UNCHANGED mcVars => ProgressInv'
    BY DEF mcVars, ProgressInv, SameProgress
  <2> QED
    BY <2>1, <2>2
<1>3. HostCounted /\ ProgressInv => MinecraftTypeOK
  BY DEF HostCounted, HostTyped, ProgressInv, MinecraftTypeOK, OpRecord, HandlerSteps
<1> QED
  BY <1>1, <1>2, <1>3, HostCountedSteps, PTL

\* One start for all who ask, no PC that goes off under a server, and every
\* chat that waits told how far it is: for any number of chats, while no start
\* script outlives the agent's grace (minecraft/pcAgent.js).
THEOREM ServerStartsOnce ==
    ASSUME ~SlowScripts
    PROVE  MinecraftSpec => [](MinecraftTypeOK /\ StartedOnce /\ SameProgress /\ WorldIsSaved)
<1>1. MinecraftInv /\ [MinecraftNext]_mcVars => MinecraftInv'
  BY MinecraftSteps
<1> QED
  BY <1>1, MinecraftStarts, MinecraftHolds, PTL DEF MinecraftSpec

(***************************************************************************)
(* ModelCall and ServiceCall.  The requests sent are paid for by the       *)
(* attempts and by the one refresh a call may ask for.                     *)
(***************************************************************************)
CallReq == [pc : {"ready", "sent", "reading", "failed", "answered"}, attempt : 1..MaxAttempts,
            refreshed : BOOLEAN, expired : BOOLEAN, kind : Kinds \cup {"none"}, sent : Nat]
CallStream == [item : [Items -> {"none", "added", "done", "array"}], seen : BOOLEAN,
               status : {"none", "completed", "incomplete", "failed"},
               error : Kinds \cup {"none"}, malformed : BOOLEAN, runsOn : BOOLEAN]

\* The requests that r has sent, and the one it is about to send.
SentOrDue(r) == IF r.pc = "ready" THEN r.sent + 1 ELSE r.sent
Allowed(r) == IF r.refreshed = TRUE THEN r.attempt + 1 ELSE r.attempt

ReqFine == req \in CallReq /\ SentOrDue(req) <= Allowed(req)
CallInv == ReqFine /\ strm \in CallStream /\ AnswerIsWhole

\* What an attempt may do to the call.
ReqMove ==
    \/ \E kind \in Kinds : Fail(kind)
    \/ req.pc \in {"sent", "reading"} /\ req.attempt < MaxAttempts /\ Again
    \/ req.pc \in {"ready", "sent", "reading"} /\ req' = [req EXCEPT !.expired = TRUE]
    \/ req.pc = "ready" /\ req' = [req EXCEPT !.pc = "sent", !.sent = @ + 1]
    \/ req.pc = "sent" /\ ~req.refreshed /\ req' = [req EXCEPT !.pc = "ready", !.refreshed = TRUE]
    \/ req.pc = "sent" /\ req' = [req EXCEPT !.pc = "reading"]
    \/ req.pc = "reading" /\ req' = [req EXCEPT !.pc = "answered"]
    \/ UNCHANGED req

LEMMA ReqMoves == ReqFine /\ ReqMove => ReqFine'
<1> SUFFICES ASSUME ReqFine, ReqMove PROVE ReqFine'
  OBVIOUS
<1>1. /\ req \in CallReq /\ req.sent \in Nat /\ req.attempt \in 1..MaxAttempts /\ req.refreshed \in BOOLEAN
      /\ MaxAttempts \in Nat
  BY CallConstants DEF ReqFine, CallReq
<1>2. CASE \E kind \in Kinds : Fail(kind)
  <2>1. /\ req' \in CallReq /\ req'.pc = "failed" /\ req'.sent = req.sent /\ req'.attempt = req.attempt
        /\ req'.refreshed = req.refreshed
    BY <1>1, <1>2 DEF Fail, CallReq
  <2> QED
    BY <1>1, <2>1 DEF ReqFine, SentOrDue, Allowed
<1>3. CASE req.pc \in {"sent", "reading"} /\ req.attempt < MaxAttempts /\ Again
  <2>1. req.attempt + 1 \in 1..MaxAttempts
    BY <1>1, <1>3
  <2>2. /\ req' \in CallReq /\ req'.pc = "ready" /\ req'.sent = req.sent /\ req'.attempt = req.attempt + 1
        /\ req'.refreshed = req.refreshed
    BY <1>1, <1>3, <2>1 DEF Again, CallReq
  <2> QED
    BY <1>1, <1>3, <2>2 DEF ReqFine, SentOrDue, Allowed
<1>4. CASE req.pc \in {"ready", "sent", "reading"} /\ req' = [req EXCEPT !.expired = TRUE]
  <2>1. /\ req' \in CallReq /\ req'.pc = req.pc /\ req'.sent = req.sent /\ req'.attempt = req.attempt
        /\ req'.refreshed = req.refreshed
    BY <1>1, <1>4 DEF CallReq
  <2> QED
    BY <1>1, <2>1 DEF ReqFine, SentOrDue, Allowed
<1>5. CASE req.pc = "ready" /\ req' = [req EXCEPT !.pc = "sent", !.sent = @ + 1]
  <2> DEFINE more == req.sent + 1
  <2>0. more \in Nat /\ req' = [req EXCEPT !.pc = "sent", !.sent = more]
    BY <1>1, <1>5 DEF CallReq
  <2> HIDE DEF more
  <2>1. /\ req' \in CallReq /\ req'.pc = "sent" /\ req'.sent = more /\ req'.attempt = req.attempt
        /\ req'.refreshed = req.refreshed
    BY <1>1, <2>0 DEF CallReq
  <2>2. Allowed(req') = Allowed(req)
    BY <2>1 DEF Allowed
  <2>3. SentOrDue(req') = SentOrDue(req)
    BY <1>5, <2>1 DEF SentOrDue, more
  <2> QED
    BY <2>1, <2>2, <2>3 DEF ReqFine
<1>6. CASE req.pc = "sent" /\ ~req.refreshed /\ req' = [req EXCEPT !.pc = "ready", !.refreshed = TRUE]
  <2>1. req.refreshed # TRUE
    BY <1>6, Zenon
  <2>2. /\ req' \in CallReq /\ req'.pc = "ready" /\ req'.sent = req.sent /\ req'.attempt = req.attempt
    BY <1>1, <1>6 DEF CallReq
  <2>3. req'.refreshed = TRUE
    BY <1>1, <1>6, Zenon DEF CallReq
  <2>4. Allowed(req) = req.attempt /\ SentOrDue(req) = req.sent
    BY <1>6, <2>1 DEF Allowed, SentOrDue
  <2>5. Allowed(req') = req.attempt + 1 /\ SentOrDue(req') = req.sent + 1
    BY <2>2, <2>3 DEF Allowed, SentOrDue
  <2> QED
    BY <1>1, <2>2, <2>4, <2>5 DEF ReqFine
<1>7. CASE \/ req.pc = "sent" /\ req' = [req EXCEPT !.pc = "reading"]
           \/ req.pc = "reading" /\ req' = [req EXCEPT !.pc = "answered"]
  <2>1. /\ req' \in CallReq /\ req'.pc \in {"reading", "answered"} /\ req'.sent = req.sent
        /\ req'.attempt = req.attempt /\ req'.refreshed = req.refreshed
    BY <1>1, <1>7 DEF CallReq
  <2> QED
    BY <1>1, <1>7, <2>1 DEF ReqFine, SentOrDue, Allowed
<1>8. CASE UNCHANGED req
  BY <1>8 DEF ReqFine, SentOrDue, Allowed
<1> QED
  BY <1>2, <1>3, <1>4, <1>5, <1>6, <1>7, <1>8 DEF ReqMove

\* A failure ends the call or, where nothing of its answer came, asks again.
LEMMA RetryMoves ==
    ASSUME ReqFine, req.pc \in {"sent", "reading"}, NEW kind \in Kinds, NEW unsafe \in BOOLEAN, RetryOr(kind, unsafe)
    PROVE  ReqMove /\ req'.pc \in {"ready", "failed"} /\ (req'.pc = "ready" => ~unsafe)
<1>1. CASE Fail(kind)
  BY <1>1 DEF Fail, ReqMove, ReqFine, CallReq
<1>2. CASE ~unsafe /\ req.attempt < MaxAttempts /\ Again
  BY <1>2 DEF Again, ReqMove, ReqFine, CallReq
<1> QED
  BY <1>1, <1>2 DEF RetryOr

LEMMA FailMoves ==
    ASSUME ReqFine, NEW kind \in Kinds, Fail(kind)
    PROVE  ReqMove /\ req'.pc = "failed"
BY DEF Fail, ReqMove, ReqFine, CallReq

\* What each step of a call owes: a request that may go out, no item lost,
\* a whole answer and no replay.
CallStepFine ==
    /\ ReqMove /\ strm' \in CallStream /\ AnswerIsWhole'
    /\ req.pc = "reading" /\ req'.pc = "ready" => ~strm.seen \/ strm'.runsOn

LEMMA KindsAre ==
    /\ {"AUTH", "RATE_LIMIT", "TRANSIENT", "TIMEOUT", "MALFORMED"} \subseteq Kinds /\ "none" \notin Kinds
    /\ Retryable \subseteq Kinds
    /\ \A status \in DOMAIN StatusKinds : StatusKinds[status] \subseteq Kinds
BY DEF Kinds, Retryable, StatusKinds

LEMMA AttemptSteps ==
    ASSUME CallInv,
           \/ BudgetEnds \/ Send \/ CannotSend \/ Unreachable \/ NotAStream \/ Opens
           \/ \E kind \in Kinds : HttpFails(kind) \/ WaitTooLong(kind)
    PROVE  CallStepFine
<1>1. ReqFine /\ req \in CallReq /\ strm \in CallStream /\ req.expired \in BOOLEAN
  BY DEF CallInv, ReqFine, CallReq
<1>2. NoStream \in CallStream
  BY DEF NoStream, CallStream
<1>3. CASE BudgetEnds
  <2>1. ReqMove /\ strm' = strm /\ req'.pc = req.pc /\ req.pc \in {"ready", "sent", "reading"}
    BY <1>1, <1>3 DEF BudgetEnds, ReqMove, CallReq
  <2> QED
    BY <1>1, <2>1 DEF CallStepFine, AnswerIsWhole
<1>4. CASE Send
  <2>1. ReqMove /\ strm' = NoStream /\ req'.pc = "sent"
    BY <1>1, <1>4 DEF Send, ReqMove, CallReq
  <2> QED
    BY <1>2, <2>1 DEF CallStepFine, AnswerIsWhole
<1>5. CASE CannotSend
  <2>1. ReqMove /\ strm' = strm /\ req'.pc = "failed"
    BY <1>1, <1>5, FailMoves, KindsAre DEF CannotSend
  <2> QED
    BY <1>1, <2>1 DEF CallStepFine, AnswerIsWhole
<1>6. CASE Unreachable \/ NotAStream \/ \E kind \in Kinds : WaitTooLong(kind)
  <2>1. req.pc = "sent" /\ strm' = strm
    BY <1>6 DEF Unreachable, NotAStream, WaitTooLong
  <2>2. (\E kind \in Kinds : Fail(kind)) \/ RetryOr("TRANSIENT", FALSE)
    BY <1>6, KindsAre DEF Unreachable, NotAStream, WaitTooLong
  <2>3. ReqMove /\ req'.pc \in {"ready", "failed"}
    BY <1>1, <2>1, <2>2, FailMoves, RetryMoves, KindsAre
  <2> QED
    BY <1>1, <2>1, <2>3 DEF CallStepFine, AnswerIsWhole
<1>7. CASE \E kind \in Kinds : HttpFails(kind)
  <2>1. req.pc = "sent" /\ strm' = strm
    BY <1>7 DEF HttpFails
  <2>2. \/ \E kind \in Kinds : RetryOr(kind, req.expired)
        \/ ~req.refreshed /\ req' = [req EXCEPT !.pc = "ready", !.refreshed = TRUE]
    BY <1>7 DEF HttpFails
  <2>3. ReqMove /\ req'.pc \in {"ready", "failed"}
    <3>1. CASE \E kind \in Kinds : RetryOr(kind, req.expired)
      BY <1>1, <2>1, <3>1, RetryMoves
    <3>2. CASE ~req.refreshed /\ req' = [req EXCEPT !.pc = "ready", !.refreshed = TRUE]
      BY <1>1, <2>1, <3>2 DEF ReqMove, CallReq
    <3> QED
      BY <2>2, <3>1, <3>2
  <2> QED
    BY <1>1, <2>1, <2>3 DEF CallStepFine, AnswerIsWhole
<1>8. CASE Opens
  <2>1. ReqMove /\ strm' = strm /\ req.pc = "sent" /\ req'.pc = "reading"
    BY <1>1, <1>8 DEF Opens, ReqMove, CallReq
  <2> QED
    BY <1>1, <2>1 DEF CallStepFine, AnswerIsWhole
<1> QED
  BY <1>3, <1>4, <1>5, <1>6, <1>7, <1>8

LEMMA StreamSteps ==
    ASSUME CallInv,
           \/ MalformedEvent \/ ScheduleRunsOn \/ Breaks \/ Closes
           \/ \E kind \in Kinds : ErrorEvent(kind)
           \/ \E i \in Items : ItemEvent(i, "added") \/ ItemEvent(i, "done")
           \/ \E status \in {"completed", "incomplete", "failed"}, listed \in SUBSET Items :
                 \E complete \in SUBSET listed : Terminal(status, listed, complete)
    PROVE  CallStepFine
<1>1. ReqFine /\ req \in CallReq /\ strm \in CallStream /\ strm.seen \in BOOLEAN
  BY DEF CallInv, ReqFine, CallStream
<1>2. CASE MalformedEvent \/ \E kind \in Kinds : ErrorEvent(kind)
  <2>1. strm' \in CallStream
    BY <1>1, <1>2 DEF MalformedEvent, ErrorEvent, CallStream
  <2>2. req' = req /\ req.pc = "reading"
    BY <1>2 DEF MalformedEvent, ErrorEvent, Reading
  <2> QED
    BY <2>1, <2>2 DEF CallStepFine, ReqMove, AnswerIsWhole
<1>3. ASSUME NEW i \in Items, NEW event \in {"added", "done"}, ItemEvent(i, event) PROVE CallStepFine
  <2>1. Upsert(strm.item[i], event) \in {"none", "added", "done", "array"}
    BY <1>1 DEF Upsert, CallStream
  <2> DEFINE items == [strm.item EXCEPT ![i] = Upsert(strm.item[i], event)]
  <2>2. items \in [Items -> {"none", "added", "done", "array"}]
    BY <1>1, <2>1 DEF CallStream
  <2>3. strm' = [strm EXCEPT !.item = items, !.seen = TRUE]
    BY <1>1, <1>3 DEF ItemEvent, CallStream
  <2> HIDE DEF items
  <2>4. strm' \in CallStream
    BY <1>1, <2>2, <2>3 DEF CallStream
  <2>5. req' = req /\ req.pc = "reading"
    BY <1>3 DEF ItemEvent, Reading
  <2> QED
    BY <2>4, <2>5 DEF CallStepFine, ReqMove, AnswerIsWhole
<1>4. ASSUME NEW status \in {"completed", "incomplete", "failed"}, NEW listed \in SUBSET Items,
             NEW complete \in SUBSET listed, Terminal(status, listed, complete)
      PROVE  CallStepFine
  <2> DEFINE items == [i \in Items |-> IF i \notin listed THEN strm.item[i]
                                       ELSE Upsert(strm.item[i], IF i \in complete THEN "array" ELSE "added")]
  <2>1. items \in [Items -> {"none", "added", "done", "array"}]
    BY <1>1 DEF Upsert, CallStream
  <2>2. strm' = [strm EXCEPT !.status = status, !.seen = (strm.seen \/ listed # {}), !.item = items]
    BY <1>4 DEF Terminal
  <2> HIDE DEF items
  <2>3. (strm.seen \/ listed # {}) \in BOOLEAN
    OBVIOUS
  <2>4. strm' \in CallStream
    BY <1>1, <2>1, <2>2, <2>3 DEF CallStream
  <2>5. req' = req /\ req.pc = "reading"
    BY <1>4 DEF Terminal, Reading
  <2> QED
    BY <2>4, <2>5 DEF CallStepFine, ReqMove, AnswerIsWhole
<1>5. CASE ScheduleRunsOn
  <2>1. req.pc = "reading" /\ RetryOr("TRANSIENT", FALSE) /\ strm' = [strm EXCEPT !.runsOn = TRUE]
    BY <1>5 DEF ScheduleRunsOn, Reading
  <2>2. ReqMove /\ req'.pc \in {"ready", "failed"}
    BY <1>1, <2>1, RetryMoves, KindsAre
  <2>3. strm' \in CallStream /\ strm'.runsOn = TRUE
    BY <1>1, <2>1 DEF CallStream
  <2> QED
    BY <2>2, <2>3 DEF CallStepFine, AnswerIsWhole
<1>6. CASE Breaks
  <2>1. req.pc = "reading" /\ strm' = strm
    BY <1>6 DEF Breaks
  <2>2. Fail("TIMEOUT") \/ \E kind \in Kinds : RetryOr(kind, strm.seen)
    BY <1>6, KindsAre DEF Breaks
  <2>3. ReqMove /\ req'.pc \in {"ready", "failed"} /\ (req'.pc = "ready" => ~strm.seen)
    BY <1>1, <2>1, <2>2, FailMoves, RetryMoves, KindsAre
  <2> QED
    BY <1>1, <2>1, <2>3 DEF CallStepFine, AnswerIsWhole
<1>7. CASE Closes
  <2> DEFINE whole == /\ \A i \in Items : strm.item[i] # "added"
                      /\ strm.error = "none" /\ strm.status # "failed" /\ ~strm.malformed
  <2>1. req.pc = "reading" /\ strm' = strm
    BY <1>7 DEF Closes
  <2>2. \/ Fail("MALFORMED")
        \/ \E kind \in Kinds : RetryOr(kind, strm.seen)
        \/ ~strm.seen /\ RetryOr("TRANSIENT", FALSE)
        \/ whole /\ req' = [req EXCEPT !.pc = "answered"]
    <3>1. CASE strm.malformed
      BY <1>7, <3>1, KindsAre DEF Closes
    <3>2. CASE ~strm.malformed /\ strm.error # "none"
      <4>1. strm.error \in Kinds
        BY <1>1, <3>2 DEF CallStream
      <4> QED
        BY <1>7, <3>2, <4>1 DEF Closes
    <3>3. CASE ~strm.malformed /\ strm.error = "none"
      BY <1>7, <3>3 DEF Closes
    <3> QED
      BY <3>1, <3>2, <3>3
  <2>3. CASE Fail("MALFORMED") \/ \E kind \in Kinds : RetryOr(kind, strm.seen)
    <3>1. ReqMove /\ req'.pc \in {"ready", "failed"} /\ (req'.pc = "ready" => ~strm.seen)
      BY <1>1, <2>1, <2>3, FailMoves, RetryMoves, KindsAre
    <3> QED
      BY <1>1, <2>1, <3>1 DEF CallStepFine, AnswerIsWhole
  <2>4. CASE ~strm.seen /\ RetryOr("TRANSIENT", FALSE)
    <3>1. ReqMove /\ req'.pc \in {"ready", "failed"} /\ ~strm.seen
      BY <1>1, <2>1, <2>4, RetryMoves, KindsAre
    <3> QED
      BY <1>1, <2>1, <3>1 DEF CallStepFine, AnswerIsWhole
  <2>5. CASE whole /\ req' = [req EXCEPT !.pc = "answered"]
    <3>1. ReqMove /\ req'.pc = "answered"
      BY <1>1, <2>1, <2>5 DEF ReqMove, CallReq
    <3> QED
      BY <1>1, <2>1, <2>5, <3>1 DEF CallStepFine, AnswerIsWhole
  <2> QED
    BY <2>2, <2>3, <2>4, <2>5
<1> QED
  BY <1>2, <1>3, <1>4, <1>5, <1>6, <1>7

LEMMA CallStepsFine == CallInv /\ [CallNext]_callVars => CallInv' /\ [CallStepFine]_callVars
<1> SUFFICES ASSUME CallInv, [CallNext]_callVars PROVE CallInv' /\ [CallStepFine]_callVars
  OBVIOUS
<1>1. CASE UNCHANGED callVars
  BY <1>1 DEF callVars, CallInv, ReqFine, SentOrDue, Allowed, AnswerIsWhole
<1>2. CASE CallNext
  <2>1. CallStepFine
    BY <1>2, AttemptSteps, StreamSteps, KindsAre DEF CallNext
  <2> QED
    BY <2>1, ReqMoves DEF CallStepFine, CallInv
<1> QED
  BY <1>1, <1>2

LEMMA CallStarts == CallInit => CallInv
<1> SUFFICES ASSUME CallInit PROVE CallInv
  OBVIOUS
<1>1. req \in CallReq /\ req.pc = "ready" /\ req.sent = 0 /\ req.attempt = 1 /\ req.refreshed = FALSE
  BY CallConstants DEF CallInit, CallReq
<1>2. strm \in CallStream
  BY DEF CallInit, NoStream, CallStream
<1> QED
  BY <1>1, <1>2 DEF CallInv, ReqFine, SentOrDue, Allowed, AnswerIsWhole

LEMMA CallHolds == CallInv => CallTypeOK
<1> SUFFICES ASSUME CallInv PROVE CallTypeOK
  OBVIOUS
<1>1. req \in CallReq /\ SentOrDue(req) <= Allowed(req) /\ req.sent \in Nat /\ req.attempt \in 1..MaxAttempts
  BY DEF CallInv, ReqFine, CallReq
<1>2. req.sent \in 0..MaxAttempts + 1 /\ req.attempt \in 1..MaxAttempts + 1
  BY <1>1, CallConstants DEF SentOrDue, Allowed
<1>3. req \in [pc : {"ready", "sent", "reading", "failed", "answered"}, attempt : 1..MaxAttempts + 1,
               refreshed : BOOLEAN, expired : BOOLEAN, kind : Kinds \cup {"none"},
               sent : 0..MaxAttempts + 1]
  BY <1>1, <1>2 DEF CallReq
<1> QED
  BY <1>3 DEF CallInv, CallStream, CallTypeOK

LEMMA CallInvariant == CallInit /\ [][CallNext]_callVars => []CallInv /\ ReplaysNothing
<1>1. CallInv /\ [CallNext]_callVars =>
          [req.pc = "reading" /\ req'.pc = "ready" => ~strm.seen \/ strm'.runsOn]_callVars
  BY CallStepsFine DEF CallStepFine
<1>2. CallInv /\ [CallNext]_callVars => CallInv'
  BY CallStepsFine
<1> QED
  BY <1>1, <1>2, CallStarts, PTL DEF ReplaysNothing

\* A model call gives the whole answer or none, and what the model has said is
\* not asked for twice; it sends one request more than its attempts at most
\* (ai/transport/openAIResponsesTransport.js, responseStreamReader.js).
THEOREM AnswersAreWhole == CallSpec => [](CallTypeOK /\ AnswerIsWhole) /\ ReplaysNothing
<1>1. CallInv => CallTypeOK /\ AnswerIsWhole
  BY CallHolds DEF CallInv
<1> QED
  BY <1>1, CallInvariant, PTL DEF CallSpec

SvcRecord == [pc : {"ready", "sent", "answered", "failed"}, attempt : 1..MaxXaiTries, force : BOOLEAN,
              rejected : MaybeAccount, refreshed : BOOLEAN, account : MaybeAccount, aborted : BOOLEAN,
              requests : Nat, forced : Nat]

\* The requests and the forced refreshes of r, and those it is about to make.
Requested(r) == IF r.pc = "ready" THEN r.requests + 1 ELSE r.requests
ForcedOrDue(r) == IF r.force = TRUE THEN r.forced + 1 ELSE r.forced

\* A call that waits for its answer knows the account it used.
SvcFine(r) ==
    /\ r \in SvcRecord
    /\ Requested(r) <= (IF r.refreshed = TRUE THEN r.attempt + 1 ELSE r.attempt)
    /\ ForcedOrDue(r) <= (IF r.refreshed = TRUE THEN 1 ELSE 0)
    /\ r.pc = "sent" => r.account \in PoolAccounts

ServiceInv ==
    /\ inUse \in MaybeAccount /\ health \in [PoolAccounts -> {"ok", "auth_failed", "quota"}]
    /\ DOMAIN svc = ServiceCalls /\ svc = [c \in ServiceCalls |-> svc[c]]
    /\ \A c \in ServiceCalls : SvcFine(svc[c])

\* A change of one call: it stays fine, and one given up sends nothing more.
SvcMove(c, r) ==
    /\ svc' = [svc EXCEPT ![c] = r]
    /\ SvcFine(r) /\ (svc[c].aborted => r.requests = svc[c].requests)

\* No account but that of a call that waited for its answer is blamed.
BlameFine(c, r) ==
    \/ UNCHANGED health
    \/ \E status \in {"ok", "auth_failed", "quota"}, a \in PoolAccounts :
          /\ health' = [health EXCEPT ![a] = status]
          /\ status = "ok" \/ (svc[c].pc = "sent" /\ svc[c].account = a /\ r.pc # "sent")

LEMMA SvcIs ==
    ASSUME NEW r, SvcFine(r)
    PROVE  /\ r \in SvcRecord /\ r.requests \in Nat /\ r.forced \in Nat /\ r.attempt \in 1..MaxXaiTries
           /\ MaxXaiTries \in Nat /\ r.refreshed \in BOOLEAN /\ r.force \in BOOLEAN
BY ServiceConstants DEF SvcFine, SvcRecord

LEMMA SvcBounded == \A r : SvcFine(r) => r.requests <= MaxXaiTries + 1 /\ r.forced <= 1
<1> SUFFICES ASSUME NEW r, SvcFine(r) PROVE r.requests <= MaxXaiTries + 1 /\ r.forced <= 1
  OBVIOUS
<1>1. /\ r.requests \in Nat /\ r.forced \in Nat /\ r.attempt \in 1..MaxXaiTries /\ MaxXaiTries \in Nat
  BY SvcIs
<1>2. r.requests <= r.attempt + 1
  BY <1>1 DEF SvcFine, Requested
<1>3. r.forced <= 1
  BY <1>1 DEF SvcFine, ForcedOrDue
<1> QED
  BY <1>1, <1>2, <1>3

\* A call that only changes where it stands, to no more than it was.
LEMMA SvcQuiet ==
    ASSUME NEW q, SvcFine(q), NEW r \in SvcRecord,
           r.requests = q.requests, r.forced = q.forced, r.force = q.force, r.refreshed = q.refreshed,
           \/ r.attempt = q.attempt /\ (r.pc = "ready" => q.pc = "ready")
           \/ r.attempt = q.attempt + 1,
           r.pc = "sent" => q.pc = "sent" /\ r.account = q.account
    PROVE  SvcFine(r)
<1>1. /\ q.requests \in Nat /\ q.forced \in Nat /\ q.attempt \in 1..MaxXaiTries /\ MaxXaiTries \in Nat
  BY SvcIs
<1>2. ForcedOrDue(r) <= (IF r.refreshed = TRUE THEN 1 ELSE 0)
  BY DEF SvcFine, ForcedOrDue
<1>3. Requested(r) <= (IF r.refreshed = TRUE THEN r.attempt + 1 ELSE r.attempt)
  <2>1. Requested(q) <= (IF r.refreshed = TRUE THEN q.attempt + 1 ELSE q.attempt)
    BY DEF SvcFine
  <2>2. CASE r.attempt = q.attempt /\ (r.pc = "ready" => q.pc = "ready")
    <3>1. Requested(r) <= Requested(q)
      BY <1>1, <2>2 DEF Requested
    <3>2. Requested(r) \in Nat /\ Requested(q) \in Nat
      BY <1>1 DEF Requested
    <3>3. CASE r.refreshed = TRUE
      BY <1>1, <2>1, <2>2, <3>1, <3>2, <3>3
    <3>4. CASE r.refreshed # TRUE
      BY <1>1, <2>1, <2>2, <3>1, <3>2, <3>4
    <3> QED
      BY <3>3, <3>4
  <2>3. CASE r.attempt = q.attempt + 1
    <3>1. Requested(r) <= Requested(q) + 1
      BY <1>1 DEF Requested
    <3>2. Requested(r) \in Nat /\ Requested(q) \in Nat
      BY <1>1 DEF Requested
    <3>3. CASE r.refreshed = TRUE
      BY <1>1, <2>1, <2>3, <3>1, <3>2, <3>3
    <3>4. CASE r.refreshed # TRUE
      BY <1>1, <2>1, <2>3, <3>1, <3>2, <3>4
    <3> QED
      BY <3>3, <3>4
  <2> QED
    BY <2>2, <2>3
<1> QED
  BY <1>2, <1>3 DEF SvcFine

LEMMA RetryIsFine ==
    ASSUME ServiceInv, NEW c \in ServiceCalls, svc[c].pc \in {"ready", "sent"}, RetriesOrEnds(c)
    PROVE  \E r : SvcMove(c, r) /\ r.pc # "sent"
<1> DEFINE q == svc[c]
           pc == IF q.attempt = MaxXaiTries THEN "failed" ELSE "ready"
           tries == IF q.attempt < MaxXaiTries THEN q.attempt + 1 ELSE q.attempt
           r == [q EXCEPT !.account = NoAccount, !.pc = pc, !.attempt = tries]
<1>1. /\ SvcFine(q) /\ q \in SvcRecord /\ q.attempt \in 1..MaxXaiTries /\ MaxXaiTries \in Nat
  BY SvcIs DEF ServiceInv
<1>2. svc' = [svc EXCEPT ![c] = r]
  BY DEF RetriesOrEnds, ServiceInv
<1>3. tries \in 1..MaxXaiTries /\ pc \in {"failed", "ready"} /\ NoAccount \in MaybeAccount
  BY <1>1 DEF MaybeAccount
<1>4. pc = "ready" => tries = q.attempt + 1
  BY <1>1
<1>5. pc = "failed" => tries = q.attempt
  BY <1>1
<1> HIDE DEF pc, tries, q
<1>6. /\ r \in SvcRecord /\ r.requests = q.requests /\ r.forced = q.forced /\ r.force = q.force
      /\ r.refreshed = q.refreshed /\ r.attempt = tries /\ r.pc = pc
  BY <1>1, <1>3 DEF SvcRecord
<1> HIDE DEF r
<1>7. SvcFine(r)
  BY <1>1, <1>3, <1>4, <1>5, <1>6, SvcQuiet
<1> QED
  BY <1>2, <1>3, <1>6, <1>7 DEF SvcMove, q

\* Every step is a move of one call, and blames what it may.
ServiceMove(c) == \E r : SvcMove(c, r) /\ BlameFine(c, r) /\ inUse' \in MaybeAccount

LEMMA MarkedFine ==
    ASSUME ServiceInv, NEW c \in ServiceCalls, svc[c].pc = "sent", NEW r, r.pc # "sent",
           NEW status \in {"ok", "auth_failed", "quota"}, HealthMarked(c, status)
    PROVE  BlameFine(c, r)
<1>1. svc[c].account \in PoolAccounts /\ NoAccount \notin PoolAccounts
  BY ServiceConstants DEF ServiceInv, SvcFine
<1>2. Blamed(c) = svc[c].account /\ Blamed(c) # NoAccount
  BY <1>1 DEF Blamed
<1>3. health' = [health EXCEPT ![svc[c].account] = status]
  BY <1>2 DEF HealthMarked
<1> QED
  BY <1>1, <1>3 DEF BlameFine

LEMMA ServiceQuietSteps ==
    ASSUME ServiceInv, NEW c \in ServiceCalls, CallerAborts(c) \/ Aborted(c) \/ NoCredential(c)
    PROVE  ServiceMove(c)
<1> DEFINE q == svc[c]
           given == [q EXCEPT !.aborted = TRUE]
           ended == [q EXCEPT !.pc = "failed"]
<1>1. SvcFine(q) /\ q \in SvcRecord /\ inUse \in MaybeAccount
  BY SvcIs DEF ServiceInv
<1>2. /\ given \in SvcRecord /\ given.requests = q.requests /\ given.forced = q.forced /\ given.force = q.force
      /\ given.refreshed = q.refreshed /\ given.attempt = q.attempt /\ given.pc = q.pc /\ given.account = q.account
  BY <1>1 DEF SvcRecord
<1>3. /\ ended \in SvcRecord /\ ended.requests = q.requests /\ ended.forced = q.forced /\ ended.force = q.force
      /\ ended.refreshed = q.refreshed /\ ended.attempt = q.attempt /\ ended.pc = "failed"
  BY <1>1 DEF SvcRecord
<1> HIDE DEF given, ended, q
<1>4. SvcFine(given) /\ SvcFine(ended)
  BY <1>1, <1>2, <1>3, SvcQuiet
<1>5. CASE CallerAborts(c)
  <2>1. SvcMove(c, given) /\ UNCHANGED <<inUse, health>>
    BY <1>2, <1>4, <1>5 DEF CallerAborts, SvcMove, given, q
  <2> QED
    BY <1>1, <2>1 DEF ServiceMove, BlameFine
<1>6. CASE Aborted(c)
  <2>1. SvcMove(c, ended) /\ UNCHANGED <<inUse, health>>
    BY <1>3, <1>4, <1>6 DEF Aborted, SvcMove, ended, q
  <2> QED
    BY <1>1, <2>1 DEF ServiceMove, BlameFine
<1>7. CASE NoCredential(c)
  <2>1. svc[c].pc = "ready" /\ UNCHANGED health /\ inUse' \in MaybeAccount
    BY <1>1, <1>7 DEF NoCredential
  <2>2. \E r : SvcMove(c, r)
    <3>1. CASE RetriesOrEnds(c)
      BY <2>1, <3>1, RetryIsFine
    <3>2. CASE svc' = [svc EXCEPT ![c].pc = "failed"]
      <4>1. SvcMove(c, ended)
        BY <1>3, <1>4, <3>2 DEF SvcMove, ended, q
      <4> QED
        BY <4>1
    <3> QED
      BY <1>7, <3>1, <3>2 DEF NoCredential
  <2> QED
    BY <2>1, <2>2 DEF ServiceMove, BlameFine
<1> QED
  BY <1>5, <1>6, <1>7

LEMMA RequestSentStep ==
    ASSUME ServiceInv, NEW c \in ServiceCalls, NEW a \in PoolAccounts, RequestSent(c, a)
    PROVE  ServiceMove(c)
<1> DEFINE q == svc[c]
           more == q.requests + 1
           forces == IF q.force THEN q.forced + 1 ELSE q.forced
           r == [q EXCEPT !.pc = "sent", !.account = a, !.force = FALSE, !.rejected = NoAccount,
                          !.requests = more, !.forced = forces]
<1>1. /\ SvcFine(q) /\ q \in SvcRecord /\ q.requests \in Nat /\ q.forced \in Nat /\ q.attempt \in 1..MaxXaiTries
      /\ MaxXaiTries \in Nat /\ q.force \in BOOLEAN
  BY SvcIs DEF ServiceInv
<1>2. svc' = [svc EXCEPT ![c] = r] /\ q.pc = "ready" /\ ~svc[c].aborted /\ inUse' = a /\ UNCHANGED health
  BY DEF RequestSent, ServiceInv
<1>3. more \in Nat /\ forces \in Nat /\ a \in MaybeAccount /\ NoAccount \in MaybeAccount
  BY <1>1 DEF MaybeAccount
<1>4. more = Requested(q)
  BY <1>2 DEF Requested
<1>5. forces = ForcedOrDue(q)
  BY <1>1 DEF ForcedOrDue
<1> HIDE DEF q, more, forces
<1>6. /\ r \in SvcRecord /\ r.requests = more /\ r.forced = forces /\ r.refreshed = q.refreshed
      /\ r.attempt = q.attempt /\ r.pc = "sent" /\ r.account = a
  BY <1>1, <1>3 DEF SvcRecord
<1>7. r.force = FALSE
  BY <1>1, Zenon DEF SvcRecord
<1> HIDE DEF r
<1>8. Requested(r) = Requested(q)
  BY <1>4, <1>6 DEF Requested
<1>9. ForcedOrDue(r) = ForcedOrDue(q)
  BY <1>5, <1>6, <1>7 DEF ForcedOrDue
<1>10. SvcFine(r)
  BY <1>1, <1>6, <1>8, <1>9 DEF SvcFine
<1>11. SvcMove(c, r)
  BY <1>2, <1>10 DEF SvcMove
<1> QED
  BY <1>2, <1>3, <1>11 DEF ServiceMove, BlameFine

LEMMA AnswerStep ==
    ASSUME ServiceInv, NEW c \in ServiceCalls, NEW answer, Answer(c, answer)
    PROVE  ServiceMove(c)
<1> DEFINE q == svc[c]
           done == [q EXCEPT !.pc = "answered"]
           ended == [q EXCEPT !.pc = "failed"]
           again == [q EXCEPT !.pc = "ready", !.force = TRUE, !.rejected = q.account, !.refreshed = TRUE,
                              !.account = NoAccount]
<1>1. /\ SvcFine(q) /\ q \in SvcRecord /\ q.requests \in Nat /\ q.forced \in Nat /\ q.attempt \in 1..MaxXaiTries
      /\ MaxXaiTries \in Nat /\ inUse \in MaybeAccount /\ q.account \in MaybeAccount /\ NoAccount \in MaybeAccount
  BY SvcIs DEF ServiceInv, SvcRecord, MaybeAccount
<1>2. q.pc = "sent" /\ ~svc[c].aborted /\ inUse' = inUse
  BY DEF Answer
<1>3. /\ done \in SvcRecord /\ done.requests = q.requests /\ done.forced = q.forced /\ done.force = q.force
      /\ done.refreshed = q.refreshed /\ done.attempt = q.attempt /\ done.pc = "answered"
  BY <1>1 DEF SvcRecord
<1>4. /\ ended \in SvcRecord /\ ended.requests = q.requests /\ ended.forced = q.forced /\ ended.force = q.force
      /\ ended.refreshed = q.refreshed /\ ended.attempt = q.attempt /\ ended.pc = "failed"
  BY <1>1 DEF SvcRecord
<1>5. /\ again \in SvcRecord /\ again.requests = q.requests /\ again.forced = q.forced
      /\ again.attempt = q.attempt /\ again.pc = "ready"
  BY <1>1 DEF SvcRecord
<1>6. again.force = TRUE /\ again.refreshed = TRUE
  BY <1>1, Zenon DEF SvcRecord
<1>7. svc' = [svc EXCEPT ![c] = done] \/ svc' = [svc EXCEPT ![c] = ended] \/ svc' = [svc EXCEPT ![c] = again]
      \/ RetriesOrEnds(c)
  BY DEF Answer
<1>8. /\ svc' = [svc EXCEPT ![c].pc = "answered"] => svc' = [svc EXCEPT ![c] = done]
      /\ svc' = [svc EXCEPT ![c].pc = "failed"] => svc' = [svc EXCEPT ![c] = ended]
  OBVIOUS
<1> HIDE DEF q, done, ended, again
<1>9. SvcFine(done) /\ SvcFine(ended)
  BY <1>1, <1>3, <1>4, SvcQuiet
<1>10. ASSUME ~svc[c].refreshed PROVE SvcFine(again)
  <2>1. q.refreshed # TRUE
    BY <1>10, Zenon DEF q
  <2>2. Requested(q) <= q.attempt /\ ForcedOrDue(q) <= 0
    BY <1>1, <2>1 DEF SvcFine
  <2>3. Requested(again) = Requested(q) + 1
    BY <1>1, <1>2, <1>5 DEF Requested
  <2>4. ForcedOrDue(again) <= 1
    <3>1. ForcedOrDue(q) = q.forced \/ ForcedOrDue(q) = q.forced + 1
      BY DEF ForcedOrDue
    <3>2. q.forced = 0
      BY <1>1, <2>2, <3>1
    <3> QED
      BY <1>5, <1>6, <3>2 DEF ForcedOrDue
  <2>5. Requested(again) <= again.attempt + 1
    <3>1. Requested(q) \in Nat
      BY <1>1 DEF Requested
    <3> QED
      BY <1>1, <1>5, <2>2, <2>3, <3>1
  <2> QED
    BY <1>5, <1>6, <2>4, <2>5 DEF SvcFine
<1>11. ASSUME answer = "ok", HealthMarked(c, "ok"), svc' = [svc EXCEPT ![c].pc = "answered"] PROVE ServiceMove(c)
  <2>1. SvcMove(c, done)
    BY <1>2, <1>8, <1>9, <1>11 DEF SvcMove
  <2>2. BlameFine(c, done)
    BY <1>2, <1>3, <1>11, MarkedFine DEF q
  <2> QED
    BY <1>1, <1>2, <2>1, <2>2 DEF ServiceMove
<1>12. ASSUME ~svc[c].refreshed, HealthMarked(c, "auth_failed"), svc' = [svc EXCEPT ![c] = again]
       PROVE  ServiceMove(c)
  <2>1. SvcMove(c, again)
    BY <1>2, <1>10, <1>12 DEF SvcMove
  <2>2. BlameFine(c, again)
    BY <1>2, <1>5, <1>12, MarkedFine DEF q
  <2> QED
    BY <1>1, <1>2, <2>1, <2>2 DEF ServiceMove
<1>13. ASSUME RetriesOrEnds(c), UNCHANGED health PROVE ServiceMove(c)
  BY <1>1, <1>2, <1>13, RetryIsFine DEF ServiceMove, BlameFine, q
<1>14. ASSUME svc' = [svc EXCEPT ![c].pc = "failed"],
              HealthMarked(c, "quota") \/ HealthMarked(c, "auth_failed") \/ UNCHANGED health
       PROVE  ServiceMove(c)
  <2>1. SvcMove(c, ended)
    BY <1>2, <1>8, <1>9, <1>14 DEF SvcMove
  <2>2. BlameFine(c, ended)
    <3>1. CASE UNCHANGED health
      BY <3>1 DEF BlameFine
    <3>2. CASE HealthMarked(c, "quota") \/ HealthMarked(c, "auth_failed")
      BY <1>2, <1>4, <3>2, MarkedFine DEF q
    <3> QED
      BY <1>14, <3>1, <3>2
  <2> QED
    BY <1>1, <1>2, <2>1, <2>2 DEF ServiceMove
<1> QED
  BY <1>11, <1>12, <1>13, <1>14 DEF Answer, again, q

ServiceStepFine ==
    /\ \A c \in ServiceCalls :
          /\ svc'[c].requests <= MaxXaiTries + 1 /\ svc'[c].forced <= 1
          /\ svc[c].aborted => svc'[c].requests = svc[c].requests
    /\ \A a \in PoolAccounts :
          health'[a] \notin {"ok", health[a]} =>
             \E c \in ServiceCalls : svc[c].pc = "sent" /\ svc[c].account = a /\ svc'[c].pc # "sent"

LEMMA ServiceSteps ==
    ServiceInv /\ [ServiceNext]_serviceVars => ServiceInv' /\ [ServiceStepFine]_serviceVars
<1> SUFFICES ASSUME ServiceInv, [ServiceNext]_serviceVars PROVE ServiceInv' /\ [ServiceStepFine]_serviceVars
  OBVIOUS
<1>1. CASE UNCHANGED serviceVars
  BY <1>1 DEF serviceVars, ServiceInv
<1>2. CASE ServiceNext
  <2>1. PICK c \in ServiceCalls : ServiceMove(c)
    BY <1>2, ServiceQuietSteps, RequestSentStep, AnswerStep DEF ServiceNext
  <2>2. PICK r : SvcMove(c, r) /\ BlameFine(c, r) /\ inUse' \in MaybeAccount
    BY <2>1 DEF ServiceMove
  <2>3. \A d \in ServiceCalls : svc'[d] = IF d = c THEN r ELSE svc[d]
    BY <2>2 DEF SvcMove, ServiceInv
  <2>4. DOMAIN svc' = ServiceCalls /\ svc' = [d \in ServiceCalls |-> svc'[d]]
    BY <2>2 DEF SvcMove, ServiceInv
  <2>5. \A d \in ServiceCalls : SvcFine(svc'[d])
    BY <2>2, <2>3 DEF SvcMove, ServiceInv
  <2>6. health' \in [PoolAccounts -> {"ok", "auth_failed", "quota"}]
    BY <2>2 DEF BlameFine, ServiceInv
  <2>7. \A d \in ServiceCalls :
           /\ svc'[d].requests <= MaxXaiTries + 1 /\ svc'[d].forced <= 1
           /\ svc[d].aborted => svc'[d].requests = svc[d].requests
    BY <2>2, <2>3, <2>5, SvcBounded DEF SvcMove
  <2>8. ASSUME NEW a \in PoolAccounts, health'[a] \notin {"ok", health[a]}
        PROVE  svc[c].pc = "sent" /\ svc[c].account = a /\ svc'[c].pc # "sent"
    BY <2>2, <2>3, <2>8 DEF BlameFine, ServiceInv
  <2> QED
    BY <2>2, <2>4, <2>5, <2>6, <2>7, <2>8 DEF ServiceInv, ServiceStepFine
<1> QED
  BY <1>1, <1>2

LEMMA ServiceStarts == ServiceInit => ServiceInv
<1> SUFFICES ASSUME ServiceInit PROVE ServiceInv
  OBVIOUS
<1> DEFINE r == [pc |-> "ready", attempt |-> 1, force |-> FALSE, rejected |-> NoAccount, refreshed |-> FALSE,
                 account |-> NoAccount, aborted |-> FALSE, requests |-> 0, forced |-> 0]
<1>1. svc = [c \in ServiceCalls |-> r]
  BY DEF ServiceInit
<1>2. r \in SvcRecord /\ r.pc = "ready" /\ r.requests = 0 /\ r.forced = 0 /\ r.attempt = 1
  BY ServiceConstants DEF SvcRecord, MaybeAccount
<1>3. r.force = FALSE /\ r.refreshed = FALSE
  BY Zenon
<1> HIDE DEF r
<1>4. SvcFine(r)
  BY <1>2, <1>3 DEF SvcFine, Requested, ForcedOrDue
<1>5. inUse \in MaybeAccount /\ health \in [PoolAccounts -> {"ok", "auth_failed", "quota"}]
  BY DEF ServiceInit, MaybeAccount
<1> QED
  BY <1>1, <1>4, <1>5 DEF ServiceInv

LEMMA ServiceHolds == ServiceInv => ServiceTypeOK
<1> SUFFICES ASSUME ServiceInv PROVE ServiceTypeOK
  OBVIOUS
<1> DEFINE T == [pc : {"ready", "sent", "answered", "failed"}, attempt : 1..MaxXaiTries, force : BOOLEAN,
                 rejected : MaybeAccount, refreshed : BOOLEAN, account : MaybeAccount, aborted : BOOLEAN,
                 requests : 0..MaxXaiTries + 1, forced : 0..MaxXaiTries + 1]
<1>1. ASSUME NEW c \in ServiceCalls PROVE svc[c] \in T
  <2>1. SvcFine(svc[c])
    BY DEF ServiceInv
  <2>2. svc[c].requests <= MaxXaiTries + 1 /\ svc[c].forced <= 1
    BY <2>1, SvcBounded
  <2>3. svc[c] \in SvcRecord /\ svc[c].requests \in 0..MaxXaiTries + 1 /\ svc[c].forced \in 0..MaxXaiTries + 1
    BY <2>1, <2>2, SvcIs
  <2> QED
    BY <2>3 DEF SvcRecord
<1> HIDE DEF T
<1>2. svc \in [ServiceCalls -> T]
  BY <1>1 DEF ServiceInv
<1> QED
  BY <1>2 DEF ServiceInv, ServiceTypeOK, T

LEMMA ServiceInvariant ==
    ServiceInit /\ [][ServiceNext]_serviceVars => []ServiceInv /\ RetriesBounded /\ BlameIsEarned
<1>1. ServiceInv /\ [ServiceNext]_serviceVars =>
          [\A c \in ServiceCalls :
              /\ svc'[c].requests <= MaxXaiTries + 1 /\ svc'[c].forced <= 1
              /\ svc[c].aborted => svc'[c].requests = svc[c].requests]_serviceVars
  BY ServiceSteps DEF ServiceStepFine
<1>2. ServiceInv /\ [ServiceNext]_serviceVars =>
          [\A a \in PoolAccounts :
              health'[a] \notin {"ok", health[a]} =>
                 \E c \in ServiceCalls : svc[c].pc = "sent" /\ svc[c].account = a /\ svc'[c].pc # "sent"]_serviceVars
  BY ServiceSteps DEF ServiceStepFine
<1>3. ServiceInv /\ [ServiceNext]_serviceVars => ServiceInv'
  BY ServiceSteps
<1> QED
  BY <1>1, <1>2, <1>3, ServiceStarts, PTL DEF RetriesBounded, BlameIsEarned

\* For any number of calls and accounts: a media call sends one request more
\* than its tries at most and none after its caller gave up, and blames the
\* account it used, whatever the others rotate to (ai/apiClient.js).
THEOREM RetriesAreBounded == ServiceSpec => []ServiceTypeOK /\ RetriesBounded /\ BlameIsEarned
BY ServiceInvariant, ServiceHolds, PTL DEF ServiceSpec

(***************************************************************************)
(* Preferences.  The file is what its callers asked for, by one step of    *)
(* its lock each.  That the notice does not loop rests on what is not in   *)
(* its own record: the age kept in the file never runs ahead of the time   *)
(* since the notice, unless the last mark could not be written.            *)
(***************************************************************************)
PrefFile == [here : BOOLEAN, voice : Voices, memory : Memories, age : 0..ReviewAfter]
PrefReview == [pc : {"idle", "marks"}, since : 0..ReviewAfter, excused : BOOLEAN]
PrefEdit == [pc : {"idle", "waits", "saved", "refused"}, voice : Voices \cup {NoVoice}, memory : MemoryEdits]
PrefOwed == [voice : Voices, memory : Memories]

\* The age in the file f, beside the time since the notice of the review r.
AgeFollows(f, r) ==
    /\ f.here = FALSE => f.age = 0
    /\ f.age <= r.since \/ r.excused = TRUE

NoticeIsDue(r) == r.pc = "marks" => r.since = ReviewAfter \/ r.excused = TRUE

PrefInv ==
    /\ prefs \in PrefFile /\ review \in PrefReview /\ owed \in PrefOwed
    /\ edit \in [Edits -> PrefEdit] /\ prefQueue \in Seq(Edits \cup {"mark", "wipe"})
    /\ PreferencesKept
    /\ AgeFollows(prefs, review) /\ NoticeIsDue(review)

LEMMA PrefStarts == PrefInit => PrefInv
<1> SUFFICES ASSUME PrefInit PROVE PrefInv
  OBVIOUS
<1>1. {"guide"} \in Memories
  BY DEF Memories
<1>2. prefs \in PrefFile /\ prefs.age = 0
  BY <1>1, PreferenceConstants DEF PrefInit, Defaults, PrefFile
<1>3. review \in PrefReview /\ review.pc = "idle" /\ review.since = ReviewAfter
  BY PreferenceConstants DEF PrefInit, PrefReview
<1>4. owed \in PrefOwed /\ PreferencesKept
  BY <1>1, PreferenceConstants DEF PrefInit, Defaults, PrefOwed, PreferencesKept
<1>5. edit \in [Edits -> PrefEdit] /\ prefQueue \in Seq(Edits \cup {"mark", "wipe"})
  BY DEF PrefInit, NoEdit, PrefEdit, MemoryEdits
<1>6. AgeFollows(prefs, review) /\ NoticeIsDue(review)
  BY <1>2, <1>3, PreferenceConstants DEF AgeFollows, NoticeIsDue
<1> QED
  BY <1>2, <1>3, <1>4, <1>5, <1>6 DEF PrefInv

\* Whoever has the lock leaves a queue of the same kind.
LEMMA QueueMoves ==
    ASSUME PrefInv, NEW who, Turn(who)
    PROVE  prefQueue' \in Seq(Edits \cup {"mark", "wipe"})
BY DEF PrefInv, Turn

LEMMA EditedIs ==
    ASSUME PrefInv, NEW e \in Edits, NEW old, old.voice \in Voices, old.memory \in Memories
    PROVE  Edited(e, old) \in PrefOwed
<1>1. edit[e] \in PrefEdit
  BY DEF PrefInv
<1>2. (IF edit[e].voice = NoVoice THEN old.voice ELSE edit[e].voice) \in Voices
  BY <1>1 DEF PrefEdit
<1>3. /\ old.memory \in Memories /\ old.memory \cup {e} \in Memories
      /\ {e} \in Memories /\ {"guide"} \in Memories
  BY DEF Memories
<1>4. edit[e].memory \in {"none", "append", "replace", "clear"}
  BY <1>1 DEF PrefEdit, MemoryEdits
<1>5. Memory(e, old.memory, edit[e].memory) \in Memories
  BY <1>3, <1>4 DEF Memory
<1> QED
  BY <1>2, <1>5 DEF Edited, PrefOwed

LEMMA ManagePreferencesFine ==
    ASSUME PrefInv, NEW e \in Edits, NEW voice \in Voices \cup {NoVoice}, NEW how \in MemoryEdits,
           NEW readable \in BOOLEAN, ManagePreferences(e, voice, how, readable)
    PROVE  PrefInv'
<1>1. UNCHANGED <<prefs, review, owed>>
  BY DEF ManagePreferences
<1>2. prefQueue' \in Seq(Edits \cup {"mark", "wipe"})
  <2>1. prefQueue' = prefQueue \/ prefQueue' = Append(prefQueue, e)
    BY DEF ManagePreferences
  <2> QED
    BY <2>1 DEF PrefInv
<1>3. edit' \in [Edits -> PrefEdit]
  <2> DEFINE a == [NoEdit EXCEPT !.pc = "saved"]
             b == [pc |-> "waits", voice |-> voice, memory |-> how]
  <2>1. a \in PrefEdit /\ b \in PrefEdit
    BY DEF NoEdit, PrefEdit, MemoryEdits
  <2>2. edit' = [edit EXCEPT ![e] = a] \/ edit' = [edit EXCEPT ![e] = b]
    BY DEF ManagePreferences
  <2> HIDE DEF a, b
  <2> QED
    BY <2>1, <2>2 DEF PrefInv
<1> QED
  BY <1>1, <1>2, <1>3 DEF PrefInv, PreferencesKept

LEMMA UpdateSettingsFine ==
    ASSUME PrefInv, NEW e \in Edits, NEW readable \in BOOLEAN, NEW written \in BOOLEAN,
           UpdateSettings(e, readable, written)
    PROVE  PrefInv'
<1> DEFINE old == Stored(readable)
           next == Edited(e, old)
           b == IF readable THEN owed ELSE Defaults
           file == [here |-> TRUE, voice |-> next.voice, memory |-> next.memory, age |-> 0]
<1>1. /\ old.voice \in Voices /\ old.memory \in Memories
      /\ b.voice = old.voice /\ b.memory = old.memory
  <2>1. CASE readable
    BY <2>1 DEF PrefInv, PrefFile, Stored, PreferencesKept
  <2>2. CASE ~readable
    BY <2>2, PreferenceConstants DEF Stored, Defaults, Memories
  <2> QED
    BY <2>1, <2>2
<1>2. Turn(e) /\ UNCHANGED review
  BY DEF UpdateSettings
<1>3. \/ prefs' = file /\ owed' = Edited(e, b)
      \/ UNCHANGED <<prefs, owed>>
  BY DEF UpdateSettings
<1>4. \E pc \in {"saved", "refused"} : edit' = [edit EXCEPT ![e] = [NoEdit EXCEPT !.pc = pc]]
  BY DEF UpdateSettings
<1>5. edit' \in [Edits -> PrefEdit]
  <2>1. PICK pc \in {"saved", "refused"} : edit' = [edit EXCEPT ![e] = [NoEdit EXCEPT !.pc = pc]]
    BY <1>4
  <2> DEFINE a == [NoEdit EXCEPT !.pc = pc]
  <2>2. a \in PrefEdit
    BY DEF NoEdit, PrefEdit, MemoryEdits
  <2>3. edit' = [edit EXCEPT ![e] = a] /\ edit \in [Edits -> PrefEdit]
    BY <2>1 DEF PrefInv
  <2> HIDE DEF a
  <2> QED
    BY <2>2, <2>3
<1>6. next \in PrefOwed
  BY <1>1, EditedIs
<1>7. Edited(e, b) = next
  BY <1>1 DEF Edited
<1>8. CASE prefs' = file /\ owed' = Edited(e, b)
  <2>1. prefs' \in PrefFile /\ prefs'.age = 0
    BY <1>6, <1>8, PreferenceConstants DEF PrefOwed, PrefFile
  <2>2. prefs'.voice = next.voice /\ prefs'.memory = next.memory
    BY <1>8
  <2>3. owed' = next /\ owed' \in PrefOwed
    BY <1>6, <1>7, <1>8
  <2> HIDE DEF next, file, b
  <2>4. PreferencesKept'
    BY <2>2, <2>3 DEF PreferencesKept, PrefOwed
  <2>5. AgeFollows(prefs', review') /\ NoticeIsDue(review')
    BY <1>2, <2>1 DEF AgeFollows, PrefInv, PrefReview
  <2> QED
    BY <1>2, <1>5, <2>1, <2>3, <2>4, <2>5, QueueMoves DEF PrefInv
<1>9. CASE UNCHANGED <<prefs, owed>>
  BY <1>2, <1>5, <1>9, QueueMoves DEF PrefInv, PreferencesKept
<1> QED
  BY <1>3, <1>8, <1>9

LEMMA PrepareTurnFine == ASSUME PrefInv, PrepareTurn PROVE PrefInv'
<1>1. UNCHANGED <<prefs, edit, owed>> /\ review' = [review EXCEPT !.pc = "marks"] /\ prefs.age = ReviewAfter
  BY DEF PrepareTurn, IsReviewDue
<1>2. prefQueue' \in Seq(Edits \cup {"mark", "wipe"})
  BY DEF PrepareTurn, PrefInv
<1>3. /\ review' \in PrefReview
      /\ review'.since = review.since /\ review'.excused = review.excused
  BY <1>1 DEF PrefInv, PrefReview
<1>4. review.since = ReviewAfter \/ review.excused = TRUE
  BY <1>1, PreferenceConstants DEF PrefInv, PrefReview, AgeFollows
<1>5. AgeFollows(prefs', review') /\ NoticeIsDue(review')
  BY <1>1, <1>3, <1>4 DEF PrefInv, AgeFollows, NoticeIsDue
<1> QED
  BY <1>1, <1>2, <1>3, <1>5 DEF PrefInv, PreferencesKept

LEMMA MarkReviewedFine ==
    ASSUME PrefInv, NEW written \in BOOLEAN, MarkReviewed(written)
    PROVE  PrefInv'
<1> DEFINE marked == [prefs EXCEPT !.age = 0]
           r == [pc |-> "idle", since |-> 0, excused |-> ~written]
<1>1. Turn("mark") /\ UNCHANGED <<edit, owed>> /\ review' = r
  BY DEF MarkReviewed
<1>2. IF prefs.here /\ written THEN prefs' = marked ELSE prefs' = prefs
  BY DEF MarkReviewed
<1>3. /\ marked \in PrefFile /\ marked.age = 0
      /\ marked.voice = prefs.voice /\ marked.memory = prefs.memory
  BY PreferenceConstants DEF PrefInv, PrefFile
<1>4. r \in PrefReview /\ r.pc = "idle" /\ r.since = 0
  BY PreferenceConstants DEF PrefReview
<1>5. r.excused = ~written
  OBVIOUS
<1> HIDE DEF marked, r
<1>6. prefs' \in PrefFile /\ prefs'.voice = prefs.voice /\ prefs'.memory = prefs.memory
  BY <1>2, <1>3 DEF PrefInv
<1>7. prefs'.age = 0 \/ r.excused = TRUE
  <2>1. CASE prefs.here /\ written
    BY <1>2, <1>3, <2>1
  <2>2. CASE ~prefs.here
    <3>1. prefs.here = FALSE /\ prefs' = prefs
      BY <1>2, <2>2 DEF PrefInv, PrefFile
    <3> QED
      BY <3>1 DEF PrefInv, AgeFollows
  <2>3. CASE ~written
    BY <1>5, <2>3
  <2> QED
    BY <2>1, <2>2, <2>3
<1>8. prefs'.here = FALSE => prefs'.age = 0
  BY <1>2, <1>3 DEF PrefInv, AgeFollows
<1>9. AgeFollows(prefs', review') /\ NoticeIsDue(review')
  BY <1>1, <1>4, <1>6, <1>7, <1>8 DEF AgeFollows, NoticeIsDue
<1> QED
  BY <1>1, <1>4, <1>6, <1>9, QueueMoves DEF PrefInv, PreferencesKept

LEMMA WipeFine == ASSUME PrefInv, WipeAsked \/ \E removed \in BOOLEAN : DeleteSettings(removed) PROVE PrefInv'
<1>1. UNCHANGED <<edit, review>>
  BY DEF WipeAsked, DeleteSettings
<1>2. prefQueue' \in Seq(Edits \cup {"mark", "wipe"})
  <2>1. CASE WipeAsked
    BY <2>1 DEF WipeAsked, PrefInv
  <2>2. CASE \E removed \in BOOLEAN : DeleteSettings(removed)
    BY <2>2, QueueMoves DEF DeleteSettings
  <2> QED
    BY <2>1, <2>2
<1>3. \/ prefs' = Defaults /\ owed' = [voice |-> DefaultVoice, memory |-> {"guide"}]
      \/ UNCHANGED <<prefs, owed>>
  BY DEF WipeAsked, DeleteSettings
<1>4. Defaults \in PrefFile /\ Defaults.age = 0
  BY PreferenceConstants DEF Defaults, PrefFile, Memories
<1>5. CASE prefs' = Defaults /\ owed' = [voice |-> DefaultVoice, memory |-> {"guide"}]
  <2>1. owed' \in PrefOwed /\ PreferencesKept'
    BY <1>5, PreferenceConstants DEF PrefOwed, Memories, Defaults, PreferencesKept
  <2>2. AgeFollows(prefs', review') /\ NoticeIsDue(review')
    BY <1>1, <1>4, <1>5 DEF PrefInv, AgeFollows, PrefReview
  <2> QED
    BY <1>1, <1>2, <1>4, <1>5, <2>1, <2>2 DEF PrefInv
<1>6. CASE UNCHANGED <<prefs, owed>>
  BY <1>1, <1>2, <1>6 DEF PrefInv, PreferencesKept
<1> QED
  BY <1>3, <1>5, <1>6

LEMMA TimeGoesOnFine == ASSUME PrefInv, TimeGoesOn PROVE PrefInv'
<1> DEFINE age == IF prefs.here /\ prefs.age < ReviewAfter THEN prefs.age + 1 ELSE prefs.age
           quiet == IF review.since < ReviewAfter THEN review.since + 1 ELSE review.since
<1>1. /\ prefs' = [prefs EXCEPT !.age = age] /\ review' = [review EXCEPT !.since = quiet]
      /\ UNCHANGED <<edit, prefQueue, owed>>
  BY DEF TimeGoesOn
<1>2. prefs \in PrefFile /\ review \in PrefReview
  BY DEF PrefInv
<1>3. prefs.age \in 0..ReviewAfter /\ review.since \in 0..ReviewAfter
  BY <1>2 DEF PrefFile, PrefReview
<1>4. age \in 0..ReviewAfter /\ quiet \in 0..ReviewAfter
  BY <1>3, PreferenceConstants
<1>5. /\ prefs.age <= review.since => age <= quiet
      /\ review.since = ReviewAfter => quiet = ReviewAfter
  BY <1>3, PreferenceConstants
<1>6. prefs.here = FALSE => age = prefs.age
  OBVIOUS
<1> HIDE DEF age, quiet
<1>7. /\ prefs' \in PrefFile /\ prefs'.age = age /\ prefs'.here = prefs.here
      /\ prefs'.voice = prefs.voice /\ prefs'.memory = prefs.memory
  BY <1>1, <1>2, <1>4 DEF PrefFile
<1>8. /\ review' \in PrefReview /\ review'.since = quiet
      /\ review'.pc = review.pc /\ review'.excused = review.excused
  BY <1>1, <1>2, <1>4 DEF PrefReview
<1>9. AgeFollows(prefs', review') /\ NoticeIsDue(review')
  BY <1>5, <1>6, <1>7, <1>8 DEF PrefInv, AgeFollows, NoticeIsDue
<1> QED
  BY <1>1, <1>7, <1>8, <1>9 DEF PrefInv, PreferencesKept

LEMMA PrefCrashFine == ASSUME PrefInv, PrefCrash PROVE PrefInv'
<1>1. /\ prefQueue' = <<>> /\ UNCHANGED <<prefs, owed>> /\ review' = [review EXCEPT !.pc = "idle"]
      /\ edit' = [e \in Edits |-> IF edit[e].pc = "waits" THEN [NoEdit EXCEPT !.pc = "refused"] ELSE edit[e]]
  BY DEF PrefCrash
<1>2. [NoEdit EXCEPT !.pc = "refused"] \in PrefEdit
  BY DEF NoEdit, PrefEdit, MemoryEdits
<1>3. edit' \in [Edits -> PrefEdit]
  BY <1>1, <1>2 DEF PrefInv
<1>4. /\ review' \in PrefReview /\ review'.pc = "idle"
      /\ review'.since = review.since /\ review'.excused = review.excused
  BY <1>1 DEF PrefInv, PrefReview
<1>5. AgeFollows(prefs', review') /\ NoticeIsDue(review')
  BY <1>1, <1>4 DEF PrefInv, AgeFollows, NoticeIsDue
<1>6. prefQueue' \in Seq(Edits \cup {"mark", "wipe"})
  BY <1>1
<1> QED
  BY <1>1, <1>3, <1>4, <1>5, <1>6 DEF PrefInv, PreferencesKept

LEMMA PrefSteps == PrefInv /\ [PrefNext]_prefVars => PrefInv'
<1> SUFFICES ASSUME PrefInv, [PrefNext]_prefVars PROVE PrefInv'
  OBVIOUS
<1>1. CASE PrepareTurn
  BY <1>1, PrepareTurnFine
<1>2. CASE WipeAsked \/ \E removed \in BOOLEAN : DeleteSettings(removed)
  BY <1>2, WipeFine
<1>3. CASE TimeGoesOn
  BY <1>3, TimeGoesOnFine
<1>4. CASE PrefCrash
  BY <1>4, PrefCrashFine
<1>5. CASE \E e \in Edits : \E voice \in Voices \cup {NoVoice}, how \in MemoryEdits, readable \in BOOLEAN :
               ManagePreferences(e, voice, how, readable)
  BY <1>5, ManagePreferencesFine
<1>6. CASE \E e \in Edits : \E readable, written \in BOOLEAN : UpdateSettings(e, readable, written)
  BY <1>6, UpdateSettingsFine
<1>7. CASE \E written \in BOOLEAN : MarkReviewed(written)
  BY <1>7, MarkReviewedFine
<1>8. CASE UNCHANGED prefVars
  BY <1>8 DEF prefVars, PrefInv, PreferencesKept
<1> QED
  BY <1>1, <1>2, <1>3, <1>4, <1>5, <1>6, <1>7, <1>8 DEF PrefNext

LEMMA PrefInvariant == PrefInit /\ [][PrefNext]_prefVars => []PrefInv /\ ReviewedOnce
<1>1. PrefInv /\ [PrefNext]_prefVars =>
          [review.pc = "marks" /\ review'.since = 0 /\ review'.pc = "idle"
             => review.since = ReviewAfter \/ review.excused]_prefVars
  BY DEF PrefInv, NoticeIsDue
<1> QED
  BY <1>1, PrefStarts, PrefSteps, PTL DEF ReviewedOnce

LEMMA PrefHolds == PrefInv => PrefTypeOK /\ PreferencesKept
BY DEF PrefInv, PrefTypeOK, PrefFile, PrefReview, PrefEdit, PrefOwed

\* For any number of calls, voices and lines: the file holds what the calls
\* that succeeded asked for, and the notice comes again only after its whole
\* interval or when the last mark could not be written (settingsStore.js).
THEOREM NoticeCannotLoop == PrefSpec => [](PrefTypeOK /\ PreferencesKept) /\ ReviewedOnce
BY PrefInvariant, PrefHolds, PTL DEF PrefSpec

(***************************************************************************)
(* Notices.  Four parts that share the bounds on what fails alone.         *)
(*                                                                         *)
(* None of the notices' properties is inductive.  A release may leave the  *)
(* outbox since the check works on the box that is on disk, and a place    *)
(* recorded as delivered was reached; a repeat is paid for by the write or *)
(* the crash that left its place reached and unrecorded.  A monthly mark   *)
(* may be set since every run's copy tells of members who were told, and   *)
(* the report's later stages are those of an accepted one.                 *)
(***************************************************************************)
MaybeJids == [Chats -> Jids \cup {NoJid}]
CheckRecord == [pc : {"idle", "fetch", "drain", "send", "mark"}, box : Boxes,
                todo : Seq(Chats \X Components), queued : BOOLEAN,
                outcome : {"none", "pending", "delivered"}]

\* No number is in two chats of f.
OneChatEach(f) == \A c, d \in Chats : f[c] = f[d] /\ f[c] # NoJid => c = d

SubsInv ==
    /\ subs \in MaybeJids /\ known \in MaybeJids
    /\ change \in [pc : {"idle", "save", "assign"}, next : MaybeJids]
    /\ OneChatEach(subs) /\ OneChatEach(known) /\ OneChatEach(change.next)
    /\ IF change.pc = "assign" THEN subs = change.next ELSE known = subs

EachOnce(q) == \A i, j \in 1..Len(q) : q[i] = q[j] => i = j

\* What the check k still has to send of its box: places of it not recorded
\* as delivered, each once.
TodoFine(k) ==
    /\ EachOnce(k.todo)
    /\ \A i \in 1..Len(k.todo) : k.box.st[k.todo[i][1]][k.todo[i][2]] # "delivered"

\* The check k, over the outbox b on disk and the places g that were reached.
CheckFine(k, b, g) ==
    /\ k.pc \in {"drain", "send", "mark"} => k.box = b /\ b.id # 0 /\ TodoFine(k)
    /\ k.pc \in {"send", "mark"} => k.todo # <<>>
    /\ k.pc = "fetch" => b = NoBox
    /\ k.pc = "mark" => k.outcome # "none"
    /\ k.pc = "mark" /\ k.outcome = "delivered" => Head(k.todo) \in g

BoxFine(b, g) ==
    /\ b.id = 0 => b = NoBox
    /\ \A s \in Chats \X Components : b.st[s[1]][s[2]] = "delivered" => s \in g

\* The places that were reached and are not on record, but for the one whose
\* record is being made.
Unrecorded(b, g) == IF b.id = 0 THEN {} ELSE {s \in g : b.st[s[1]][s[2]] # "delivered"}
BeingRecorded(k) == IF k.pc = "mark" /\ k.outcome = "delivered" THEN {Head(k.todo)} ELSE {}
Forgotten(k, b, g) == Unrecorded(b, g) \ BeingRecorded(k)

OutboxInv ==
    /\ latest \in 1..LastRelease /\ cursor \in 0..LastRelease
    /\ box \in Boxes /\ check \in CheckRecord
    /\ got \in SUBSET (Chats \X Components) /\ repeats \in Nat
    /\ CheckFine(check, box, got) /\ BoxFine(box, got)
    /\ repeats + Cardinality(Forgotten(check, box, got)) <= faults

WrapRunRecord == [pc : {"idle", "stats", "send"}, copy : Wraps, ts : 0..LastStats,
                  todo : SUBSET Members, failed : BOOLEAN]

\* A record w of the wrap tells of members who were told.
TellsTrue(w) == w.sent \subseteq heard /\ (w.today = TRUE => heard = Members)

WrapInv ==
    /\ wrap \in Wraps /\ gate \in BOOLEAN /\ wrapRun \in [Runs -> WrapRunRecord]
    /\ stats \in 0..LastStats /\ heard \in SUBSET Members
    /\ TellsTrue(wrap) /\ (gate = TRUE => heard = Members)
    /\ \A r \in Runs : /\ TellsTrue(wrapRun[r].copy)
                       /\ wrapRun[r].pc = "send" /\ wrapRun[r].failed = FALSE =>
                             Members \ wrapRun[r].todo \subseteq wrapRun[r].copy.sent

ReportInv ==
    /\ lined \in BOOLEAN /\ report \in [mark : BOOLEAN, logs : BOOLEAN, accepted : BOOLEAN, unread : BOOLEAN]
    /\ reportRun \in [Runs -> {"idle", "send", "delete", "record"}]
    /\ report.mark = TRUE => report.accepted = TRUE \/ lined = FALSE \/ report.unread = TRUE
    /\ report.logs # lined => report.accepted = TRUE
    /\ \A r \in Runs : reportRun[r] \in {"delete", "record"} => report.accepted = TRUE

AlertInv ==
    /\ alert \in [flying : SUBSET Alerts, cool : BOOLEAN, heard : Nat]
    /\ alert.heard <= 1 /\ (alert.cool = FALSE => alert.heard = 0)
    /\ \A n, o \in alert.flying : n = o
    /\ alert.flying # {} => alert.cool = FALSE

MishapInv == refusals \in 0..MaxRefusals /\ faults \in 0..MaxFaults
NoticeInv == SubsInv /\ OutboxInv /\ WrapInv /\ ReportInv /\ AlertInv /\ MishapInv

LEMMA MishapsCount ==
    ASSUME MishapInv, NEW ok \in BOOLEAN, Refused(ok) \/ Faulted(ok) \/ UNCHANGED mishapVars
    PROVE  MishapInv' /\ faults' >= faults
BY NoticeConstants DEF MishapInv, Refused, Faulted, mishapVars

AlertIs == [flying : SUBSET Alerts, cool : BOOLEAN, heard : Nat]

LEMMA AlertSteps == ASSUME AlertInv, MishapInv, AlertNext PROVE AlertInv' /\ MishapInv' /\ faults' >= faults
<1>1. alert \in AlertIs
  BY DEF AlertInv, AlertIs
<1>2. CASE \E n \in Alerts : NotifyAdmin(n)
  <2>1. PICK n \in Alerts : alert' = [alert EXCEPT !.flying = {n}] /\ alert.cool = FALSE /\ UNCHANGED mishapVars
    BY <1>1, <1>2 DEF NotifyAdmin, AlertIs
  <2>2. /\ alert' \in AlertIs /\ alert'.flying = {n}
        /\ alert'.cool = alert.cool /\ alert'.heard = alert.heard
    BY <1>1, <2>1 DEF AlertIs
  <2> QED
    BY <2>1, <2>2, MishapsCount DEF AlertInv, AlertIs
<1>3. CASE \E n \in Alerts : \E ok \in BOOLEAN : AlertEnds(n, ok)
  <2>1. PICK n \in Alerts, ok \in BOOLEAN :
               n \in alert.flying /\ Refused(ok) /\ alert' = [flying |-> alert.flying \ {n}, cool |-> alert.cool \/ ok, heard |-> alert.heard + IF ok THEN 1 ELSE 0]
    BY <1>3 DEF AlertEnds
  <2>2. alert.cool = FALSE /\ alert.heard = 0 /\ alert.flying = {n}
    BY <1>1, <2>1 DEF AlertInv
  <2>3. alert'.flying = {} /\ alert'.cool = ok /\ alert'.heard = (IF ok THEN 1 ELSE 0)
    BY <2>1, <2>2
  <2>4. alert' \in AlertIs
    BY <2>1, <2>2, <1>1 DEF AlertIs
  <2>5. AlertInv'
    BY <2>3, <2>4 DEF AlertInv, AlertIs
  <2> QED
    BY <2>1, <2>5, MishapsCount
<1>4. CASE CooldownOver
  <2>1. alert' = [alert EXCEPT !.cool = FALSE, !.heard = 0] /\ alert.cool /\ UNCHANGED mishapVars
    BY <1>4 DEF CooldownOver
  <2>2. /\ alert' \in AlertIs /\ alert'.flying = alert.flying
        /\ alert'.cool = FALSE /\ alert'.heard = 0
    BY <1>1, <2>1 DEF AlertIs
  <2> QED
    BY <2>1, <2>2, MishapsCount DEF AlertInv, AlertIs
<1> QED
  BY <1>2, <1>3, <1>4 DEF AlertNext

ReportIs == [mark : BOOLEAN, logs : BOOLEAN, accepted : BOOLEAN, unread : BOOLEAN]

LEMMA ReportSteps == ASSUME ReportInv, MishapInv, ReportNext PROVE ReportInv' /\ MishapInv' /\ faults' >= faults
<1>1. report \in ReportIs /\ reportRun \in [Runs -> {"idle", "send", "delete", "record"}] /\ lined \in BOOLEAN
  BY DEF ReportInv, ReportIs
<1>2. ASSUME NEW r \in Runs, UsageTick(r) PROVE ReportInv' /\ MishapInv' /\ faults' >= faults
  <2>1. UNCHANGED lined /\ report.mark = FALSE
    BY <1>1, <1>2 DEF UsageTick, ReportIs
  <2>2. CASE report.logs /\ Stage(r, "send") /\ UNCHANGED <<report, mishapVars>>
    BY <1>1, <1>2, <2>1, <2>2, MishapsCount DEF Stage, ReportInv
  <2>4. CASE Faulted(FALSE) /\ report' = [report EXCEPT !.mark = TRUE, !.unread = TRUE] /\ UNCHANGED reportRun
    <3>1. /\ report' \in ReportIs /\ report'.unread = TRUE
          /\ report'.logs = report.logs /\ report'.accepted = report.accepted
      BY <1>1, <2>4 DEF ReportIs
    <3> QED
      BY <1>1, <2>1, <2>4, <3>1, MishapsCount DEF ReportInv, ReportIs
  <2>3. CASE \E ok \in BOOLEAN :
                ~report.logs /\ Faulted(ok) /\ report' = [report EXCEPT !.mark = ok] /\ UNCHANGED reportRun
    <3>1. PICK ok \in BOOLEAN :
                ~report.logs /\ Faulted(ok) /\ report' = [report EXCEPT !.mark = ok] /\ UNCHANGED reportRun
      BY <2>3
    <3>2. /\ report' \in ReportIs /\ report'.mark = ok
          /\ report'.logs = report.logs /\ report'.accepted = report.accepted
      BY <1>1, <3>1 DEF ReportIs
    <3>3. report.logs = FALSE
      BY <1>1, <3>1 DEF ReportIs
    <3>4. report.accepted = TRUE \/ lined = FALSE
      BY <1>1, <3>3 DEF ReportInv
    <3> QED
      BY <1>1, <2>1, <3>1, <3>2, <3>4, MishapsCount DEF ReportInv, ReportIs
  <2> QED
    BY <1>2, <2>2, <2>3, <2>4 DEF UsageTick
<1>3. ASSUME NEW r \in Runs, NEW ok \in BOOLEAN, UsageSend(r, ok) PROVE ReportInv' /\ MishapInv' /\ faults' >= faults
  <2>1. /\ reportRun' = [reportRun EXCEPT ![r] = IF ok THEN "delete" ELSE "idle"]
        /\ report' = [report EXCEPT !.accepted = @ \/ ok] /\ UNCHANGED lined /\ Refused(ok)
    BY <1>3 DEF UsageSend, Stage
  <2>2. /\ report' \in ReportIs /\ report'.mark = report.mark /\ report'.logs = report.logs
        /\ report'.unread = report.unread
    BY <1>1, <2>1 DEF ReportIs
  <2>3. report'.accepted = (report.accepted \/ ok)
    BY <1>1, <2>1 DEF ReportIs
  <2>4. /\ report.accepted = TRUE => report'.accepted = TRUE
        /\ ok = TRUE => report'.accepted = TRUE
    BY <1>1, <2>3 DEF ReportIs
  <2>5. \A s \in Runs : reportRun'[s] \in {"delete", "record"} => report'.accepted = TRUE
    <3>1. ASSUME NEW s \in Runs, reportRun'[s] \in {"delete", "record"} PROVE report'.accepted = TRUE
      <4>1. CASE s = r
        BY <1>1, <2>1, <2>4, <3>1, <4>1
      <4>2. CASE s # r
        BY <1>1, <2>1, <2>4, <3>1, <4>2 DEF ReportInv
      <4> QED
        BY <4>1, <4>2
    <3> QED
      BY <3>1
  <2>6. reportRun' \in [Runs -> {"idle", "send", "delete", "record"}]
    BY <1>1, <2>1
  <2>7. ReportInv'
    BY <1>1, <2>1, <2>2, <2>4, <2>5, <2>6 DEF ReportInv, ReportIs
  <2> QED
    BY <2>1, <2>7, MishapsCount
<1>4. ASSUME NEW r \in Runs, NEW ok \in BOOLEAN, UsageDelete(r, ok) PROVE ReportInv' /\ MishapInv' /\ faults' >= faults
  <2>1. /\ reportRun' = [reportRun EXCEPT ![r] = "record"] /\ reportRun[r] = "delete"
        /\ report' = [report EXCEPT !.logs = @ /\ ~ok] \/ UNCHANGED report
        /\ UNCHANGED lined /\ Faulted(ok)
    BY <1>4 DEF UsageDelete, Stage
  <2>2. /\ report' \in ReportIs /\ report'.mark = report.mark /\ report'.accepted = report.accepted
        /\ report'.unread = report.unread
    BY <1>1, <2>1 DEF ReportIs
  <2>3. report.accepted = TRUE
    BY <2>1 DEF ReportInv
  <2>4. ReportInv'
    BY <1>1, <2>1, <2>2, <2>3 DEF ReportInv, ReportIs
  <2> QED
    BY <2>1, <2>4, MishapsCount
<1>5. ASSUME NEW r \in Runs, NEW ok \in BOOLEAN, UsageRecord(r, ok) PROVE ReportInv' /\ MishapInv' /\ faults' >= faults
  <2>1. /\ reportRun' = [reportRun EXCEPT ![r] = "idle"] /\ reportRun[r] = "record"
        /\ report' = [report EXCEPT !.mark = @ \/ ok] /\ UNCHANGED lined /\ Faulted(ok)
    BY <1>5 DEF UsageRecord, Stage
  <2>2. /\ report' \in ReportIs /\ report'.logs = report.logs /\ report'.accepted = report.accepted
    BY <1>1, <2>1 DEF ReportIs
  <2>3. report.accepted = TRUE
    BY <2>1 DEF ReportInv
  <2>4. ReportInv'
    BY <1>1, <2>1, <2>2, <2>3 DEF ReportInv, ReportIs
  <2> QED
    BY <2>1, <2>4, MishapsCount
<1>6. CASE UsageCrash
  <2>1. reportRun' = [r \in Runs |-> "idle"] /\ UNCHANGED <<report, lined>> /\ Faulted(FALSE)
    BY <1>6 DEF UsageCrash
  <2>2. ReportInv'
    BY <2>1 DEF ReportInv
  <2> QED
    BY <2>1, <2>2, MishapsCount
<1> QED
  BY <1>2, <1>3, <1>4, <1>5, <1>6 DEF ReportNext

\* The parts of the invariant of the wrap that a run r of records f must meet,
\* where the members g were told.
RunFine(f, g) ==
    /\ f.copy.sent \subseteq g /\ (f.copy.today = TRUE => g = Members)
    /\ f.pc = "send" /\ f.failed = FALSE => Members \ f.todo \subseteq f.copy.sent

\* What a step of one run must show for the invariant to hold after it.
LEMMA WrapMoves ==
    ASSUME WrapInv, NEW r \in Runs, NEW f \in WrapRunRecord,
           wrapRun' = [wrapRun EXCEPT ![r] = f], RunFine(f, heard'),
           heard' \in SUBSET Members, heard \subseteq heard', UNCHANGED stats,
           wrap' \in Wraps, TellsTrue(wrap)', gate' \in BOOLEAN, gate' = TRUE => heard' = Members
    PROVE  WrapInv'
<1>1. wrapRun' \in [Runs -> WrapRunRecord]
  BY DEF WrapInv
<1>2. ASSUME NEW s \in Runs PROVE RunFine(wrapRun'[s], heard')
  <2>1. CASE s = r
    BY <2>1 DEF WrapInv
  <2>2. CASE s # r
    <3>1. wrapRun'[s] = wrapRun[s]
      BY <2>2 DEF WrapInv
    <3>2. heard \in SUBSET Members /\ TellsTrue(wrapRun[s].copy)
      BY DEF WrapInv
    <3>3. wrapRun[s].copy.sent \subseteq heard' /\ (wrapRun[s].copy.today = TRUE => heard' = Members)
      BY <3>2 DEF TellsTrue
    <3> QED
      BY <3>1, <3>3 DEF RunFine, WrapInv
  <2> QED
    BY <2>1, <2>2
<1>3. stats' \in 0..LastStats
  BY DEF WrapInv
<1>4. \A s \in Runs : /\ TellsTrue(wrapRun[s].copy)'
                      /\ wrapRun'[s].pc = "send" /\ wrapRun'[s].failed = FALSE =>
                             Members \ wrapRun'[s].todo \subseteq wrapRun'[s].copy.sent
  BY <1>2 DEF RunFine, TellsTrue
<1> QED
  BY <1>1, <1>3, <1>4 DEF WrapInv

LEMMA NoRunIs == NoWrap \in Wraps /\ NoWrapRun \in WrapRunRecord /\ \A g : RunFine(NoWrapRun, g)
BY NoticeConstants DEF NoWrap, NoWrapRun, Wraps, WrapRunRecord, RunFine

\* A record that is written, or is not.
LEMMA SavedWrap ==
    ASSUME WrapInv, NEW copy \in Wraps, TellsTrue(copy), NEW ok \in BOOLEAN, SaveWrap(copy, ok), UNCHANGED heard
    PROVE  wrap' \in Wraps /\ TellsTrue(wrap)' /\ Faulted(ok)
BY DEF SaveWrap, WrapInv, TellsTrue

LEMMA WrapTickFine == ASSUME WrapInv, NEW r \in Runs, WrapTick(r) PROVE WrapInv'
<1> DEFINE f == [NoWrapRun EXCEPT !.pc = "stats", !.copy = wrap]
<1>1. f \in WrapRunRecord /\ f.copy = wrap /\ f.pc = "stats"
  BY NoRunIs DEF WrapInv, WrapRunRecord, NoWrapRun
<1>2. wrapRun' = [wrapRun EXCEPT ![r] = f] /\ UNCHANGED <<wrap, gate, stats, heard>>
  BY DEF WrapTick
<1> HIDE DEF f
<1>3. RunFine(f, heard')
  BY <1>1, <1>2 DEF RunFine, WrapInv, TellsTrue
<1> QED
  BY <1>1, <1>2, <1>3, WrapMoves DEF WrapInv, TellsTrue

LEMMA StatsFailFine == ASSUME WrapInv, NEW r \in Runs, StatsFail(r) PROVE WrapInv'
<1>1. wrapRun' = [wrapRun EXCEPT ![r] = NoWrapRun] /\ UNCHANGED <<wrap, gate, stats, heard>>
  BY DEF StatsFail
<1> QED
  BY <1>1, NoRunIs, WrapMoves DEF WrapInv, TellsTrue

LEMMA StatsReadFine ==
    ASSUME WrapInv, NEW r \in Runs, StatsRead(r)
    PROVE  WrapInv' /\ (UNCHANGED mishapVars \/ \E ok \in BOOLEAN : Faulted(ok))
<1> DEFINE run == wrapRun[r]
<1>1. /\ run \in WrapRunRecord /\ run.copy \in Wraps /\ TellsTrue(run.copy)
      /\ UNCHANGED <<stats, heard>>
  BY DEF WrapInv, WrapRunRecord, StatsRead
<1>2. CASE run.copy.today /\ run.copy.ts = stats /\ run.copy.sent = Members /\ gate' = TRUE
           /\ wrapRun' = [wrapRun EXCEPT ![r] = NoWrapRun] /\ UNCHANGED <<wrap, mishapVars>>
  <2>1. heard' = Members
    BY <1>1, <1>2 DEF WrapInv, TellsTrue
  <2>2. WrapInv'
    BY <1>1, <1>2, <2>1, NoRunIs, WrapMoves DEF WrapInv, TellsTrue
  <2> QED
    BY <1>2, <2>2
<1>3. CASE /\ \E ok \in BOOLEAN : SaveWrap([run.copy EXCEPT !.deferred = TRUE], ok)
           /\ wrapRun' = [wrapRun EXCEPT ![r] = NoWrapRun] /\ UNCHANGED gate
  <2> DEFINE w == [run.copy EXCEPT !.deferred = TRUE]
  <2>1. w \in Wraps /\ w.sent = run.copy.sent /\ w.today = run.copy.today
    BY <1>1 DEF Wraps
  <2>2. PICK ok \in BOOLEAN : SaveWrap(w, ok)
    BY <1>3
  <2> HIDE DEF w
  <2>3. TellsTrue(w)
    BY <1>1, <2>1 DEF TellsTrue
  <2>4. wrap' \in Wraps /\ TellsTrue(wrap)' /\ Faulted(ok)
    BY <1>1, <2>1, <2>2, <2>3, SavedWrap
  <2>5. gate' \in BOOLEAN /\ (gate' = TRUE => heard' = Members) /\ heard' \in SUBSET Members
    BY <1>1, <1>3 DEF WrapInv
  <2>6. WrapInv'
    BY <1>1, <1>3, <2>4, <2>5, NoRunIs, WrapMoves
  <2> QED
    BY <2>4, <2>6
<1>4. CASE /\ wrapRun' = [wrapRun EXCEPT ![r].pc = "send", ![r].ts = stats, ![r].todo = Members \ run.copy.sent]
           /\ UNCHANGED <<wrap, gate, mishapVars>>
  <2> DEFINE f == [run EXCEPT !.pc = "send", !.ts = stats, !.todo = Members \ run.copy.sent]
  <2>1. wrapRun' = [wrapRun EXCEPT ![r] = f]
    BY <1>4 DEF WrapInv, WrapRunRecord
  <2>2. /\ f \in WrapRunRecord /\ f.copy = run.copy
        /\ f.todo = Members \ run.copy.sent
    BY <1>1 DEF WrapInv, WrapRunRecord
  <2> HIDE DEF f
  <2>3. RunFine(f, heard')
    BY <1>1, <2>2 DEF RunFine, TellsTrue
  <2>4. WrapInv'
    BY <1>1, <1>4, <2>1, <2>2, <2>3, WrapMoves DEF WrapInv, TellsTrue
  <2> QED
    BY <1>4, <2>4
<1> QED
  BY <1>2, <1>3, <1>4 DEF StatsRead

LEMMA WrapSendFine ==
    ASSUME WrapInv, NEW r \in Runs, NEW ok \in BOOLEAN, WrapSend(r, ok)
    PROVE  WrapInv'
<1> DEFINE run == wrapRun[r]
           m == CHOOSE n \in run.todo : \A o \in run.todo : n <= o
           told == IF ok THEN run.copy.sent \cup {m} ELSE run.copy.sent
           w == [run.copy EXCEPT !.sent = told]
           f == [run EXCEPT !.todo = run.todo \ {m}, !.failed = run.failed \/ ~ok, !.copy = w]
<1>1. /\ run \in WrapRunRecord /\ run.copy \in Wraps /\ run.copy.sent \in SUBSET Members
      /\ run.todo \in SUBSET Members /\ run.todo # {} /\ run.pc = "send"
  BY DEF WrapInv, WrapRunRecord, Wraps, WrapSend
<1>2. m \in run.todo
  <2>1. run.todo \in SUBSET Int /\ 1 \in Int /\ \A n \in run.todo : 1 <= n
    BY <1>1 DEF Members
  <2>2. \E n \in run.todo : \A o \in run.todo : n <= o
    BY <1>1, <2>1, LeastIs, Zenon
  <2> QED
    BY <2>2
<1>3. /\ wrapRun' = [wrapRun EXCEPT ![r].todo = @ \ {m}, ![r].failed = @ \/ ~ok,
                                    ![r].copy.sent = IF ok THEN @ \cup {m} ELSE @]
      /\ heard' = (IF ok THEN heard \cup {m} ELSE heard) /\ UNCHANGED <<wrap, gate, stats>>
  BY DEF WrapSend
<1> HIDE DEF m
<1>4. wrapRun' = [wrapRun EXCEPT ![r] = f]
  <2> DEFINE fails == run.failed \/ ~ok
  <2>1. wrapRun \in [Runs -> WrapRunRecord] /\ wrapRun[r] = run
    BY DEF WrapInv
  <2>2. wrapRun' = [wrapRun EXCEPT ![r].todo = run.todo \ {m}, ![r].failed = fails, ![r].copy.sent = told]
    BY <1>3
  <2> HIDE DEF fails, told
  <2>3. [wrapRun EXCEPT ![r].todo = run.todo \ {m}, ![r].failed = fails, ![r].copy.sent = told]
          = [wrapRun EXCEPT ![r] = [run EXCEPT !.todo = run.todo \ {m}, !.failed = fails, !.copy = w]]
    BY <2>1 DEF WrapRunRecord, Wraps
  <2> QED
    BY <2>2, <2>3 DEF fails
<1>5. told \in SUBSET Members /\ told \subseteq heard' /\ heard' \in SUBSET Members /\ heard \subseteq heard'
  BY <1>1, <1>2, <1>3 DEF WrapInv, TellsTrue
<1>6. ok = TRUE => told = run.copy.sent \cup {m}
  OBVIOUS
<1>7. run.copy.sent \subseteq told
  OBVIOUS
<1> HIDE DEF told
<1>8. w \in Wraps /\ w.sent = told /\ w.today = run.copy.today
  BY <1>1, <1>5 DEF Wraps
<1> HIDE DEF w
<1>9. /\ f \in WrapRunRecord /\ f.copy = w /\ f.todo = run.todo \ {m}
      /\ f.pc = "send"
  BY <1>1, <1>8 DEF WrapRunRecord
<1>10. f.failed = (run.failed \/ ~ok)
  BY <1>1 DEF WrapRunRecord
<1> HIDE DEF f
<1>11. ASSUME f.failed = FALSE PROVE Members \ f.todo \subseteq told
  <2>1. ok = TRUE /\ run.failed = FALSE
    BY <1>1, <1>10, <1>11 DEF WrapRunRecord
  <2>2. Members \ run.todo \subseteq run.copy.sent
    BY <1>1, <2>1 DEF WrapInv
  <2> QED
    BY <1>6, <1>9, <2>1, <2>2
<1>12. run.copy.today = TRUE => heard' = Members
  BY <1>1, <1>5 DEF WrapInv, TellsTrue
<1>13. RunFine(f, heard')
  BY <1>5, <1>8, <1>9, <1>11, <1>12 DEF RunFine
<1>14. wrap' \in Wraps /\ TellsTrue(wrap)' /\ gate' \in BOOLEAN /\ (gate' = TRUE => heard' = Members)
  BY <1>3, <1>5 DEF WrapInv, TellsTrue
<1> QED
  BY <1>3, <1>4, <1>5, <1>9, <1>13, <1>14, WrapMoves

LEMMA WrapSaveFine ==
    ASSUME WrapInv, NEW r \in Runs, NEW ok \in BOOLEAN, WrapSave(r, ok)
    PROVE  WrapInv' /\ Faulted(ok)
<1> DEFINE run == wrapRun[r]
           done == [run.copy EXCEPT !.ts = run.ts, !.today = TRUE, !.deferred = FALSE]
<1>1. /\ run \in WrapRunRecord /\ run.copy \in Wraps /\ TellsTrue(run.copy) /\ run.todo = {}
      /\ run.pc = "send" /\ run.copy.sent \in SUBSET Members
  BY DEF WrapInv, WrapRunRecord, Wraps, WrapSave
<1>2. /\ SaveWrap(IF run.failed THEN run.copy ELSE done, ok)
      /\ wrapRun' = [wrapRun EXCEPT ![r] = NoWrapRun] /\ UNCHANGED <<stats, heard>>
      /\ gate' = (gate \/ (ok /\ ~run.failed))
  BY DEF WrapSave
<1>3. run.failed = FALSE => heard = Members
  BY <1>1 DEF WrapInv, TellsTrue
<1>4. done \in Wraps /\ done.sent = run.copy.sent
  BY <1>1 DEF Wraps, WrapRunRecord
<1> HIDE DEF done
<1>5. (IF run.failed THEN run.copy ELSE done) \in Wraps /\ TellsTrue(IF run.failed THEN run.copy ELSE done)
  <2>1. CASE run.failed
    BY <1>1, <2>1
  <2>2. CASE ~run.failed
    <3>1. run.failed = FALSE
      BY <1>1, <2>2 DEF WrapRunRecord
    <3> QED
      BY <1>1, <1>3, <1>4, <2>2, <3>1 DEF TellsTrue
  <2> QED
    BY <2>1, <2>2
<1>6. wrap' \in Wraps /\ TellsTrue(wrap)' /\ Faulted(ok)
  BY <1>2, <1>5, SavedWrap
<1>7. gate' \in BOOLEAN /\ (gate' = TRUE => gate = TRUE \/ run.failed = FALSE)
  BY <1>1, <1>2 DEF WrapInv, WrapRunRecord
<1>8. gate' = TRUE => heard' = Members
  BY <1>2, <1>3, <1>7 DEF WrapInv
<1>9. heard' \in SUBSET Members /\ heard \subseteq heard'
  BY <1>2 DEF WrapInv
<1>10. WrapInv'
  BY <1>2, <1>6, <1>7, <1>8, <1>9, NoRunIs, WrapMoves
<1> QED
  BY <1>6, <1>10

LEMMA WrapSteps == ASSUME WrapInv, MishapInv, WrapNext PROVE WrapInv' /\ MishapInv' /\ faults' >= faults
<1>1. CASE StatsPublished
  <2>1. stats' \in 0..LastStats /\ UNCHANGED <<wrap, gate, wrapRun, heard, mishapVars>>
    BY <1>1, NoticeConstants DEF StatsPublished, WrapInv
  <2> QED
    BY <2>1, MishapsCount DEF WrapInv, TellsTrue
<1>2. CASE RetryDue
  <2>1. wrap' = [wrap EXCEPT !.deferred = FALSE] /\ UNCHANGED <<gate, wrapRun, stats, heard, mishapVars>>
    BY <1>2 DEF RetryDue
  <2>2. wrap' \in Wraps /\ wrap'.sent = wrap.sent /\ wrap'.today = wrap.today
    BY <2>1 DEF WrapInv, Wraps
  <2> QED
    BY <2>1, <2>2, MishapsCount DEF WrapInv, TellsTrue
<1>3. CASE WrapCrash
  <2>1. wrapRun' = [r \in Runs |-> NoWrapRun] /\ gate' = FALSE /\ UNCHANGED <<wrap, stats, heard>> /\ Faulted(FALSE)
    BY <1>3 DEF WrapCrash
  <2>2. WrapInv'
    BY <2>1, NoRunIs DEF WrapInv, TellsTrue, RunFine
  <2> QED
    BY <2>1, <2>2, MishapsCount
<1>4. ASSUME NEW r \in Runs, WrapTick(r) PROVE WrapInv' /\ MishapInv' /\ faults' >= faults
  BY <1>4, WrapTickFine, MishapsCount DEF WrapTick
<1>5. ASSUME NEW r \in Runs, StatsFail(r) PROVE WrapInv' /\ MishapInv' /\ faults' >= faults
  <2>1. Refused(FALSE)
    BY <1>5 DEF StatsFail
  <2> QED
    BY <1>5, <2>1, StatsFailFine, MishapsCount
<1>6. ASSUME NEW r \in Runs, StatsRead(r) PROVE WrapInv' /\ MishapInv' /\ faults' >= faults
  BY <1>6, StatsReadFine, MishapsCount
<1>7. ASSUME NEW r \in Runs, NEW ok \in BOOLEAN, WrapSend(r, ok) PROVE WrapInv' /\ MishapInv' /\ faults' >= faults
  <2>1. Refused(ok)
    BY <1>7 DEF WrapSend
  <2> QED
    BY <1>7, <2>1, WrapSendFine, MishapsCount
<1>8. ASSUME NEW r \in Runs, NEW ok \in BOOLEAN, WrapSave(r, ok) PROVE WrapInv' /\ MishapInv' /\ faults' >= faults
  BY <1>8, WrapSaveFine, MishapsCount
<1> QED
  BY <1>1, <1>2, <1>3, <1>4, <1>5, <1>6, <1>7, <1>8 DEF WrapNext

LEMMA PlacesAre == Places \in Seq(Chats \X Components) /\ EachOnce(Places)
<1>1. NumChats \in Nat
  BY NoticeConstants
<1>2. ASSUME NEW i \in 1..2 * NumChats
      PROVE  (i + 1) \div 2 \in Chats
  BY <1>1 DEF Chats
<1>3. ASSUME NEW i \in 1..2 * NumChats
      PROVE  (IF i % 2 = 1 THEN "text" ELSE "media") \in Components
  BY DEF Components
<1>4. Places \in [1..2 * NumChats -> Chats \X Components] /\ 2 * NumChats \in Nat
  BY <1>1, <1>2, <1>3 DEF Places
<1>5. Places \in Seq(Chats \X Components) /\ Len(Places) = 2 * NumChats
  BY <1>4
<1>6. ASSUME NEW i \in 1..2 * NumChats, NEW j \in 1..2 * NumChats, Places[i] = Places[j] PROVE i = j
  <2>1. (i + 1) \div 2 = (j + 1) \div 2 /\ (IF i % 2 = 1 THEN "text" ELSE "media") = (IF j % 2 = 1 THEN "text" ELSE "media")
    BY <1>6 DEF Places
  <2>2. i % 2 = 1 <=> j % 2 = 1
    BY <2>1
  <2> QED
    BY <1>1, <2>1, <2>2
<1> QED
  BY <1>5, <1>6 DEF EachOnce

\* What a filter keeps of a list that names each place once does so, too.
LEMMA KeptOnce ==
    ASSUME NEW E, NEW q \in Seq(E), EachOnce(q), NEW T
    PROVE  /\ Filtered(q, T) \in Seq(E) /\ EachOnce(Filtered(q, T))
           /\ \A i \in 1..Len(Filtered(q, T)) :
                 Filtered(q, T)[i] \in T /\ \E j \in 1..Len(q) : Filtered(q, T)[i] = q[j]
<1> DEFINE z == Filtered(q, T)
<1>1. z \in Seq(E) /\ DrawnFrom(z, q, Len(q)) /\ \A i \in 1..Len(z) : z[i] \in T
  BY KeptDrawn
<1> HIDE DEF z
<1>2. PICK p \in [1..Len(z) -> 1..Len(q)] : /\ \A i, j \in 1..Len(z) : p[i] = p[j] => i = j
                                            /\ \A j \in 1..Len(z) : z[j] = q[p[j]]
  BY <1>1 DEF DrawnFrom
<1>3. EachOnce(z)
  <2>1. ASSUME NEW i \in 1..Len(z), NEW j \in 1..Len(z), z[i] = z[j] PROVE i = j
    <3>1. q[p[i]] = q[p[j]] /\ p[i] \in 1..Len(q) /\ p[j] \in 1..Len(q)
      BY <1>2, <2>1
    <3>2. p[i] = p[j]
      BY <3>1 DEF EachOnce
    <3> QED
      BY <1>2, <3>2
  <2> QED
    BY <2>1 DEF EachOnce
<1>4. \A i \in 1..Len(z) : \E j \in 1..Len(q) : z[i] = q[j]
  BY <1>2
<1> QED
  BY <1>1, <1>3, <1>4 DEF z

LEMMA TailOnce ==
    ASSUME NEW E, NEW q \in Seq(E), EachOnce(q), q # <<>>
    PROVE  /\ Tail(q) \in Seq(E) /\ EachOnce(Tail(q)) /\ Head(q) \in E /\ 1 \in 1..Len(q) /\ Head(q) = q[1]
           /\ \A i \in 1..Len(Tail(q)) : Tail(q)[i] # Head(q) /\ \E j \in 1..Len(q) : Tail(q)[i] = q[j]
<1>1. /\ Tail(q) \in Seq(E) /\ Len(Tail(q)) = Len(q) - 1 /\ Len(q) \in Nat \ {0} /\ Head(q) = q[1] /\ Head(q) \in E
      /\ \A i \in 1..Len(Tail(q)) : Tail(q)[i] = q[i + 1] /\ i + 1 \in 1..Len(q) /\ i + 1 # 1
  OBVIOUS
<1>2. 1 \in 1..Len(q)
  BY <1>1
<1>3. \A i \in 1..Len(Tail(q)) : Tail(q)[i] # Head(q) /\ \E j \in 1..Len(q) : Tail(q)[i] = q[j]
  BY <1>1, <1>2 DEF EachOnce
<1>4. EachOnce(Tail(q))
  <2>1. ASSUME NEW i \in 1..Len(Tail(q)), NEW j \in 1..Len(Tail(q)), Tail(q)[i] = Tail(q)[j] PROVE i = j
    <3>1. i + 1 = j + 1
      BY <1>1, <2>1 DEF EachOnce
    <3> QED
      BY <3>1
  <2> QED
    BY <2>1 DEF EachOnce
<1> QED
  BY <1>1, <1>2, <1>3, <1>4

LEMMA PlaceCounts ==
    ASSUME NEW S \in SUBSET (Chats \X Components)
    PROVE  /\ IsFiniteSet(S) /\ Cardinality(S) \in Nat
           /\ \A T \in SUBSET S : Cardinality(T) \in Nat /\ Cardinality(T) <= Cardinality(S)
           /\ \A x : Cardinality(S \cup {x}) <= Cardinality(S) + 1
           /\ \A x \in S : Cardinality(S \ {x}) = Cardinality(S) - 1
<1>1. IsFiniteSet(Chats)
  <2>1. 1 \in Int /\ NumChats \in Int
    BY NoticeConstants
  <2> QED
    BY <2>1, FS_Interval DEF Chats
<1>2. IsFiniteSet(Components)
  <2>1. IsFiniteSet({"text"})
    BY FS_Singleton
  <2>2. IsFiniteSet({"text"} \cup {"media"})
    BY <2>1, FS_AddElement
  <2>3. Components = {"text"} \cup {"media"}
    BY DEF Components
  <2> QED
    BY <2>2, <2>3
<1>3. IsFiniteSet(Chats \X Components)
  BY <1>1, <1>2, FS_Product
<1>4. IsFiniteSet(S) /\ Cardinality(S) \in Nat
  BY <1>3, FS_Subset, FS_CardinalityType
<1>5. ASSUME NEW T \in SUBSET S PROVE Cardinality(T) \in Nat /\ Cardinality(T) <= Cardinality(S)
  BY <1>4, FS_Subset, FS_CardinalityType
<1>6. ASSUME NEW x PROVE Cardinality(S \cup {x}) <= Cardinality(S) + 1
  BY <1>4, FS_AddElement
<1>7. ASSUME NEW x \in S PROVE Cardinality(S \ {x}) = Cardinality(S) - 1
  BY <1>4, FS_RemoveElement
<1> QED
  BY <1>4, <1>5, <1>6, <1>7

\* A box that leaves the outbox leaves it delivered.
ReachedStep ==
    box.id # 0 /\ box'.id # box.id =>
       \A c \in Chats : box.to[c] # NoJid => {c} \X Components \subseteq got

LEMMA ForgottenIs ==
    ASSUME OutboxInv
    PROVE  /\ Forgotten(check, box, got) \in SUBSET (Chats \X Components)
           /\ Unrecorded(box, got) \in SUBSET (Chats \X Components)
           /\ Cardinality(Forgotten(check, box, got)) \in Nat
           /\ Cardinality(Unrecorded(box, got)) \in Nat
           /\ Cardinality(Unrecorded(box, got)) <= Cardinality(Forgotten(check, box, got)) + 1
           /\ check.pc # "mark" => Forgotten(check, box, got) = Unrecorded(box, got)
<1>1. /\ Forgotten(check, box, got) \in SUBSET (Chats \X Components)
      /\ Unrecorded(box, got) \in SUBSET (Chats \X Components)
  BY DEF OutboxInv, Forgotten, Unrecorded
<1>2. check.pc # "mark" => Forgotten(check, box, got) = Unrecorded(box, got)
  BY DEF Forgotten, BeingRecorded
<1>3. /\ Cardinality(Forgotten(check, box, got)) \in Nat
      /\ Cardinality(Unrecorded(box, got)) \in Nat
  BY <1>1, PlaceCounts
<1> DEFINE F == Forgotten(check, box, got)
           x == Head(check.todo)
<1>4. Unrecorded(box, got) \subseteq F \cup {x}
  BY DEF Forgotten, BeingRecorded
<1>5. Cardinality(Unrecorded(box, got)) <= Cardinality(F) + 1
  <2> HIDE DEF F, x
  <2>1. CASE x \in Chats \X Components
    <3>1. F \cup {x} \in SUBSET (Chats \X Components)
      BY <1>1, <2>1 DEF F
    <3>2. Cardinality(Unrecorded(box, got)) <= Cardinality(F \cup {x}) /\ Cardinality(F \cup {x}) \in Nat
      BY <1>4, <3>1, PlaceCounts
    <3>3. Cardinality(F \cup {x}) <= Cardinality(F) + 1
      BY <1>1, PlaceCounts DEF F
    <3> QED
      BY <1>3, <3>2, <3>3 DEF F
  <2>2. CASE x \notin Chats \X Components
    <3>1. Unrecorded(box, got) \in SUBSET F
      BY <1>1, <1>4, <2>2
    <3>2. Cardinality(Unrecorded(box, got)) <= Cardinality(F)
      BY <1>1, <3>1, PlaceCounts DEF F
    <3> QED
      BY <1>3, <3>2 DEF F
  <2> QED
    BY <2>1, <2>2
<1> QED
  BY <1>1, <1>2, <1>3, <1>5

LEMMA NoCheckIs ==
    /\ NoBox \in Boxes /\ NoBox.id = 0 /\ \A c \in Chats, k \in Components : NoBox.st[c][k] = "pending"
    /\ NoCheck \in CheckRecord /\ NoCheck.pc = "idle"
    /\ [NoCheck EXCEPT !.pc = "fetch"] \in CheckRecord /\ [NoCheck EXCEPT !.pc = "fetch"].pc = "fetch"
<1>1. NoBox \in Boxes /\ NoBox.id = 0 /\ \A c \in Chats, k \in Components : NoBox.st[c][k] = "pending"
  BY NoticeConstants DEF NoBox, Boxes, Statuses
<1>2. NoCheck \in CheckRecord /\ NoCheck.pc = "idle"
  BY <1>1 DEF NoCheck, CheckRecord
<1>3. [NoCheck EXCEPT !.pc = "fetch"] \in CheckRecord /\ [NoCheck EXCEPT !.pc = "fetch"].pc = "fetch"
  BY <1>2 DEF CheckRecord
<1> QED
  BY <1>1, <1>2, <1>3

\* A check that ends where nothing waited to be recorded, or by a failure.
LEMMA CheckEnds ==
    ASSUME OutboxInv, check' = NoCheck, UNCHANGED <<latest, box, got, repeats>>, cursor' \in 0..LastRelease,
           MishapInv, MishapInv', faults' >= faults, check.pc # "mark" \/ faults' = faults + 1
    PROVE  OutboxInv'
<1>1. check' \in CheckRecord /\ check'.pc = "idle"
  BY NoCheckIs
<1>2. CheckFine(check', box', got')
  BY <1>1 DEF CheckFine
<1>3. Forgotten(check', box', got') = Unrecorded(box, got)
  BY <1>1 DEF Forgotten, BeingRecorded, Unrecorded
<1>4. repeats' + Cardinality(Unrecorded(box, got)) <= faults'
  BY ForgottenIs DEF OutboxInv, MishapInv
<1> QED
  BY <1>1, <1>2, <1>3, <1>4 DEF OutboxInv

LEMMA ReleaseTickFine == ASSUME OutboxInv, MishapInv, ReleaseTick PROVE OutboxInv' /\ ReachedStep /\ UNCHANGED mishapVars
<1>1. /\ check' = (IF box # NoBox THEN Drain(box, FALSE) ELSE [NoCheck EXCEPT !.pc = "fetch"])
      /\ UNCHANGED <<latest, cursor, box, got, repeats, mishapVars>> /\ check.pc = "idle"
  BY DEF ReleaseTick
<1> DEFINE S == {s \in Chats \X Components : box.to[s[1]] # NoJid /\ box.st[s[1]][s[2]] # "delivered"}
<1>2. /\ ToSend(box) \in Seq(Chats \X Components) /\ EachOnce(ToSend(box))
      /\ \A i \in 1..Len(ToSend(box)) : ToSend(box)[i] \in S
  <2> HIDE DEF S
  <2>1. ToSend(box) = Filtered(Places, S)
    BY DEF ToSend, S
  <2> QED
    BY <2>1, PlacesAre, KeptOnce
<1>3. CASE box # NoBox
  <2>1. check' = Drain(box, FALSE)
    BY <1>1, <1>3
  <2>2. /\ check'.pc = "drain" /\ check'.box = box /\ check'.todo = ToSend(box)
        /\ check'.outcome = "none" /\ check' \in CheckRecord
    BY <1>2, <2>1 DEF Drain, CheckRecord, OutboxInv
  <2>3. TodoFine(check')
    BY <1>2, <2>2 DEF TodoFine
  <2>4. box.id # 0
    BY <1>3 DEF OutboxInv, BoxFine
  <2>5. CheckFine(check', box', got')
    BY <1>1, <2>2, <2>3, <2>4 DEF CheckFine
  <2>6. Forgotten(check', box', got') = Forgotten(check, box, got)
    BY <1>1, <2>2 DEF Forgotten, BeingRecorded, Unrecorded
  <2> QED
    BY <1>1, <2>2, <2>5, <2>6 DEF OutboxInv, ReachedStep, mishapVars
<1>4. CASE box = NoBox
  <2>1. check' = [NoCheck EXCEPT !.pc = "fetch"]
    BY <1>1, <1>4
  <2>2. check' \in CheckRecord /\ check'.pc = "fetch"
    BY <2>1, NoCheckIs
  <2>3. CheckFine(check', box', got')
    BY <1>1, <1>4, <2>2 DEF CheckFine
  <2>4. Forgotten(check', box', got') = Forgotten(check, box, got)
    BY <1>1, <2>2 DEF Forgotten, BeingRecorded, Unrecorded
  <2> QED
    BY <1>1, <2>2, <2>3, <2>4 DEF OutboxInv, ReachedStep, mishapVars
<1> QED
  BY <1>3, <1>4

\* What a record of the component at the head changes.
LEMMA MarkedIs ==
    ASSUME OutboxInv, check.pc \in {"drain", "send", "mark"}, check.todo # <<>>, NEW st \in Statuses
    PROVE  /\ Marked(st) \in Boxes /\ Marked(st).id = box.id /\ Marked(st).to = box.to /\ box.id # 0
           /\ Component \in Chats \X Components
           /\ \A s \in Chats \X Components :
                 Marked(st).st[s[1]][s[2]] = IF s = Component THEN st ELSE box.st[s[1]][s[2]]
<1>1. check.box = box /\ box \in Boxes /\ box.id # 0 /\ check.todo \in Seq(Chats \X Components)
  BY DEF OutboxInv, CheckFine, CheckRecord
<1>2. Component \in Chats \X Components
  BY <1>1 DEF Component
<1> DEFINE c == Component[1]
           k == Component[2]
           b == [box EXCEPT !.st[c][k] = st]
<1>3. c \in Chats /\ k \in Components /\ Component = <<c, k>>
  BY <1>2
<1>4. Marked(st) = b
  BY <1>1 DEF Marked
<1> HIDE DEF c, k
<1>5. b.id = box.id /\ b.to = box.to /\ b.st = [box.st EXCEPT ![c][k] = st]
  BY <1>1 DEF Boxes
<1>6. box.st \in [Chats -> [Components -> Statuses]] /\ box.id \in 0..LastRelease /\ box.to \in [Chats -> Jids \cup {NoJid}]
  BY <1>1 DEF Boxes
<1>7. b.st \in [Chats -> [Components -> Statuses]]
  BY <1>3, <1>5, <1>6
<1>8. b \in Boxes
  BY <1>1, <1>5, <1>6, <1>7 DEF Boxes
<1>9. ASSUME NEW s \in Chats \X Components
      PROVE  b.st[s[1]][s[2]] = IF s = Component THEN st ELSE box.st[s[1]][s[2]]
  <2>1. s[1] \in Chats /\ s[2] \in Components /\ s = <<s[1], s[2]>>
    OBVIOUS
  <2>2. s = Component <=> s[1] = c /\ s[2] = k
    BY <1>3, <2>1
  <2> QED
    BY <1>3, <1>5, <1>6, <2>1, <2>2
<1> QED
  BY <1>1, <1>2, <1>4, <1>5, <1>8, <1>9

LEMMA MarkSendingFine ==
    ASSUME OutboxInv, MishapInv, NEW ok \in BOOLEAN, MarkSending(ok)
    PROVE  OutboxInv' /\ ReachedStep /\ Faulted(ok)
<1>1. /\ check.pc = "drain" /\ check.todo # <<>> /\ UNCHANGED <<latest, cursor, got, repeats>>
      /\ Faulted(ok) /\ box' = (IF ok THEN Marked("sending") ELSE box)
      /\ check' = (IF ok THEN [[check EXCEPT !.pc = "send"] EXCEPT !.box = Marked("sending")] ELSE NoCheck)
  BY DEF MarkSending, Persist
<1>2. MishapInv' /\ faults' >= faults
  BY <1>1, MishapsCount
<1>3. CASE ~ok
  <2>1. OutboxInv'
    BY <1>1, <1>2, <1>3, CheckEnds DEF OutboxInv
  <2> QED
    BY <1>1, <1>3, <2>1 DEF ReachedStep
<1>4. CASE ok
  <2> DEFINE b == Marked("sending")
  <2>1. /\ b \in Boxes /\ b.id = box.id /\ b.to = box.to /\ box.id # 0 /\ Component \in Chats \X Components
        /\ \A s \in Chats \X Components :
              b.st[s[1]][s[2]] = IF s = Component THEN "sending" ELSE box.st[s[1]][s[2]]
    BY <1>1, MarkedIs DEF Statuses
  <2>2. box' = b /\ check' = [[check EXCEPT !.pc = "send"] EXCEPT !.box = b]
    BY <1>1, <1>4
  <2> HIDE DEF b
  <2>3. check \in CheckRecord /\ check.todo \in Seq(Chats \X Components) /\ TodoFine(check) /\ check.box = box
    BY <1>1 DEF OutboxInv, CheckFine, CheckRecord
  <2>4. /\ check' \in CheckRecord /\ check'.pc = "send" /\ check'.box = b /\ check'.todo = check.todo
        /\ check'.outcome = check.outcome
    BY <2>1, <2>2, <2>3 DEF CheckRecord
  <2>5. Component \notin {s \in got : box.st[s[1]][s[2]] = "delivered"}
    <3>1. 1 \in 1..Len(check.todo) /\ Component = check.todo[1]
      BY <1>1, <2>3, TailOnce DEF TodoFine, Component
    <3> QED
      BY <2>3, <3>1 DEF TodoFine
  <2>6. TodoFine(check')
    <3>1. \A i \in 1..Len(check.todo) : check.todo[i] \in Chats \X Components
      BY <2>3
    <3> QED
      BY <2>1, <2>3, <2>4, <3>1 DEF TodoFine
  <2>7. CheckFine(check', box', got')
    BY <1>1, <2>1, <2>2, <2>4, <2>6 DEF CheckFine
  <2>8. BoxFine(box', got')
    BY <1>1, <2>1, <2>2 DEF BoxFine, OutboxInv
  <2>9. got \in SUBSET (Chats \X Components)
    BY DEF OutboxInv
  <2>10. Unrecorded(box', got') = Unrecorded(box, got)
    <3>1. \A s \in got : b.st[s[1]][s[2]] = "delivered" <=> box.st[s[1]][s[2]] = "delivered"
      BY <2>1, <2>5, <2>9
    <3> QED
      BY <1>1, <2>1, <2>2, <3>1 DEF Unrecorded
  <2>11. Forgotten(check', box', got') = Forgotten(check, box, got)
    BY <1>1, <2>4, <2>10 DEF Forgotten, BeingRecorded
  <2>12. repeats' + Cardinality(Forgotten(check', box', got')) <= faults'
    BY <1>1, <1>2, <2>11, ForgottenIs DEF OutboxInv, MishapInv
  <2> QED
    BY <1>1, <2>1, <2>2, <2>4, <2>7, <2>8, <2>12 DEF OutboxInv, ReachedStep
<1> QED
  BY <1>3, <1>4

LEMMA SendComponentFine ==
    ASSUME OutboxInv, MishapInv, NEW ok \in BOOLEAN, SendComponent(ok)
    PROVE  OutboxInv' /\ ReachedStep /\ Refused(ok)
<1>1. /\ check.pc = "send" /\ Refused(ok) /\ UNCHANGED <<latest, cursor, box>>
      /\ check' = [check EXCEPT !.pc = "mark", !.outcome = IF ok THEN "delivered" ELSE "pending"]
      /\ got' = (IF ok THEN got \cup {Component} ELSE got)
      /\ repeats' = (IF ok /\ Component \in got THEN repeats + 1 ELSE repeats)
  BY DEF SendComponent
<1>2. MishapInv' /\ faults' >= faults /\ faults \in Nat /\ faults' \in Nat
  BY <1>1, MishapsCount DEF MishapInv
<1>3. /\ check \in CheckRecord /\ check.todo \in Seq(Chats \X Components) /\ check.todo # <<>>
      /\ check.box = box /\ box.id # 0 /\ TodoFine(check)
  BY <1>1 DEF OutboxInv, CheckFine, CheckRecord
<1>4. /\ Component \in Chats \X Components /\ 1 \in 1..Len(check.todo) /\ Component = check.todo[1]
      /\ Component = Head(check.todo)
  BY <1>3, TailOnce DEF TodoFine, Component
<1>5. box.st[Component[1]][Component[2]] # "delivered"
  BY <1>3, <1>4 DEF TodoFine
<1>6. /\ check' \in CheckRecord /\ check'.pc = "mark" /\ check'.box = check.box /\ check'.todo = check.todo
      /\ check'.outcome = IF ok THEN "delivered" ELSE "pending"
  BY <1>1, <1>3 DEF CheckRecord
<1>7. got' \in SUBSET (Chats \X Components) /\ got \subseteq got' /\ (ok => Component \in got') /\ repeats' \in Nat
  BY <1>1, <1>4 DEF OutboxInv
<1> HIDE DEF Component
<1>8. CheckFine(check', box', got')
  BY <1>1, <1>3, <1>4, <1>6, <1>7 DEF CheckFine, TodoFine
<1>9. BoxFine(box', got')
  BY <1>1, <1>7 DEF OutboxInv, BoxFine
<1> DEFINE U == Unrecorded(box, got)
           G == Forgotten(check', box', got')
<1>10. /\ U \in SUBSET (Chats \X Components) /\ Cardinality(U) \in Nat
       /\ repeats + Cardinality(U) <= faults /\ repeats \in Nat
  BY <1>1, ForgottenIs DEF OutboxInv
<1>11. repeats' + Cardinality(G) <= faults'
  <2>1. CASE ~ok
    <3>1. G = U /\ repeats' = repeats
      BY <1>1, <1>6, <2>1 DEF Forgotten, BeingRecorded, Unrecorded
    <3> QED
      BY <1>2, <1>10, <3>1
  <2>2. CASE ok /\ Component \notin got
    <3>1. G \in SUBSET U /\ repeats' = repeats
      BY <1>1, <1>4, <1>6, <2>2 DEF Forgotten, BeingRecorded, Unrecorded
    <3>2. Cardinality(G) <= Cardinality(U) /\ Cardinality(G) \in Nat
      <4> HIDE DEF G, U
      <4> QED
        BY <1>10, <3>1, PlaceCounts
    <3> HIDE DEF G, U
    <3> QED
      BY <1>2, <1>10, <3>1, <3>2
  <2>3. CASE ok /\ Component \in got
    <3>1. G = U \ {Component} /\ Component \in U /\ repeats' = repeats + 1
      BY <1>1, <1>3, <1>4, <1>5, <1>6, <2>3 DEF Forgotten, BeingRecorded, Unrecorded
    <3>2. Cardinality(G) = Cardinality(U) - 1
      <4> HIDE DEF G, U
      <4> QED
        BY <1>10, <3>1, PlaceCounts
    <3> HIDE DEF G, U
    <3> QED
      BY <1>2, <1>10, <3>1, <3>2
  <2> QED
    BY <2>1, <2>2, <2>3
<1> QED
  BY <1>1, <1>6, <1>7, <1>8, <1>9, <1>11 DEF OutboxInv, ReachedStep

\* What is left to send once the component at the head is recorded as st.
LEMMA RestIs ==
    ASSUME OutboxInv, check.pc = "mark", NEW rest,
           \/ rest = Tail(check.todo)
           \/ check.outcome = "pending" /\ \E T : rest = Filtered(check.todo, T)
    PROVE  /\ rest \in Seq(Chats \X Components) /\ EachOnce(rest)
           /\ \A i \in 1..Len(rest) :
                 /\ rest[i] \in Chats \X Components /\ box.st[rest[i][1]][rest[i][2]] # "delivered"
                 /\ check.outcome = "delivered" => rest[i] # Component
<1>1. /\ check \in CheckRecord /\ check.todo \in Seq(Chats \X Components) /\ check.todo # <<>>
      /\ EachOnce(check.todo) /\ check.box = box
      /\ \A j \in 1..Len(check.todo) : box.st[check.todo[j][1]][check.todo[j][2]] # "delivered"
  BY DEF OutboxInv, CheckFine, CheckRecord, TodoFine
<1>2. CASE rest = Tail(check.todo)
  <2>1. /\ rest \in Seq(Chats \X Components) /\ EachOnce(rest)
        /\ \A i \in 1..Len(rest) : rest[i] # Component /\ \E j \in 1..Len(check.todo) : rest[i] = check.todo[j]
    BY <1>1, <1>2, TailOnce DEF Component
  <2> QED
    BY <1>1, <2>1
<1>3. CASE check.outcome = "pending" /\ \E T : rest = Filtered(check.todo, T)
  <2> DEFINE P == Chats \X Components
             q == check.todo
  <2>1. PICK T : rest = Filtered(q, T)
    BY <1>3
  <2>2. /\ rest \in Seq(Chats \X Components) /\ EachOnce(rest)
        /\ \A i \in 1..Len(rest) : \E j \in 1..Len(check.todo) : rest[i] = check.todo[j]
    <3>1. q \in Seq(P) /\ EachOnce(q)
      BY <1>1
    <3> HIDE DEF P, q
    <3>2. /\ Filtered(q, T) \in Seq(P) /\ EachOnce(Filtered(q, T))
          /\ \A i \in 1..Len(Filtered(q, T)) : \E j \in 1..Len(q) : Filtered(q, T)[i] = q[j]
      BY <3>1, KeptOnce
    <3>3. /\ rest \in Seq(P) /\ EachOnce(rest)
          /\ \A i \in 1..Len(rest) : \E j \in 1..Len(q) : rest[i] = q[j]
      BY <2>1, <3>2
    <3> QED
      BY <3>3 DEF P, q
  <2>3. ASSUME NEW i \in 1..Len(rest)
        PROVE  rest[i] \in Chats \X Components /\ box.st[rest[i][1]][rest[i][2]] # "delivered"
    <3>1. PICK j \in 1..Len(check.todo) : rest[i] = check.todo[j]
      BY <2>2
    <3>2. check.todo[j] \in Chats \X Components
      BY <1>1
    <3> QED
      BY <1>1, <3>1, <3>2
  <2> QED
    BY <1>3, <2>2, <2>3
<1> QED
  BY <1>2, <1>3

\* A record that is kept: the component at the head is done with.
LEMMA RecordedFine ==
    ASSUME OutboxInv, MishapInv, MishapInv', faults' >= faults, check.pc = "mark", NEW rest,
           \/ rest = Tail(check.todo)
           \/ check.outcome = "pending" /\ \E T : rest = Filtered(check.todo, T),
           UNCHANGED <<latest, cursor, got, repeats>>, box' = Marked(check.outcome),
           check' = [[check EXCEPT !.pc = "drain", !.todo = rest, !.outcome = "none"] EXCEPT !.box = Marked(check.outcome)]
    PROVE  OutboxInv' /\ ReachedStep
<1> DEFINE b == Marked(check.outcome)
<1>1. /\ check \in CheckRecord /\ check.todo \in Seq(Chats \X Components) /\ check.todo # <<>>
      /\ check.outcome \in {"pending", "delivered"} /\ TodoFine(check) /\ check.box = box
  BY DEF OutboxInv, CheckFine, CheckRecord
<1>2. /\ b \in Boxes /\ b.id = box.id /\ b.to = box.to /\ box.id # 0 /\ Component \in Chats \X Components
      /\ \A s \in Chats \X Components :
            b.st[s[1]][s[2]] = IF s = Component THEN check.outcome ELSE box.st[s[1]][s[2]]
  BY <1>1, MarkedIs DEF Statuses
<1> HIDE DEF b
<1>3. /\ rest \in Seq(Chats \X Components) /\ EachOnce(rest)
      /\ \A i \in 1..Len(rest) :
            /\ rest[i] \in Chats \X Components /\ box.st[rest[i][1]][rest[i][2]] # "delivered"
            /\ check.outcome = "delivered" => rest[i] # Component
  BY RestIs
<1>4. /\ check' \in CheckRecord /\ check'.pc = "drain" /\ check'.box = b /\ check'.todo = rest
      /\ check'.outcome = "none"
  BY <1>1, <1>2, <1>3 DEF CheckRecord, b
<1>5. TodoFine(check')
  <2>1. ASSUME NEW i \in 1..Len(rest) PROVE b.st[rest[i][1]][rest[i][2]] # "delivered"
    BY <1>1, <1>2, <1>3
  <2> QED
    BY <1>3, <1>4, <2>1 DEF TodoFine
<1>6. CheckFine(check', box', got')
  BY <1>2, <1>4, <1>5 DEF CheckFine, b
<1>7. Component = Head(check.todo) /\ (check.outcome = "delivered" => Component \in got)
  BY DEF Component, OutboxInv, CheckFine
<1>8. BoxFine(box', got')
  <2>1. ASSUME NEW s \in Chats \X Components, b.st[s[1]][s[2]] = "delivered" PROVE s \in got
    BY <1>2, <1>7, <2>1 DEF OutboxInv, BoxFine
  <2> QED
    BY <1>2, <2>1 DEF BoxFine, b
<1>9. box.st[Component[1]][Component[2]] # "delivered"
  <2>1. 1 \in 1..Len(check.todo) /\ Component = check.todo[1]
    BY <1>1, TailOnce DEF TodoFine, Component
  <2> QED
    BY <1>1, <2>1 DEF TodoFine
<1>10. got \in SUBSET (Chats \X Components)
  BY DEF OutboxInv
<1>11. Forgotten(check', box', got') = Forgotten(check, box, got)
  <2>1. BeingRecorded(check') = {}
    BY <1>4 DEF BeingRecorded
  <2>2. BeingRecorded(check) = IF check.outcome = "delivered" THEN {Component} ELSE {}
    BY <1>7 DEF BeingRecorded
  <2>3. ASSUME NEW s \in got
        PROVE  b.st[s[1]][s[2]] # "delivered" <=> box.st[s[1]][s[2]] # "delivered" /\ s \notin BeingRecorded(check)
    <3>1. s \in Chats \X Components
      BY <1>10
    <3>2. CASE s = Component
      BY <1>1, <1>2, <1>9, <2>2, <3>1, <3>2
    <3>3. CASE s # Component
      BY <1>2, <2>2, <3>1, <3>3
    <3> QED
      BY <3>2, <3>3
  <2>4. Unrecorded(box', got') = {s \in got : b.st[s[1]][s[2]] # "delivered"}
    BY <1>2 DEF Unrecorded, b
  <2>5. Unrecorded(box, got) = {s \in got : box.st[s[1]][s[2]] # "delivered"}
    BY <1>2 DEF Unrecorded
  <2> QED
    BY <2>1, <2>3, <2>4, <2>5 DEF Forgotten
<1>12. repeats' + Cardinality(Forgotten(check', box', got')) <= faults'
  BY <1>11, ForgottenIs DEF OutboxInv, MishapInv
<1>13. ReachedStep
  BY <1>2 DEF ReachedStep, b
<1> QED
  BY <1>2, <1>4, <1>6, <1>8, <1>12, <1>13 DEF OutboxInv, b

LEMMA MarkOutcomeFine ==
    ASSUME OutboxInv, MishapInv, NEW ok \in BOOLEAN, MarkOutcome(ok)
    PROVE  OutboxInv' /\ ReachedStep /\ Faulted(ok)
<1> DEFINE rest == IF check.outcome = "pending" /\ Component[2] = "text"
                   THEN Filtered(check.todo, {s \in Chats \X Components : s[1] # Component[1]}) ELSE Tail(check.todo)
           b == Marked(check.outcome)
           next == [check EXCEPT !.pc = "drain", !.todo = rest, !.outcome = "none"]
<1>1. /\ check.pc = "mark" /\ UNCHANGED <<latest, cursor, got, repeats>>
      /\ \/ /\ ~ok /\ check.outcome = "delivered" /\ Faulted(ok) /\ UNCHANGED box
            /\ check' = [check EXCEPT !.outcome = "pending"]
         \/ Faulted(ok) /\ box' = (IF ok THEN b ELSE box) /\ check' = (IF ok THEN [next EXCEPT !.box = b] ELSE NoCheck)
  BY DEF MarkOutcome, Persist
<1>2. Faulted(ok) /\ (~ok => faults' = faults + 1)
  BY <1>1 DEF Faulted
<1>3. MishapInv' /\ faults' >= faults
  BY <1>2, MishapsCount
<1>4. CASE /\ ~ok /\ check.outcome = "delivered" /\ UNCHANGED box
           /\ check' = [check EXCEPT !.outcome = "pending"]
  <2>1. /\ check' \in CheckRecord /\ check'.pc = "mark" /\ check'.box = check.box
        /\ check'.todo = check.todo /\ check'.outcome = "pending"
    BY <1>1, <1>4 DEF OutboxInv, CheckRecord
  <2>2. CheckFine(check', box', got')
    BY <1>1, <1>4, <2>1 DEF OutboxInv, CheckFine, TodoFine
  <2>3. Forgotten(check', box', got') = Unrecorded(box, got)
    BY <1>1, <1>4, <2>1 DEF Forgotten, BeingRecorded, Unrecorded
  <2>4. repeats' + Cardinality(Forgotten(check', box', got')) <= faults'
    BY <1>1, <1>2, <1>4, <2>3, ForgottenIs DEF OutboxInv, MishapInv
  <2> QED
    BY <1>1, <1>2, <1>4, <2>1, <2>2, <2>4 DEF OutboxInv, ReachedStep
<1>5. CASE ok /\ box' = b /\ check' = [next EXCEPT !.box = b]
  <2>1. \/ rest = Tail(check.todo)
        \/ check.outcome = "pending" /\ \E T : rest = Filtered(check.todo, T)
    OBVIOUS
  <2> HIDE DEF rest
  <2> QED
    BY <1>1, <1>2, <1>3, <1>5, <2>1, RecordedFine
<1>6. CASE ~ok /\ UNCHANGED box /\ check' = NoCheck
  <2>1. OutboxInv'
    BY <1>1, <1>2, <1>3, <1>6, CheckEnds DEF OutboxInv
  <2> QED
    BY <1>2, <1>6, <2>1 DEF ReachedStep
<1> QED
  BY <1>1, <1>4, <1>5, <1>6

LEMMA OutboxDrainedFine ==
    ASSUME OutboxInv, MishapInv, NEW ok \in BOOLEAN, OutboxDrained(ok)
    PROVE  OutboxInv' /\ ReachedStep /\ (Faulted(ok) \/ UNCHANGED mishapVars)
<1>1. /\ check.pc = "drain" /\ UNCHANGED <<latest, got, repeats>> /\ check.box = box /\ box.id # 0
      /\ box.id \in 0..LastRelease
  BY DEF OutboxDrained, OutboxInv, CheckFine, Boxes
<1>2. \/ /\ Complete(box) /\ Faulted(TRUE) /\ ok /\ cursor' = box.id /\ box' = NoBox
         /\ check' = (IF check.queued THEN NoCheck ELSE [NoCheck EXCEPT !.pc = "fetch"])
      \/ /\ check' = NoCheck /\ UNCHANGED <<cursor, box>> /\ (Faulted(ok) \/ UNCHANGED mishapVars)
  BY <1>1 DEF OutboxDrained
<1>3. Faulted(ok) \/ UNCHANGED mishapVars
  BY <1>2
<1>4. MishapInv' /\ faults' >= faults
  BY <1>3, MishapsCount
<1>5. CASE check' = NoCheck /\ UNCHANGED <<cursor, box>>
  <2>1. OutboxInv'
    BY <1>1, <1>4, <1>5, CheckEnds DEF OutboxInv
  <2> QED
    BY <1>3, <1>5, <2>1 DEF ReachedStep
<1>6. CASE /\ Complete(box) /\ cursor' = box.id /\ box' = NoBox
           /\ check' = (IF check.queued THEN NoCheck ELSE [NoCheck EXCEPT !.pc = "fetch"])
  <2>1. NoBox \in Boxes /\ NoBox.id = 0 /\ \A c \in Chats, k \in Components : NoBox.st[c][k] = "pending"
    BY NoCheckIs
  <2>2. check' \in CheckRecord /\ check'.pc \in {"idle", "fetch"}
    BY <1>6, NoCheckIs
  <2>3. CheckFine(check', box', got')
    BY <1>6, <2>2 DEF CheckFine
  <2>4. BoxFine(box', got')
    BY <1>6, <2>1 DEF BoxFine
  <2>5. Forgotten(check', box', got') = {}
    BY <1>6, <2>1 DEF Forgotten, Unrecorded
  <2>6. repeats' + Cardinality(Forgotten(check', box', got')) <= faults'
    BY <1>1, <1>4, <2>5, ForgottenIs, FS_EmptySet DEF OutboxInv, MishapInv
  <2>7. ASSUME NEW c \in Chats, box.to[c] # NoJid, NEW s \in {c} \X Components PROVE s \in got
    <3>1. s \in Chats \X Components /\ s[1] = c /\ s[2] \in Components
      BY <2>7
    <3>2. box.st[s[1]][s[2]] = "delivered"
      BY <1>6, <2>7, <3>1 DEF Complete
    <3> QED
      BY <3>1, <3>2 DEF OutboxInv, BoxFine
  <2>8. ReachedStep
    BY <2>7 DEF ReachedStep
  <2> QED
    BY <1>1, <1>3, <1>6, <2>1, <2>2, <2>3, <2>4, <2>6, <2>8 DEF OutboxInv
<1> QED
  BY <1>2, <1>5, <1>6

LEMMA FetchFine ==
    ASSUME OutboxInv, MishapInv, SubsInv, NEW ok \in BOOLEAN, FetchLatest(ok)
    PROVE  OutboxInv' /\ ReachedStep /\ (Faulted(ok) \/ UNCHANGED mishapVars)
<1> DEFINE b == [NoBox EXCEPT !.id = latest, !.to = known]
<1>1. /\ check.pc = "fetch" /\ UNCHANGED <<latest, repeats>> /\ box = NoBox /\ latest \in 1..LastRelease
      /\ known \in MaybeJids
  BY DEF FetchLatest, OutboxInv, CheckFine, SubsInv
<1>2. \/ check' = NoCheck /\ UNCHANGED <<cursor, box, got, mishapVars>>
      \/ Faulted(ok) /\ check' = NoCheck /\ cursor' = (IF ok THEN latest ELSE cursor) /\ UNCHANGED <<box, got>>
      \/ /\ Faulted(ok) /\ UNCHANGED cursor /\ box' = (IF ok THEN b ELSE box) /\ got' = (IF ok THEN {} ELSE got)
         /\ check' = (IF ok THEN [Drain(b, TRUE) EXCEPT !.box = b] ELSE NoCheck)
  BY DEF FetchLatest, Persist
<1>3. Faulted(ok) \/ UNCHANGED mishapVars
  BY <1>2 DEF mishapVars
<1>4. MishapInv' /\ faults' >= faults
  BY <1>3, MishapsCount
<1>5. ReachedStep
  BY <1>1 DEF ReachedStep, NoBox
<1>6. CASE check' = NoCheck /\ cursor' \in {cursor, latest} /\ UNCHANGED <<box, got>>
  <2>1. cursor' \in 0..LastRelease
    BY <1>1, <1>6 DEF OutboxInv
  <2>2. OutboxInv'
    BY <1>1, <1>4, <1>6, <2>1, CheckEnds
  <2> QED
    BY <1>3, <1>5, <2>2
<1>7. CASE UNCHANGED cursor /\ box' = b /\ got' = {} /\ check' = [Drain(b, TRUE) EXCEPT !.box = b]
  <2>1. /\ b \in Boxes /\ b.id # 0 /\ \A c \in Chats, k \in Components : b.st[c][k] = "pending"
    <3>1. NoBox \in Boxes /\ \A c \in Chats, k \in Components : NoBox.st[c][k] = "pending"
      BY NoCheckIs
    <3>2. latest \in 0..LastRelease /\ latest # 0 /\ known \in [Chats -> Jids \cup {NoJid}]
      BY <1>1, NoticeConstants DEF MaybeJids
    <3>3. b.id = latest /\ b.to = known /\ b.st = NoBox.st
      BY <3>1 DEF Boxes
    <3>4. b \in Boxes
      BY <3>1, <3>2 DEF Boxes
    <3> HIDE DEF b
    <3> QED
      BY <3>1, <3>2, <3>3, <3>4
  <2> HIDE DEF b
  <2> DEFINE S == {s \in Chats \X Components : b.to[s[1]] # NoJid /\ b.st[s[1]][s[2]] # "delivered"}
  <2>2. /\ ToSend(b) \in Seq(Chats \X Components) /\ EachOnce(ToSend(b))
        /\ \A i \in 1..Len(ToSend(b)) : ToSend(b)[i] \in S
    <3> HIDE DEF S
    <3>1. ToSend(b) = Filtered(Places, S)
      BY DEF ToSend, S
    <3> QED
      BY <3>1, PlacesAre, KeptOnce
  <2>3. /\ check'.pc = "drain" /\ check'.box = b /\ check'.todo = ToSend(b)
        /\ check'.outcome = "none" /\ check' \in CheckRecord
    BY <1>7, <2>1, <2>2 DEF Drain, CheckRecord
  <2>4. TodoFine(check')
    BY <2>2, <2>3 DEF TodoFine
  <2>5. CheckFine(check', box', got')
    BY <1>7, <2>1, <2>3, <2>4 DEF CheckFine
  <2>6. BoxFine(box', got')
    BY <1>7, <2>1 DEF BoxFine
  <2>7. Forgotten(check', box', got') = {}
    BY <1>7 DEF Forgotten, Unrecorded
  <2>8. repeats' + Cardinality(Forgotten(check', box', got')) <= faults'
    BY <1>1, <1>4, <2>7, ForgottenIs, FS_EmptySet DEF OutboxInv, MishapInv
  <2> QED
    BY <1>1, <1>3, <1>5, <1>7, <2>1, <2>3, <2>5, <2>6, <2>8 DEF OutboxInv
<1> QED
  BY <1>2, <1>6, <1>7

\* The subscriptions: the two copies differ only between the two halves of a change.
LEMMA SubscriptionsFine ==
    ASSUME SubsInv, \/ \E c \in Chats, jid \in Jids, enabled \in BOOLEAN : SubscriptionChange(c, jid, enabled)
                    \/ \E ok \in BOOLEAN : SubscriptionSaved(ok)
                    \/ SubscriptionKnown
                    \/ change' = NoChange /\ known' = subs /\ UNCHANGED subs
    PROVE  SubsInv'
<1>1. /\ subs \in MaybeJids /\ known \in MaybeJids /\ change.next \in MaybeJids
      /\ OneChatEach(subs) /\ OneChatEach(known) /\ OneChatEach(change.next)
      /\ change \in [pc : {"idle", "save", "assign"}, next : MaybeJids]
  BY DEF SubsInv
<1>2. NoChange.next \in MaybeJids /\ OneChatEach(NoChange.next) /\ NoChange.pc = "idle"
      /\ NoChange \in [pc : {"idle", "save", "assign"}, next : MaybeJids]
  BY DEF NoChange, MaybeJids, OneChatEach
<1>3. ASSUME NEW c \in Chats, NEW jid \in Jids, NEW enabled \in BOOLEAN, SubscriptionChange(c, jid, enabled)
      PROVE  SubsInv'
  <2> DEFINE others == [d \in Chats |-> IF d = c \/ known[d] = jid THEN NoJid ELSE known[d]]
             next == IF enabled THEN [others EXCEPT ![c] = jid] ELSE others
  <2>1. change.pc = "idle" /\ change' = [pc |-> "save", next |-> next] /\ UNCHANGED <<subs, known>>
    BY <1>3 DEF SubscriptionChange
  <2>2. others \in MaybeJids /\ OneChatEach(others) /\ \A d \in Chats : others[d] # jid
    BY <1>1, NoticeConstants DEF MaybeJids, OneChatEach
  <2> HIDE DEF others
  <2>3. next \in MaybeJids /\ OneChatEach(next)
    <3>1. CASE enabled
      BY <2>2, <3>1, NoticeConstants DEF MaybeJids, OneChatEach
    <3>2. CASE ~enabled
      BY <2>2, <3>2
    <3> QED
      BY <3>1, <3>2
  <2> HIDE DEF next
  <2>4. change'.pc = "save" /\ change'.next = next /\ change' \in [pc : {"idle", "save", "assign"}, next : MaybeJids]
    BY <2>1, <2>3
  <2>5. known = subs
    BY <2>1 DEF SubsInv
  <2> QED
    BY <1>1, <2>1, <2>3, <2>4, <2>5 DEF SubsInv
<1>4. ASSUME NEW ok \in BOOLEAN, SubscriptionSaved(ok) PROVE SubsInv'
  <2>1. /\ change.pc = "save" /\ UNCHANGED known
        /\ IF ok THEN subs' = change.next /\ change' = [change EXCEPT !.pc = "assign"]
                 ELSE change' = NoChange /\ UNCHANGED subs
    BY <1>4 DEF SubscriptionSaved
  <2>2. known = subs
    BY <2>1 DEF SubsInv
  <2>3. CASE ok
    <3>1. /\ change'.pc = "assign" /\ change'.next = change.next
          /\ change' \in [pc : {"idle", "save", "assign"}, next : MaybeJids]
      BY <1>1, <2>1, <2>3
    <3> QED
      BY <1>1, <2>1, <2>3, <3>1 DEF SubsInv
  <2>4. CASE ~ok
    BY <1>1, <1>2, <2>1, <2>2, <2>4 DEF SubsInv
  <2> QED
    BY <2>3, <2>4
<1>5. CASE SubscriptionKnown
  <2>1. change.pc = "assign" /\ known' = change.next /\ change' = NoChange /\ UNCHANGED subs
    BY <1>5 DEF SubscriptionKnown
  <2>2. subs = change.next
    BY <2>1 DEF SubsInv
  <2> QED
    BY <1>1, <1>2, <2>1, <2>2 DEF SubsInv
<1>6. CASE change' = NoChange /\ known' = subs /\ UNCHANGED subs
  BY <1>1, <1>2, <1>6 DEF SubsInv
<1> QED
  BY <1>3, <1>4, <1>5, <1>6

LEMMA SubsStay == SubsInv /\ UNCHANGED <<subs, known, change>> => SubsInv'
BY DEF SubsInv

LEMMA OutboxStays ==
    ASSUME OutboxInv, MishapInv, MishapInv', faults' >= faults, latest' \in 1..LastRelease,
           UNCHANGED <<cursor, box, check, got, repeats>>
    PROVE  OutboxInv' /\ ReachedStep
<1>1. repeats + Cardinality(Forgotten(check, box, got)) <= faults'
  BY ForgottenIs DEF OutboxInv, MishapInv
<1> QED
  BY <1>1 DEF OutboxInv, ReachedStep

LEMMA ReleaseSteps ==
    ASSUME SubsInv, OutboxInv, MishapInv, ReleaseNext
    PROVE  SubsInv' /\ OutboxInv' /\ MishapInv' /\ ReachedStep
<1> DEFINE Goal == SubsInv' /\ OutboxInv' /\ MishapInv' /\ ReachedStep
<1>1. latest \in 1..LastRelease
  BY DEF OutboxInv
<1>2. ASSUME NEW c \in Chats, NEW jid \in Jids, NEW enabled \in BOOLEAN, SubscriptionChange(c, jid, enabled)
      PROVE  Goal
  <2>1. UNCHANGED <<latest, cursor, box, check, got, repeats, mishapVars>>
    BY <1>2 DEF SubscriptionChange
  <2>2. MishapInv' /\ faults' >= faults
    BY <2>1, MishapsCount
  <2> QED
    BY <1>1, <1>2, <2>1, <2>2, SubscriptionsFine, OutboxStays
<1>3. ASSUME NEW ok \in BOOLEAN, SubscriptionSaved(ok) PROVE Goal
  <2>1. UNCHANGED <<latest, cursor, box, check, got, repeats>> /\ Faulted(ok)
    BY <1>3 DEF SubscriptionSaved
  <2>2. MishapInv' /\ faults' >= faults
    BY <2>1, MishapsCount
  <2> QED
    BY <1>1, <1>3, <2>1, <2>2, SubscriptionsFine, OutboxStays
<1>4. CASE SubscriptionKnown
  <2>1. UNCHANGED <<latest, cursor, box, check, got, repeats, mishapVars>>
    BY <1>4 DEF SubscriptionKnown
  <2>2. MishapInv' /\ faults' >= faults
    BY <2>1, MishapsCount
  <2> QED
    BY <1>1, <1>4, <2>1, <2>2, SubscriptionsFine, OutboxStays
<1>5. CASE Publish
  <2>1. UNCHANGED <<cursor, box, subs, known, change, check, got, repeats, mishapVars>> /\ latest' \in 1..LastRelease
    BY <1>1, <1>5, NoticeConstants DEF Publish
  <2>2. MishapInv' /\ faults' >= faults
    BY <2>1, MishapsCount
  <2> QED
    BY <2>1, <2>2, SubsStay, OutboxStays
<1>6. CASE ReleaseTick
  <2>1. UNCHANGED <<subs, known, change, mishapVars>>
    BY <1>6 DEF ReleaseTick
  <2> QED
    BY <1>6, <2>1, ReleaseTickFine, SubsStay, MishapsCount
<1>7. CASE FetchFails
  <2>1. /\ check.pc = "fetch" /\ Refused(FALSE) /\ check' = NoCheck
        /\ UNCHANGED <<latest, cursor, box, subs, known, change, got, repeats>>
    BY <1>7 DEF FetchFails
  <2>2. MishapInv' /\ faults' >= faults
    BY <2>1, MishapsCount
  <2>3. OutboxInv'
    BY <2>1, <2>2, CheckEnds DEF OutboxInv
  <2> QED
    BY <2>1, <2>2, <2>3, SubsStay DEF ReachedStep
<1>8. CASE ReleaseCrash
  <2>1. /\ Faulted(FALSE) /\ check' = NoCheck /\ change' = NoChange /\ known' = subs
        /\ UNCHANGED <<latest, cursor, box, subs, got, repeats>>
    BY <1>8 DEF ReleaseCrash
  <2>2. MishapInv' /\ faults' = faults + 1 /\ faults' >= faults
    BY <2>1, MishapsCount DEF Faulted
  <2>3. OutboxInv'
    BY <2>1, <2>2, CheckEnds DEF OutboxInv
  <2> QED
    BY <2>1, <2>2, <2>3, SubscriptionsFine DEF ReachedStep
<1>9. ASSUME NEW ok \in BOOLEAN, CheckGoesOn(ok) PROVE Goal
  <2>1. UNCHANGED <<subs, known, change>>
    BY <1>9 DEF CheckGoesOn, MarkSending, SendComponent, MarkOutcome, OutboxDrained, FetchLatest
  <2>2. OutboxInv' /\ ReachedStep /\ (Refused(ok) \/ Faulted(ok) \/ UNCHANGED mishapVars)
    BY <1>9, MarkSendingFine, SendComponentFine, MarkOutcomeFine, OutboxDrainedFine, FetchFine DEF CheckGoesOn
  <2> QED
    BY <2>1, <2>2, SubsStay, MishapsCount
<1> QED
  BY <1>2, <1>3, <1>4, <1>5, <1>6, <1>7, <1>8, <1>9 DEF ReleaseNext

LEMMA NoticeSteps == NoticeInv /\ [NoticeNext]_noticeVars => NoticeInv' /\ (ReachedStep \/ UNCHANGED noticeVars)
<1> SUFFICES ASSUME NoticeInv, [NoticeNext]_noticeVars PROVE NoticeInv' /\ ReachedStep
  OBVIOUS
<1> USE DEF NoticeInv
<1>1. UNCHANGED wrapVars => WrapInv'
  BY DEF wrapVars, WrapInv, TellsTrue
<1>2. UNCHANGED reportVars => ReportInv'
  BY DEF reportVars, ReportInv
<1>3. UNCHANGED alert => AlertInv'
  BY DEF AlertInv
<1>4. UNCHANGED releaseVars /\ MishapInv' /\ faults' >= faults => SubsInv' /\ OutboxInv' /\ ReachedStep
  <2> SUFFICES ASSUME UNCHANGED releaseVars, MishapInv', faults' >= faults PROVE SubsInv' /\ OutboxInv' /\ ReachedStep
    OBVIOUS
  <2>1. UNCHANGED <<subs, known, change>> /\ UNCHANGED <<cursor, box, check, got, repeats>> /\ latest' \in 1..LastRelease
    BY DEF releaseVars, OutboxInv
  <2> QED
    BY <2>1, SubsStay, OutboxStays
<1>5. CASE ReleaseNext /\ UNCHANGED <<wrapVars, reportVars, alert>>
  BY <1>1, <1>2, <1>3, <1>5, ReleaseSteps
<1>6. CASE WrapNext /\ UNCHANGED <<releaseVars, reportVars, alert>>
  BY <1>2, <1>3, <1>4, <1>6, WrapSteps
<1>7. CASE ReportNext /\ UNCHANGED <<releaseVars, wrapVars, alert>>
  BY <1>1, <1>3, <1>4, <1>7, ReportSteps
<1>8. CASE AlertNext /\ UNCHANGED <<releaseVars, wrapVars, reportVars>>
  BY <1>1, <1>2, <1>4, <1>8, AlertSteps
<1>9. CASE UNCHANGED noticeVars
  <2>1. UNCHANGED releaseVars /\ UNCHANGED wrapVars /\ UNCHANGED reportVars /\ UNCHANGED alert /\ UNCHANGED mishapVars
    BY <1>9 DEF noticeVars
  <2>2. MishapInv' /\ faults' >= faults
    BY <2>1, MishapsCount
  <2> QED
    BY <1>1, <1>2, <1>3, <1>4, <2>1, <2>2
<1> QED
  BY <1>5, <1>6, <1>7, <1>8, <1>9 DEF NoticeNext

LEMMA NoticeStarts == NoticeInit => NoticeInv
<1> SUFFICES ASSUME NoticeInit PROVE NoticeInv
  OBVIOUS
<1>1. SubsInv
  BY DEF NoticeInit, SubsInv, NoChange, MaybeJids, OneChatEach
<1>2. OutboxInv
  <2>1. /\ latest \in 1..LastRelease /\ cursor \in 0..LastRelease /\ box = NoBox /\ check = NoCheck
        /\ got = {} /\ repeats = 0 /\ faults = 0
    BY NoticeConstants DEF NoticeInit
  <2>2. CheckFine(check, box, got) /\ BoxFine(box, got)
    BY <2>1, NoCheckIs DEF CheckFine, BoxFine
  <2>3. Forgotten(check, box, got) = {}
    BY <2>1 DEF Forgotten, Unrecorded
  <2> QED
    BY <2>1, <2>2, <2>3, NoCheckIs, FS_EmptySet DEF OutboxInv
<1>3. WrapInv
  <2>1. /\ wrap = NoWrap /\ gate = FALSE /\ wrapRun = [r \in Runs |-> NoWrapRun] /\ stats = 0 /\ heard = {}
    BY DEF NoticeInit
  <2>2. NoWrap.sent = {} /\ NoWrap.today = FALSE /\ NoWrapRun.copy = NoWrap /\ NoWrapRun.pc = "idle"
    BY DEF NoWrap, NoWrapRun
  <2>3. /\ wrap \in Wraps /\ wrapRun \in [Runs -> WrapRunRecord] /\ gate \in BOOLEAN /\ stats \in 0..LastStats
        /\ heard \in SUBSET Members /\ (gate = TRUE => heard = Members)
    <3>1. wrap \in Wraps /\ wrapRun \in [Runs -> WrapRunRecord]
      BY <2>1, NoRunIs
    <3>2. stats \in 0..LastStats /\ heard \in SUBSET Members
      BY <2>1, NoticeConstants
    <3>3. gate = FALSE
      BY <2>1
    <3>4. gate \in BOOLEAN /\ (gate = TRUE => heard = Members)
      BY <3>3
    <3> QED
      BY <3>1, <3>2, <3>4
  <2>4. TellsTrue(NoWrap)
    BY <2>2 DEF TellsTrue
  <2>5. \A r \in Runs : wrapRun[r] = NoWrapRun
    BY <2>1
  <2> QED
    BY <2>1, <2>2, <2>3, <2>4, <2>5 DEF WrapInv
<1>4. ReportInv /\ AlertInv
  BY DEF NoticeInit, ReportInv, AlertInv
<1>5. MishapInv
  BY NoticeConstants DEF NoticeInit, MishapInv
<1> QED
  BY <1>1, <1>2, <1>3, <1>4, <1>5 DEF NoticeInv

LEMMA NoticeHolds ==
    NoticeInv => /\ NoticeTypeOK /\ RepeatsHaveACause /\ SubscriptionsKept /\ MonthlyDone /\ AlertsSpaced
<1> SUFFICES ASSUME NoticeInv
             PROVE  NoticeTypeOK /\ RepeatsHaveACause /\ SubscriptionsKept /\ MonthlyDone /\ AlertsSpaced
  OBVIOUS
<1>1. RepeatsHaveACause
  BY ForgottenIs DEF NoticeInv, OutboxInv, MishapInv, RepeatsHaveACause
<1>2. SubscriptionsKept
  BY DEF NoticeInv, SubsInv, OneChatEach, SubscriptionsKept
<1>3. MonthlyDone
  BY DEF NoticeInv, WrapInv, TellsTrue, Wraps, ReportInv, MonthlyDone
<1>4. AlertsSpaced
  BY DEF NoticeInv, AlertInv, AlertsSpaced
<1>5. NoticeTypeOK
  <2>1. latest \in 1..LastRelease /\ cursor \in 0..LastRelease /\ box \in Boxes /\ got \subseteq Chats \X Components /\ repeats \in Nat
    BY DEF NoticeInv, OutboxInv
  <2>2. {subs, known} \subseteq [Chats -> Jids \cup {NoJid}] /\ change \in [pc : {"idle", "save", "assign"}, next : [Chats -> Jids \cup {NoJid}]]
    BY DEF NoticeInv, SubsInv, MaybeJids
  <2>3. /\ check.pc \in {"idle", "fetch", "drain", "send", "mark"} /\ check.box \in Boxes
        /\ check.queued \in BOOLEAN /\ check.outcome \in {"none", "pending", "delivered"}
        /\ \A i \in 1..Len(check.todo) : check.todo[i] \in Chats \X Components
    BY DEF NoticeInv, OutboxInv, CheckRecord
  <2>4. /\ wrap \in Wraps /\ gate \in BOOLEAN /\ stats \in 0..LastStats /\ heard \subseteq Members
        /\ wrapRun \in [Runs -> [pc : {"idle", "stats", "send"}, copy : Wraps, ts : 0..LastStats,
                                 todo : SUBSET Members, failed : BOOLEAN]]
    BY DEF NoticeInv, WrapInv, WrapRunRecord
  <2>5. /\ lined \in BOOLEAN /\ report \in [mark : BOOLEAN, logs : BOOLEAN, accepted : BOOLEAN, unread : BOOLEAN]
        /\ reportRun \in [Runs -> {"idle", "send", "delete", "record"}]
        /\ alert \in [flying : SUBSET Alerts, cool : BOOLEAN, heard : Nat]
    BY DEF NoticeInv, ReportInv, AlertInv
  <2>6. refusals \in 0..MaxRefusals /\ faults \in 0..MaxFaults
    BY DEF NoticeInv, MishapInv
  <2> QED
    BY <2>1, <2>2, <2>3, <2>4, <2>5, <2>6 DEF NoticeTypeOK
<1> QED
  BY <1>1, <1>2, <1>3, <1>4, <1>5

LEMMA NoticeInvariant == NoticeInit /\ [][NoticeNext]_noticeVars => []NoticeInv /\ ReleaseReachesAll
<1>1. NoticeInv /\ [NoticeNext]_noticeVars =>
          [box.id # 0 /\ box'.id # box.id =>
             \A c \in Chats : box.to[c] # NoJid => {c} \X Components \subseteq got]_noticeVars
  BY NoticeSteps DEF ReachedStep
<1>2. NoticeInv /\ [NoticeNext]_noticeVars => NoticeInv'
  BY NoticeSteps
<1> QED
  BY <1>1, <1>2, NoticeStarts, PTL DEF ReleaseReachesAll

\* For any number of chats, members, releases and faults: a release leaves the
\* outbox delivered to all it was queued for, a repeat has a failed write or a
\* crash behind it, the subscriptions on disk and in memory agree, the month is
\* marked when all of it was done, and one source tells the admin once.
THEOREM NoticesAreTrue ==
    NoticeSpec => /\ [](NoticeTypeOK /\ RepeatsHaveACause /\ SubscriptionsKept /\ MonthlyDone /\ AlertsSpaced)
                  /\ ReleaseReachesAll
BY NoticeInvariant, NoticeHolds, PTL DEF NoticeSpec

(***************************************************************************)
(* Recurrence.  A series keeps to the calendar of its own start.           *)
(*                                                                         *)
(* OnSchedule says nothing of a task that still has its first occurrence;  *)
(* RecInv does: the record is a well formed rule whose day of the month is *)
(* its start's, the task is at its start or at the least instant of its    *)
(* series after the time that was asked about, and it ends within the      *)
(* limit of a year.  That one step of the code (NextDay) goes to the next  *)
(* day of the rule is shown for each frequency; that a search of such      *)
(* steps finds the first one that will do, or would have had to look       *)
(* further than a reminder may run, is shown once (SearchFinds) for the    *)
(* three loops, by the least number of candidates that fails.              *)
(***************************************************************************)
(* Whole numbers. *)

LEMMA DivMod ==
    \A a \in Int, b \in Nat \ {0} :
        /\ a \div b \in Int /\ a % b \in 0..(b - 1)
        /\ a = b * (a \div b) + (a % b)
        /\ a >= 0 => a \div b >= 0
OBVIOUS

LEMMA DivUnique ==
    \A q, r \in Int, b \in Nat \ {0} :
        0 <= r /\ r < b => (b * q + r) \div b = q /\ (b * q + r) % b = r
OBVIOUS

LEMMA Divided ==
    ASSUME NEW a \in Nat, NEW b \in Nat \ {0}
    PROVE  a \div b \in Nat /\ a % b \in 0..(b - 1) /\ a = b * (a \div b) + (a % b)
<1>1. a \in Int /\ a >= 0
  OBVIOUS
<1>2. /\ a \div b \in Int /\ a % b \in 0..(b - 1) /\ a = b * (a \div b) + (a % b)
      /\ a \div b >= 0
  BY <1>1, DivMod, Zenon
<1> DEFINE q == a \div b
<1> HIDE DEF q
<1>3. q \in Int /\ q >= 0 => q \in Nat
  OBVIOUS
<1> QED
  BY <1>2, <1>3, Zenon DEF q

LEMMA Composed ==
    ASSUME NEW q \in Nat, NEW b \in Nat \ {0}, NEW r \in 0..(b - 1)
    PROVE  b * q + r \in Nat /\ (b * q + r) \div b = q /\ (b * q + r) % b = r
<1>1. q \in Int /\ r \in Int /\ 0 <= r /\ r < b
  OBVIOUS
<1>2. (b * q + r) \div b = q /\ (b * q + r) % b = r
  BY <1>1, DivUnique, Zenon
<1>3. b * q + r \in Nat
  OBVIOUS
<1> QED
  BY <1>2, <1>3, Zenon

LEMMA TimesMonotone == \A a, b, c \in Int : c >= 0 /\ a <= b => c * a <= c * b
OBVIOUS

LEMMA TimesNext == \A a, b \in Int : b * (a + 1) = b * a + b
OBVIOUS

LEMMA TimesMinus == \A a, b, c \in Int : b * (a - c) = b * a - b * c
OBVIOUS

\* Products, with the facts about them that the steps below use.
LEMMA Times == ASSUME NEW a \in Nat, NEW b \in Nat PROVE a * b \in Nat /\ a * b = b * a
OBVIOUS

LEMMA TimesSum == ASSUME NEW a \in Nat, NEW b \in Nat, NEW k \in Nat PROVE k * (a + b) = k * a + k * b
OBVIOUS

LEMMA TimesOrdered == ASSUME NEW a \in Nat, NEW b \in Nat, NEW k \in Nat, a < b PROVE k * a + k <= k * b
<1>1. k * (a + 1) <= k * b
  BY TimesMonotone
<1>2. k * (a + 1) = k * a + k
  BY TimesNext
<1> QED
  BY <1>1, <1>2

LEMMA Lengths ==
    DayHours \in Nat \ {0} /\ WeekDays \in Nat \ {0} /\ MaxTaskDays \in Nat /\ MaxSteps \in Nat /\ MaxTries \in Nat
BY RecurrenceConstants

\* Numbers of the same quotient are ordered by their remainders.
LEMMA QuotientsOrdered ==
    ASSUME NEW a \in Nat, NEW b \in Nat, NEW k \in Nat \ {0}, a < b
    PROVE  a \div k < b \div k \/ (a \div k = b \div k /\ a % k < b % k)
<1>1. a = k * (a \div k) + (a % k) /\ b = k * (b \div k) + (b % k) /\ a % k \in 0..(k - 1) /\ b % k \in 0..(k - 1)
  BY DivMod
<1> DEFINE p == a \div k
           q == b \div k
<1>2. p \in Int /\ q \in Int
  BY DivMod
<1>3. q < p => k * (q + 1) <= k * p
  BY <1>2, TimesMonotone
<1>4. k * (q + 1) = k * q + k
  BY <1>2, TimesNext
<1> HIDE DEF p, q
<1>5. k * p \in Int /\ k * q \in Int
  BY <1>2
<1> QED
  <2>1. a = k * p + (a % k) /\ b = k * q + (b % k)
    BY <1>1 DEF p, q
  <2>2. ~(q < p)
    BY <1>1, <1>3, <1>4, <1>5, <2>1
  <2>3. p = q => a % k < b % k
    BY <1>1, <1>5, <2>1
  <2>4. p < q \/ (p = q /\ a % k < b % k)
    BY <1>2, <2>2, <2>3
  <2> QED
    BY <2>4 DEF p, q

LEMMA QuotientsMonotone ==
    ASSUME NEW a \in Nat, NEW b \in Nat, NEW k \in Nat \ {0}, a <= b
    PROVE  a \div k <= b \div k
<1>1. a \div k \in Int /\ b \div k \in Int
  BY DivMod
<1>2. CASE a = b
  BY <1>1, <1>2
<1>3. CASE a < b
  BY <1>1, <1>3, QuotientsOrdered
<1> QED
  BY <1>2, <1>3

\* b is a whole number of times i away from a.
Apart(a, b, i) == (b - a) % i = 0

LEMMA ApartIs ==
    ASSUME NEW a \in Int, NEW b \in Int, NEW i \in Nat \ {0}
    PROVE  Apart(a, b, i) <=> \E p \in Int : b - a = i * p
<1> DEFINE c == b - a
<1>1. c \in Int
  OBVIOUS
<1>2. Apart(a, b, i) <=> c % i = 0
  BY DEF Apart
<1> HIDE DEF c
<1>3. ASSUME c % i = 0 PROVE \E p \in Int : c = i * p
  <2>1. c \div i \in Int /\ c = i * (c \div i) + (c % i)
    BY <1>1, DivMod, Zenon
  <2>2. i * (c \div i) \in Int
    BY <2>1
  <2>3. c = i * (c \div i)
    BY <2>1, <2>2, <1>3
  <2> QED
    BY <2>1, <2>3, Zenon
<1>4. ASSUME NEW p \in Int, c = i * p PROVE c % i = 0
  <2>1. 0 \in Int /\ 0 <= 0 /\ 0 < i
    OBVIOUS
  <2>2. (i * p + 0) % i = 0
    BY <2>1, DivUnique, Zenon
  <2>3. i * p + 0 = i * p
    OBVIOUS
  <2> QED
    BY <1>4, <2>2, <2>3, Zenon
<1>5. c % i = 0 <=> \E p \in Int : c = i * p
  BY <1>3, <1>4, Zenon
<1> QED
  BY <1>2, <1>5, Zenon DEF c

\* Of the numbers a whole number of times i above a, the one after b is b + i.
LEMMA NextMultiple ==
    ASSUME NEW a \in Int, NEW b \in Int, NEW c \in Int, NEW i \in Nat \ {0},
           Apart(a, b, i), Apart(a, c, i), b < c
    PROVE  b + i <= c
<1>1. PICK p \in Int : b - a = i * p
  BY ApartIs
<1>2. PICK q \in Int : c - a = i * q
  BY ApartIs
<1>3. q <= p => i * q <= i * p
  BY TimesMonotone
<1>4. p + 1 <= q => i * (p + 1) <= i * q
  BY TimesMonotone
<1>5. i * (p + 1) = i * p + i
  BY TimesNext
<1>6. i * p \in Int /\ i * q \in Int
  OBVIOUS
<1>7. p + 1 <= q
  BY <1>1, <1>2, <1>3, <1>6
<1> QED
  BY <1>1, <1>2, <1>4, <1>5, <1>6, <1>7

LEMMA MultipleAgain ==
    ASSUME NEW a \in Int, NEW b \in Int, NEW i \in Nat \ {0}, Apart(a, b, i)
    PROVE  Apart(a, b + i, i)
<1>1. PICK p \in Int : b - a = i * p
  BY ApartIs
<1>2. i * (p + 1) = i * p + i /\ i * p \in Int
  BY TimesNext
<1>3. (b + i) - a = i * (p + 1) /\ p + 1 \in Int
  BY <1>1, <1>2
<1>4. \E x \in Int : (b + i) - a = i * x
  BY <1>3, Zenon
<1>5. b + i \in Int
  OBVIOUS
<1> QED
  BY <1>4, <1>5, ApartIs, Zenon

LEMMA NoMultiple == ASSUME NEW a \in Int, NEW i \in Nat \ {0} PROVE Apart(a, a, i)
<1>1. 0 \in Int /\ a - a = i * 0
  OBVIOUS
<1>2. \E x \in Int : a - a = i * x
  BY <1>1, Zenon
<1> QED
  BY <1>2, ApartIs, Zenon

LEMMA MinIs ==
    ASSUME NEW S \in SUBSET Int, NEW x \in S, \A y \in S : x <= y
    PROVE  Min(S) = x
<1>1. Min(S) \in S /\ \A y \in S : Min(S) <= y
  BY Zenon DEF Min
<1> DEFINE m == Min(S)
<1>2. m \in S /\ m <= x /\ x <= m
  BY <1>1
<1> HIDE DEF m
<1>3. m = x
  BY <1>2
<1> QED
  BY <1>3 DEF m

LEMMA MinOf ==
    ASSUME NEW S \in SUBSET Nat, S # {}
    PROVE  Min(S) \in S /\ \A y \in S : Min(S) <= y
<1>1. S \in SUBSET Int /\ 0 \in Int /\ \A x \in S : 0 <= x
  OBVIOUS
<1>2. PICK x \in S : \A y \in S : x <= y
  BY <1>1, LeastIs, Zenon
<1> QED
  BY <1>2 DEF Min

LEMMA MinOfTwo ==
    ASSUME NEW a \in Nat, NEW b \in Nat
    PROVE  Min({a, b}) = IF a <= b THEN a ELSE b
BY DEF Min

----
(* The calendar: the months follow one another, and each day is in one. *)

BeforeAt(f, k) == IF k = 0 THEN 0 ELSE f[k - 1] + MonthLengths[k]

LEMMA BeforeExists ==
    ASSUME NEW k \in Nat
    PROVE  \E f : f = [n \in 0..k |-> BeforeAt(f, n)]
<1> DEFINE Missing == {m \in Nat : ~\E f : f = [n \in 0..m |-> BeforeAt(f, n)]}
<1> SUFFICES ASSUME Missing # {} PROVE FALSE
  OBVIOUS
<1>1. PICK m \in Missing : \A y \in Missing : m <= y
  <2>1. Missing \in SUBSET Int /\ 0 \in Int /\ \A x \in Missing : 0 <= x
    OBVIOUS
  <2> HIDE DEF Missing
  <2> QED
    BY <2>1, LeastIs, Zenon
<1>2. m \in Nat
  OBVIOUS
<1>3. CASE m = 0
  <2> DEFINE f == [n \in 0..0 |-> 0]
  <2>1. f = [n \in 0..0 |-> BeforeAt(f, n)]
    BY DEF BeforeAt
  <2> QED
    BY <1>3, <2>1
<1>4. CASE m # 0
  <2>1. m - 1 \in Nat /\ m - 1 \notin Missing
    BY <1>1, <1>2, <1>4
  <2>2. PICK g : g = [n \in 0..(m - 1) |-> BeforeAt(g, n)]
    BY <2>1
  <2> DEFINE f == [n \in 0..m |-> IF n = m THEN BeforeAt(g, m) ELSE g[n]]
  <2>3. \A n \in 0..(m - 1) : f[n] = g[n] /\ g[n] = BeforeAt(g, n)
    BY <1>2, <2>2
  <2>4. f[m] = BeforeAt(g, m) /\ f = [n \in 0..m |-> f[n]]
    BY <1>2
  <2> HIDE DEF f
  <2>5. ASSUME NEW n \in 0..m PROVE f[n] = BeforeAt(f, n)
    <3>1. BeforeAt(f, n) = BeforeAt(g, n)
      BY <1>2, <2>3 DEF BeforeAt
    <3>2. n = m \/ n \in 0..(m - 1)
      BY <1>2
    <3> QED
      BY <3>1, <3>2, <2>3, <2>4
  <2>6. f = [n \in 0..m |-> BeforeAt(f, n)]
    BY <2>4, <2>5, Zenon
  <2> QED
    BY <2>6, <1>1
<1> QED
  BY <1>3, <1>4

LEMMA BeforeIs ==
    /\ Months \in Nat \ {0}
    /\ daysBefore[0] = 0
    /\ \A k \in 1..Months : daysBefore[k] = daysBefore[k - 1] + MonthLengths[k]
    /\ \A k \in 1..Months : MonthLengths[k] \in Nat \ {0}
<1>1. Months \in Nat \ {0} /\ \A k \in 1..Months : MonthLengths[k] \in Nat \ {0}
  BY RecurrenceConstants DEF Months
<1>2. daysBefore = [k \in 0..Months |-> BeforeAt(daysBefore, k)]
  <2>1. \E f : f = [k \in 0..Months |-> BeforeAt(f, k)]
    BY <1>1, BeforeExists
  <2>2. daysBefore = CHOOSE f : f = [k \in 0..Months |-> BeforeAt(f, k)]
    BY DEF daysBefore, BeforeAt
  <2> QED
    BY <2>1, <2>2, Zenon
<1> QED
  BY <1>1, <1>2 DEF BeforeAt

LEMMA BeforeTyped == \A k \in 0..Months : daysBefore[k] \in Nat
<1> DEFINE Bad == {k \in 0..Months : daysBefore[k] \notin Nat}
<1> SUFFICES ASSUME Bad # {} PROVE FALSE
  OBVIOUS
<1>1. PICK k \in Bad : \A y \in Bad : k <= y
  <2>1. Bad \in SUBSET Int /\ 0 \in Int /\ \A x \in Bad : 0 <= x
    OBVIOUS
  <2> HIDE DEF Bad
  <2> QED
    BY <2>1, LeastIs, Zenon
<1> QED
  BY <1>1, BeforeIs

LEMMA YearIs == YearDays \in Nat \ {0} /\ YearHours \in Nat \ {0}
<1>1. Months \in 1..Months /\ Months - 1 \in 0..Months
  BY BeforeIs
<1>2. YearDays \in Nat \ {0}
  BY <1>1, BeforeIs, BeforeTyped DEF YearDays
<1>3. YearHours \in Nat /\ YearHours = DayHours * YearDays
  BY <1>2, Lengths, Times DEF YearHours
<1>4. DayHours * 0 + DayHours <= DayHours * YearDays
  BY <1>2, Lengths, TimesOrdered
<1>5. DayHours * 0 = 0
  BY Lengths
<1> QED
  BY <1>2, <1>3, <1>4, <1>5, Lengths

LEMMA StartNext ==
    ASSUME NEW m \in Nat
    PROVE  /\ monthStart[m] \in Nat /\ DaysIn(m) \in Nat \ {0}
           /\ monthStart[m + 1] = monthStart[m] + DaysIn(m)
<1> DEFINE q == m \div Months
           r == m % Months
<1>0. Months \in Nat \ {0}
  BY BeforeIs
<1>1. q \in Nat /\ r \in 0..(Months - 1) /\ m = Months * q + r
  BY <1>0, Divided, Zenon
<1>2. \A l \in Nat : monthStart[l] = (l \div Months) * YearDays + daysBefore[l % Months]
  BY DEF monthStart
<1>3. monthStart[m] = q * YearDays + daysBefore[r] /\ DaysIn(m) = MonthLengths[r + 1]
  BY <1>2 DEF DaysIn
<1> HIDE DEF q, r
<1>4. daysBefore[r] \in Nat /\ MonthLengths[r + 1] \in Nat \ {0} /\ q * YearDays \in Nat
  BY <1>1, BeforeIs, BeforeTyped, YearIs
<1>5. daysBefore[r + 1] = daysBefore[r] + MonthLengths[r + 1]
  BY <1>1, BeforeIs
<1>6. CASE r + 1 < Months
  <2>1. m + 1 = Months * q + (r + 1) /\ q \in Int /\ r + 1 \in Int /\ 0 <= r + 1
    BY <1>1, BeforeIs
  <2>2. (m + 1) \div Months = q /\ (m + 1) % Months = r + 1
    <3>1. r + 1 \in 0..(Months - 1)
      BY <1>0, <1>1, <1>6
    <3>2. (Months * q + (r + 1)) \div Months = q /\ (Months * q + (r + 1)) % Months = r + 1
      BY <1>0, <1>1, <3>1, Composed, Zenon
    <3> QED
      BY <2>1, <3>2, Zenon
  <2>3. monthStart[m + 1] = q * YearDays + daysBefore[r + 1]
    BY <1>2, <2>2
  <2> QED
    BY <2>3, <1>3, <1>4, <1>5
<1>7. CASE r + 1 = Months
  <2>1. Months * (q + 1) = Months * q + Months /\ YearDays * (q + 1) = YearDays * q + YearDays
    BY <1>1, TimesNext, BeforeIs, YearIs
  <2>2. m + 1 = Months * (q + 1) + 0
    BY <1>1, <1>7, <2>1, BeforeIs
  <2>3. (m + 1) \div Months = q + 1 /\ (m + 1) % Months = 0
    BY <1>1, <2>2, DivUnique, BeforeIs
  <2>4. monthStart[m + 1] = (q + 1) * YearDays
    <3>1. monthStart[m + 1] = (q + 1) * YearDays + 0
      BY <1>2, <2>3, BeforeIs
    <3>2. (q + 1) * YearDays \in Int
      BY <1>1, YearIs
    <3> QED
      BY <3>1, <3>2
  <2>5. (q + 1) * YearDays = q * YearDays + YearDays
    BY <1>1, <2>1, YearIs
  <2>6. YearDays = daysBefore[r] + MonthLengths[r + 1]
    BY <1>5, <1>7 DEF YearDays
  <2> QED
    BY <2>4, <2>5, <2>6, <1>3, <1>4
<1> QED
  BY <1>1, <1>3, <1>4, <1>6, <1>7, BeforeIs

LEMMA StartsOrdered ==
    ASSUME NEW m \in Nat, NEW l \in Nat, m < l
    PROVE  monthStart[m] + DaysIn(m) <= monthStart[l]
<1> DEFINE Bad == {n \in Nat : m < n /\ ~(monthStart[m] + DaysIn(m) <= monthStart[n])}
<1> SUFFICES ASSUME Bad # {} PROVE FALSE
  OBVIOUS
<1>1. PICK n \in Bad : \A y \in Bad : n <= y
  <2>1. Bad \in SUBSET Int /\ 0 \in Int /\ \A x \in Bad : 0 <= x
    OBVIOUS
  <2> HIDE DEF Bad
  <2> QED
    BY <2>1, LeastIs, Zenon
<1>2. n \in Nat /\ m < n /\ ~(monthStart[m] + DaysIn(m) <= monthStart[n])
  OBVIOUS
<1>3. n - 1 \in Nat /\ n - 1 \notin Bad
  BY <1>1, <1>2
<1>4. monthStart[(n - 1) + 1] = monthStart[n - 1] + DaysIn(n - 1) /\ monthStart[n - 1] \in Nat /\ DaysIn(n - 1) \in Nat
  BY <1>3, StartNext
<1>5. (n - 1) + 1 = n
  BY <1>2
<1>6. monthStart[m] \in Nat /\ DaysIn(m) \in Nat
  BY StartNext
<1>7. CASE n - 1 = m
  BY <1>2, <1>4, <1>5, <1>6, <1>7
<1>8. CASE m < n - 1
  BY <1>2, <1>3, <1>4, <1>5, <1>6, <1>8
<1> QED
  BY <1>2, <1>7, <1>8

LEMMA MonthIs ==
    ASSUME NEW d \in Nat
    PROVE  /\ MonthOf(d) \in Nat
           /\ monthStart[MonthOf(d)] <= d /\ d < monthStart[MonthOf(d)] + DaysIn(MonthOf(d))
<1> DEFINE y == d \div YearDays
           r == d % YearDays
<1>1. y \in Nat /\ r \in Nat /\ r < YearDays /\ d = YearDays * y + r
  BY DivMod, YearIs
<1> DEFINE T == {k \in 1..Months : r < daysBefore[k]}
<1>2. PICK k \in T : \A x \in T : k <= x
  <2>1. T \in SUBSET Int /\ 0 \in Int /\ \A x \in T : 0 <= x
    OBVIOUS
  <2>2. Months \in T
    BY <1>1, BeforeIs DEF YearDays
  <2> HIDE DEF T
  <2> QED
    BY <2>1, <2>2, LeastIs, Zenon
<1>3. k \in 1..Months /\ r < daysBefore[k] /\ k - 1 \notin T
  BY <1>2
<1>4. daysBefore[k - 1] <= r /\ daysBefore[k - 1] \in Nat /\ daysBefore[k] \in Nat
  BY <1>1, <1>3, BeforeIs, BeforeTyped
<1> DEFINE m == Months * y + (k - 1)
<1>5. m \in Nat /\ m \div Months = y /\ m % Months = k - 1
  <2>1. \A x \in Nat, j \in 0..(Months - 1) :
          Months * x + j \in Nat /\ (Months * x + j) \div Months = x /\ (Months * x + j) % Months = j
    <3>1. Months \in Nat \ {0}
      BY BeforeIs
    <3> QED
      BY <3>1, DivUnique
  <2>2. k - 1 \in 0..(Months - 1)
    BY <1>3, BeforeIs
  <2> HIDE DEF y
  <2> QED
    BY <1>1, <2>1, <2>2
<1>6. monthStart[m] = y * YearDays + daysBefore[k - 1] /\ DaysIn(m) = MonthLengths[k]
  BY <1>3, <1>5, BeforeIs DEF monthStart, DaysIn
<1>7. y * YearDays = YearDays * y /\ y * YearDays \in Nat
  BY <1>1, YearIs
<1>8. monthStart[m] <= d /\ d < monthStart[m] + DaysIn(m)
  BY <1>1, <1>3, <1>4, <1>6, <1>7, BeforeIs
<1>9. m \in y * Months .. (y + 1) * Months - 1
  <2>1. Months * (y + 1) = Months * y + Months
    BY <1>1, TimesNext, BeforeIs
  <2>2. y * Months = Months * y /\ (y + 1) * Months = Months * (y + 1) /\ Months * y \in Int
    BY <1>1, BeforeIs
  <2> QED
    BY <2>1, <2>2, <1>3, BeforeIs
<1>10. MonthOf(d) = CHOOSE x \in y * Months .. (y + 1) * Months - 1 : monthStart[x] <= d /\ d < monthStart[x] + DaysIn(x)
  BY DEF MonthOf
<1> HIDE DEF m
<1>11. /\ MonthOf(d) \in y * Months .. (y + 1) * Months - 1
       /\ monthStart[MonthOf(d)] <= d /\ d < monthStart[MonthOf(d)] + DaysIn(MonthOf(d))
  BY <1>8, <1>9, <1>10, Zenon
<1>12. y * Months \in Nat /\ (y + 1) * Months \in Nat
  BY <1>1, BeforeIs
<1> HIDE DEF y
<1> QED
  BY <1>11, <1>12

LEMMA MonthUnique ==
    ASSUME NEW d \in Nat, NEW m \in Nat, monthStart[m] <= d, d < monthStart[m] + DaysIn(m)
    PROVE  MonthOf(d) = m
<1>1. MonthOf(d) < m => monthStart[MonthOf(d)] + DaysIn(MonthOf(d)) <= monthStart[m]
  BY MonthIs, StartsOrdered
<1>2. m < MonthOf(d) => monthStart[m] + DaysIn(m) <= monthStart[MonthOf(d)]
  BY MonthIs, StartsOrdered
<1>3. MonthOf(d) \in Nat /\ monthStart[MonthOf(d)] \in Nat /\ DaysIn(MonthOf(d)) \in Nat /\ monthStart[m] \in Nat /\ DaysIn(m) \in Nat
  BY MonthIs, StartNext
<1> QED
  BY <1>1, <1>2, <1>3, MonthIs

LEMMA DaysOfMonth ==
    ASSUME NEW m \in Nat, NEW k \in 1..DaysIn(m)
    PROVE  /\ monthStart[m] + k - 1 \in Nat
           /\ MonthOf(monthStart[m] + k - 1) = m /\ DayInMonth(monthStart[m] + k - 1) = k
<1>1. monthStart[m] \in Nat /\ DaysIn(m) \in Nat
  BY StartNext
<1> DEFINE d == monthStart[m] + k - 1
<1>2. d \in Nat /\ monthStart[m] <= d /\ d < monthStart[m] + DaysIn(m)
  BY <1>1
<1>3. MonthOf(d) = m
  BY <1>2, MonthUnique
<1> QED
  BY <1>1, <1>2, <1>3 DEF DayInMonth

LEMMA DayInMonthIs ==
    ASSUME NEW d \in Nat
    PROVE  /\ DayInMonth(d) \in 1..DaysIn(MonthOf(d))
           /\ d = monthStart[MonthOf(d)] + DayInMonth(d) - 1
<1>1. monthStart[MonthOf(d)] \in Nat /\ DaysIn(MonthOf(d)) \in Nat
  BY MonthIs, StartNext
<1> QED
  BY <1>1, MonthIs DEF DayInMonth

LEMMA MonthsMonotone ==
    ASSUME NEW d \in Nat, NEW e \in Nat, d <= e
    PROVE  MonthOf(d) <= MonthOf(e)
<1>1. MonthOf(e) < MonthOf(d) => monthStart[MonthOf(e)] + DaysIn(MonthOf(e)) <= monthStart[MonthOf(d)]
  BY MonthIs, StartsOrdered
<1>2. /\ MonthOf(d) \in Nat /\ MonthOf(e) \in Nat
      /\ monthStart[MonthOf(e)] \in Nat /\ DaysIn(MonthOf(e)) \in Nat /\ monthStart[MonthOf(d)] \in Nat
  BY MonthIs, StartNext
<1> QED
  BY <1>1, <1>2, MonthIs

----
(* The clock: an instant is on the wall clock when it shows, or an hour    *)
(* later, and never goes back past another.                                *)

LEMMA WallIs == ASSUME NEW t \in Nat PROVE WallOf(t) \in {t, t + 1}
BY DEF WallOf

LEMMA WallMonotone == ASSUME NEW t \in Nat, NEW u \in Nat, t <= u PROVE WallOf(t) <= WallOf(u)
BY WallIs

LEMMA ConvertIs ==
    ASSUME NEW w \in Nat
    PROVE  /\ Convert(w) \in Nat \cup {NoTime}
           /\ Convert(w) # NoTime => WallOf(Convert(w)) = w /\ Convert(w) <= w /\ w <= Convert(w) + 1
<1>1. WallOf(0) = 0
  <2>1. 0 = YearHours * 0 + 0
    BY YearIs
  <2>2. 0 % YearHours = 0
    BY <2>1, DivUnique, YearIs
  <2> QED
    BY <2>2, RecurrenceConstants DEF WallOf, Summer
<1>2. CASE WallOf(w) = w
  BY <1>2 DEF Convert
<1>3. CASE WallOf(w) # w /\ WallOf(w - 1) = w
  <2>1. w - 1 \in Nat /\ Convert(w) = w - 1
    BY <1>1, <1>3 DEF Convert
  <2> QED
    BY <1>3, <2>1
<1>4. CASE WallOf(w) # w /\ WallOf(w - 1) # w
  BY <1>4 DEF Convert
<1> QED
  BY <1>2, <1>3, <1>4

\* Times of the wall clock that exist are in the order of their instants.
LEMMA ConvertOrdered ==
    ASSUME NEW w \in Nat, NEW x \in Nat, Convert(w) # NoTime, Convert(x) # NoTime
    PROVE  w < x <=> Convert(w) < Convert(x)
<1>1. Convert(w) \in Nat /\ Convert(x) \in Nat /\ WallOf(Convert(w)) = w /\ WallOf(Convert(x)) = x
  BY ConvertIs
<1>2. Convert(w) <= Convert(x) => w <= x
  BY <1>1, WallMonotone
<1>3. Convert(x) <= Convert(w) => x <= w
  BY <1>1, WallMonotone
<1>4. w = x => Convert(w) = Convert(x)
  OBVIOUS
<1>5. Convert(w) = Convert(x) => w = x
  BY <1>1
<1> HIDE DEF Convert, WallOf
<1> QED
  BY <1>1, <1>2, <1>3, <1>4, <1>5

LEMMA HoursOfDay ==
    ASSUME NEW d \in Nat, NEW h \in 0..(DayHours - 1)
    PROVE  d * DayHours + h \in Nat /\ DayOf(d * DayHours + h) = d /\ HourOf(d * DayHours + h) = h
<1>1. d * DayHours = DayHours * d
  BY Lengths, Times
<1>2. DayHours * d + h \in Nat /\ (DayHours * d + h) \div DayHours = d /\ (DayHours * d + h) % DayHours = h
  BY Lengths, Composed, Zenon
<1> QED
  BY <1>1, <1>2, Zenon DEF DayOf, HourOf

LEMMA HourIs ==
    ASSUME NEW w \in Nat
    PROVE  DayOf(w) \in Nat /\ HourOf(w) \in 0..(DayHours - 1) /\ w = DayOf(w) * DayHours + HourOf(w)
<1>1. DayOf(w) \in Nat /\ HourOf(w) \in 0..(DayHours - 1) /\ w = DayHours * DayOf(w) + HourOf(w)
  BY Lengths, Divided, Zenon DEF DayOf, HourOf
<1>2. DayHours * DayOf(w) = DayOf(w) * DayHours
  BY <1>1, Lengths, Times
<1> QED
  BY <1>1, <1>2, Zenon

LEMMA WeekIs ==
    ASSUME NEW d \in Nat
    PROVE  WeekOf(d) \in Nat /\ Weekday(d) \in 0..(WeekDays - 1) /\ d = WeekDays * WeekOf(d) + Weekday(d)
BY Lengths, Divided, Zenon DEF WeekOf, Weekday

LEMMA DaysOfWeek ==
    ASSUME NEW k \in Nat, NEW g \in 0..(WeekDays - 1)
    PROVE  WeekDays * k + g \in Nat /\ WeekOf(WeekDays * k + g) = k /\ Weekday(WeekDays * k + g) = g
BY Lengths, Composed, Zenon DEF WeekOf, Weekday

LEMMA WeeksOrdered ==
    ASSUME NEW d \in Nat, NEW e \in Nat, d < e
    PROVE  WeekOf(d) < WeekOf(e) \/ (WeekOf(d) = WeekOf(e) /\ Weekday(d) < Weekday(e))
BY Lengths, QuotientsOrdered DEF WeekOf, Weekday

LEMMA WeekBefore ==
    ASSUME NEW k \in Nat, NEW l \in Nat, k < l, NEW g \in 0..(WeekDays - 1), NEW h \in Nat
    PROVE  WeekDays * k + g < WeekDays * l + h
<1>1. WeekDays * k + WeekDays <= WeekDays * l
  BY Lengths, TimesOrdered
<1>2. WeekDays * k \in Nat /\ WeekDays * l \in Nat
  BY Lengths, Times
<1> QED
  BY <1>1, <1>2, Lengths

----
(* The day after day of a rule. *)

WellFormed(rec) ==
    /\ rec.freq \in Frequencies /\ rec.interval \in Nat \ {0}
    /\ rec.until \in Nat /\ rec.byday \subseteq 0..(WeekDays - 1)

OnRule(rec, d0, d) ==
    CASE rec.freq = "DAILY" -> (d - d0) % rec.interval = 0
      [] rec.freq = "WEEKLY" -> /\ Weekday(d) \in (IF rec.byday = {} THEN {Weekday(d0)} ELSE rec.byday)
                                /\ (WeekOf(d) - WeekOf(d0)) % rec.interval = 0
      [] rec.freq = "MONTHLY" -> /\ (MonthOf(d) - MonthOf(d0)) % rec.interval = 0
                                 /\ MonthOf(d) > MonthOf(d0)
                                 /\ DayInMonth(d) = Min({DayInMonth(d0), DaysIn(MonthOf(d))})

DaysOfRule(rec, d0) == {d \in Nat : d > d0 /\ OnRule(rec, d0, d)}

NextDay(d, rec) ==
    LET m == MonthOf(d) + rec.interval
    IN  CASE rec.freq = "MONTHLY" -> monthStart[m] + Min({rec.anchorDay, DaysIn(m)}) - 1
          [] rec.freq = "WEEKLY" /\ rec.byday # {} -> d + BydayOffset(Weekday(d), rec.interval, rec.byday)
          [] rec.freq = "WEEKLY" /\ rec.byday = {} -> d + rec.interval * WeekDays
          [] rec.freq = "DAILY" -> d + rec.interval

LeastAbove(v, X, u) == v \in X /\ v > u /\ \A x \in X : x > u => v <= x

LEMMA NextDaily ==
    ASSUME NEW rec, WellFormed(rec), rec.freq = "DAILY", NEW d0 \in Nat,
           NEW d \in {d0} \cup DaysOfRule(rec, d0)
    PROVE  LeastAbove(NextDay(d, rec), DaysOfRule(rec, d0), d)
<1> DEFINE i == rec.interval
           D == DaysOfRule(rec, d0)
<1>1. i \in Nat \ {0} /\ d \in Nat /\ d >= d0 /\ d \in {d0} \cup D
  BY DEF WellFormed, DaysOfRule
<1>2. NextDay(d, rec) = d + i
  BY DEF NextDay
<1>3. \A x : x \in D <=> x \in Nat /\ x > d0 /\ Apart(d0, x, i)
  BY DEF DaysOfRule, OnRule, Apart
<1> HIDE DEF i, D
<1>4. Apart(d0, d, i)
  BY <1>1, <1>3, NoMultiple
<1>5. d + i \in D
  <2>1. Apart(d0, d + i, i)
    BY <1>1, <1>4, MultipleAgain
  <2>2. d + i \in Nat /\ d + i > d0
    BY <1>1
  <2> QED
    BY <2>1, <2>2, <1>3
<1>6. \A x \in D : x > d => d + i <= x
  BY <1>1, <1>3, <1>4, NextMultiple
<1>7. d + i > d
  BY <1>1
<1> QED
  BY <1>2, <1>5, <1>6, <1>7 DEF LeastAbove, D

LEMMA NextWeekly ==
    ASSUME NEW rec, WellFormed(rec), rec.freq = "WEEKLY", rec.byday = {}, NEW d0 \in Nat,
           NEW d \in {d0} \cup DaysOfRule(rec, d0)
    PROVE  LeastAbove(NextDay(d, rec), DaysOfRule(rec, d0), d)
<1> DEFINE i == rec.interval
           D == DaysOfRule(rec, d0)
           k == WeekOf(d)
           g == Weekday(d)
           k0 == WeekOf(d0)
           e == WeekDays * (k + i) + g
<1>1. i \in Nat \ {0} /\ d \in Nat /\ d >= d0 /\ d \in {d0} \cup D
  BY DEF WellFormed, DaysOfRule
<1>2. NextDay(d, rec) = d + i * WeekDays
  BY DEF NextDay
<1>3. \A x : x \in D <=> x \in Nat /\ x > d0 /\ Weekday(x) = Weekday(d0) /\ Apart(k0, WeekOf(x), i)
  BY DEF DaysOfRule, OnRule, Apart
<1>4. k \in Nat /\ g \in 0..(WeekDays - 1) /\ d = WeekDays * k + g /\ k0 \in Nat
  BY <1>1, WeekIs
<1> HIDE DEF i, D, k0
<1>5. Apart(k0, k, i) /\ g = Weekday(d0)
  BY <1>1, <1>3, <1>4, NoMultiple DEF k0
<1>6. WeekOf(e) = k + i /\ Weekday(e) = g /\ e \in Nat /\ k + i \in Nat
  <2>1. k + i \in Nat
    BY <1>1, <1>4
  <2> QED
    BY <2>1, <1>4, DaysOfWeek, Zenon
<1>7. e = d + i * WeekDays /\ e > d
  <2>1. WeekDays * (k + i) = WeekDays * k + WeekDays * i
    BY <1>1, <1>4, Lengths, TimesSum
  <2>2. WeekDays * i = i * WeekDays /\ WeekDays * i \in Nat /\ WeekDays * k \in Nat
    BY <1>1, <1>4, Lengths, Times
  <2>3. WeekDays * 0 + WeekDays <= WeekDays * i
    BY <1>1, Lengths, TimesOrdered
  <2>4. WeekDays * 0 = 0
    BY Lengths
  <2> QED
    BY <1>4, <2>1, <2>2, <2>3, <2>4, Lengths
<1> HIDE DEF e
<1>8. e \in D
  <2>1. Apart(k0, k + i, i)
    BY <1>1, <1>4, <1>5, MultipleAgain
  <2>2. e > d0
    BY <1>1, <1>6, <1>7
  <2> QED
    BY <2>1, <2>2, <1>3, <1>5, <1>6, Zenon
<1>9. ASSUME NEW x \in D, x > d PROVE e <= x
  <2>1. x \in Nat /\ Weekday(x) = g /\ Apart(k0, WeekOf(x), i)
    BY <1>3, <1>5
  <2>2. x = WeekDays * WeekOf(x) + g /\ WeekOf(x) \in Nat
    BY <2>1, WeekIs, Zenon
  <2>3. k < WeekOf(x)
    BY <1>1, <1>4, <1>9, <2>1, WeeksOrdered
  <2>4. k + i <= WeekOf(x)
    BY <1>1, <1>4, <1>5, <2>1, <2>2, <2>3, NextMultiple
  <2>5. CASE k + i = WeekOf(x)
    <3>1. e = x
      BY <2>2, <2>5, Zenon DEF e
    <3> QED
      BY <3>1, <2>1
  <2>6. CASE k + i < WeekOf(x)
    <3>1. WeekDays * (k + i) + g < WeekDays * WeekOf(x) + g
      BY <1>4, <1>6, <2>2, <2>6, WeekBefore
    <3>2. e < x
      BY <3>1, <2>2, Zenon DEF e
    <3> QED
      BY <3>2, <1>6, <2>1
  <2> QED
    BY <2>4, <2>5, <2>6, <1>6, <2>2
<1> QED
  BY <1>2, <1>7, <1>8, <1>9 DEF LeastAbove, D

LEMMA NextByday ==
    ASSUME NEW rec, WellFormed(rec), rec.freq = "WEEKLY", rec.byday # {}, NEW d0 \in Nat,
           NEW d \in {d0} \cup DaysOfRule(rec, d0)
    PROVE  LeastAbove(NextDay(d, rec), DaysOfRule(rec, d0), d)
<1> DEFINE i == rec.interval
           B == rec.byday
           D == DaysOfRule(rec, d0)
           k == WeekOf(d)
           g == Weekday(d)
           k0 == WeekOf(d0)
           later == {x \in B : x > g}
<1>1. i \in Nat \ {0} /\ d \in Nat /\ d >= d0 /\ B \subseteq 0..(WeekDays - 1) /\ B # {} /\ d \in {d0} \cup D
  BY DEF WellFormed, DaysOfRule
<1>2. NextDay(d, rec) = d + BydayOffset(g, i, B)
  BY DEF NextDay
<1>3. \A x : x \in D <=> x \in Nat /\ x > d0 /\ Weekday(x) \in B /\ Apart(k0, WeekOf(x), i)
  BY DEF DaysOfRule, OnRule, Apart
<1>4. k \in Nat /\ g \in 0..(WeekDays - 1) /\ d = WeekDays * k + g /\ k0 \in Nat /\ WeekDays * k \in Nat
  <2>1. k \in Nat /\ g \in 0..(WeekDays - 1) /\ d = WeekDays * k + g /\ k0 \in Nat
    BY <1>1, WeekIs
  <2> QED
    BY <2>1, Lengths, Times
<1> HIDE DEF i, D, k0, B
<1>5. Apart(k0, k, i)
  BY <1>1, <1>3, <1>4, NoMultiple DEF k0
<1>6. ASSUME NEW x \in D, x > d
      PROVE  /\ x \in Nat /\ Weekday(x) \in B /\ Weekday(x) \in 0..(WeekDays - 1) /\ Apart(k0, WeekOf(x), i)
             /\ WeekOf(x) \in Nat /\ x = WeekDays * WeekOf(x) + Weekday(x)
             /\ k < WeekOf(x) \/ (WeekOf(x) = k /\ g < Weekday(x))
  <2>1. x \in Nat /\ Weekday(x) \in B /\ Apart(k0, WeekOf(x), i)
    BY <1>3
  <2>2. WeekOf(x) \in Nat /\ x = WeekDays * WeekOf(x) + Weekday(x) /\ Weekday(x) \in 0..(WeekDays - 1)
    BY <2>1, WeekIs, Zenon
  <2>3. k < WeekOf(x) \/ (WeekOf(x) = k /\ g < Weekday(x))
    BY <1>1, <1>6, <2>1, WeeksOrdered
  <2> QED
    BY <2>1, <2>2, <2>3, Zenon
<1>7. CASE later # {}
  <2> DEFINE b == Min(later)
             e == WeekDays * k + b
  <2>1. later \in SUBSET Nat
    <3>1. B \in SUBSET Nat
      BY <1>1
    <3> HIDE DEF g
    <3> QED
      BY <3>1
  <2>2. b \in later /\ \A y \in later : b <= y
    BY <2>1, <1>7, MinOf
  <2>3. BydayOffset(g, i, B) = b - g
    BY <1>7 DEF BydayOffset
  <2> HIDE DEF b
  <2>4. b \in B /\ b > g /\ b \in 0..(WeekDays - 1)
    BY <2>2, <1>1
  <2>5. NextDay(d, rec) = e /\ e > d
    BY <1>2, <1>4, <2>3, <2>4
  <2>6. WeekOf(e) = k /\ Weekday(e) = b /\ e \in Nat
    BY <1>4, <2>4, DaysOfWeek, Zenon
  <2>7. e \in D
    <3> HIDE DEF e
    <3>1. e > d0
      BY <1>1, <2>5, <2>6
    <3> QED
      BY <3>1, <1>3, <1>5, <2>4, <2>6, Zenon
  <2>8. ASSUME NEW x \in D, x > d PROVE e <= x
    <3>1. CASE WeekOf(x) = k /\ g < Weekday(x)
      <4>1. Weekday(x) \in later
        BY <1>6, <2>8, <3>1
      <4>2. b <= Weekday(x)
        BY <4>1, <2>2
      <4>3. x = WeekDays * k + Weekday(x) /\ Weekday(x) \in 0..(WeekDays - 1)
        BY <1>6, <2>8, <3>1
      <4> QED
        BY <4>2, <4>3, <1>4, <2>4
    <3>2. CASE k < WeekOf(x)
      <4>1. WeekDays * k + b < WeekDays * WeekOf(x) + Weekday(x)
        <5>1. WeekOf(x) \in Nat /\ Weekday(x) \in Nat
          BY <1>6, <2>8
        <5> QED
          BY <5>1, <1>4, <2>4, <3>2, WeekBefore
      <4>2. e < x /\ x \in Nat
        BY <4>1, <1>6, <2>8, Zenon
      <4> QED
        BY <4>2, <2>6
    <3> QED
      BY <3>1, <3>2, <1>6, <2>8
  <2> QED
    BY <2>5, <2>7, <2>8 DEF LeastAbove, D
<1>8. CASE later = {}
  <2> DEFINE b == Min(B)
             e == WeekDays * (k + i) + b
  <2>1. b \in B /\ \A y \in B : b <= y
    <3>1. B \in SUBSET Nat
      BY <1>1
    <3> QED
      BY <3>1, <1>1, MinOf
  <2>2. BydayOffset(g, i, B) = WeekDays * i - g + b
    BY <1>8 DEF BydayOffset
  <2> HIDE DEF b
  <2>3. b \in 0..(WeekDays - 1) /\ k + i \in Nat /\ k < k + i
    BY <2>1, <1>1, <1>4
  <2>4. WeekDays * (k + i) = WeekDays * k + WeekDays * i /\ WeekDays * i \in Nat
    BY <1>1, <1>4, Lengths, Times, TimesSum
  <2>5. NextDay(d, rec) = e
    BY <1>2, <1>4, <2>2, <2>3, <2>4
  <2>6. WeekOf(e) = k + i /\ Weekday(e) = b /\ e \in Nat
    BY <2>3, DaysOfWeek, Zenon
  <2>7. d < e
    <3>1. WeekDays * k + g < WeekDays * (k + i) + b
      <4>1. b \in Nat
        BY <2>3
      <4> HIDE DEF k, g
      <4> QED
        BY <4>1, <1>4, <2>3, WeekBefore
    <3> QED
      BY <3>1, <1>4, Zenon
  <2> HIDE DEF e
  <2>8. e \in D
    <3>1. Apart(k0, k + i, i)
      BY <1>1, <1>4, <1>5, MultipleAgain
    <3>2. e > d0
      BY <1>1, <2>6, <2>7
    <3> QED
      BY <3>1, <3>2, <1>3, <2>1, <2>6, Zenon
  <2>9. ASSUME NEW x \in D, x > d PROVE e <= x
    <3>1. ~(WeekOf(x) = k /\ g < Weekday(x))
      BY <1>6, <1>8, <2>9
    <3>2. /\ k < WeekOf(x) /\ x \in Nat /\ WeekOf(x) \in Nat /\ Weekday(x) \in B /\ Weekday(x) \in Nat
          /\ x = WeekDays * WeekOf(x) + Weekday(x) /\ Apart(k0, WeekOf(x), i)
      BY <1>6, <2>9, <3>1
    <3>3. k + i <= WeekOf(x)
      <4> HIDE DEF k
      <4> QED
        BY <1>1, <1>4, <1>5, <3>2, NextMultiple
    <3>4. CASE k + i = WeekOf(x)
      <4>1. x = WeekDays * (k + i) + Weekday(x) /\ b <= Weekday(x)
        BY <3>2, <3>4, <2>1
      <4>2. WeekDays * (k + i) \in Nat
        BY <2>3, Lengths, Times
      <4> QED
        BY <4>1, <4>2, <2>3, <3>2 DEF e
    <3>5. CASE k + i < WeekOf(x)
      <4>1. WeekDays * (k + i) + b < WeekDays * WeekOf(x) + Weekday(x)
        <5> HIDE DEF k
        <5> QED
          BY <2>3, <3>2, <3>5, WeekBefore
      <4>2. e < x
        BY <4>1, <3>2, Zenon DEF e
      <4> QED
        BY <4>2, <2>6, <3>2
    <3> QED
      BY <3>3, <3>4, <3>5, <2>3, <3>2
  <2> QED
    BY <2>5, <2>7, <2>8, <2>9 DEF LeastAbove, D
<1> QED
  BY <1>7, <1>8

LEMMA NextMonthly ==
    ASSUME NEW rec, WellFormed(rec), rec.freq = "MONTHLY", NEW d0 \in Nat, rec.anchorDay = DayInMonth(d0),
           NEW d \in {d0} \cup DaysOfRule(rec, d0)
    PROVE  LeastAbove(NextDay(d, rec), DaysOfRule(rec, d0), d)
<1> DEFINE i == rec.interval
           D == DaysOfRule(rec, d0)
           k == MonthOf(d)
           k0 == MonthOf(d0)
           a == DayInMonth(d0)
           dayIn(m) == monthStart[m] + Min({a, DaysIn(m)}) - 1
           e == dayIn(k + i)
<1>1. i \in Nat \ {0} /\ d \in Nat /\ d >= d0 /\ d \in {d0} \cup D
  BY DEF WellFormed, DaysOfRule
<1>2. NextDay(d, rec) = e
  BY DEF NextDay
<1>3. \A x : x \in D <=> /\ x \in Nat /\ x > d0 /\ Apart(k0, MonthOf(x), i) /\ MonthOf(x) > k0
                         /\ DayInMonth(x) = Min({a, DaysIn(MonthOf(x))})
  BY DEF DaysOfRule, OnRule, Apart
<1>4. k \in Nat /\ k0 \in Nat /\ k >= k0
  BY <1>1, MonthIs, MonthsMonotone
<1>5. a \in Nat \ {0}
  <2>1. a \in 1..DaysIn(MonthOf(d0)) /\ DaysIn(MonthOf(d0)) \in Nat
    BY <1>4, DayInMonthIs, StartNext
  <2> QED
    BY <2>1
<1> HIDE DEF i, D, k0, a
<1>6. Apart(k0, k, i)
  <2>1. CASE d = d0
    <3>1. Apart(k0, k0, i)
      BY <1>1, <1>4, NoMultiple
    <3> QED
      BY <2>1, <3>1, Zenon DEF k0
  <2>2. CASE d \in D
    BY <2>2, <1>3, Zenon
  <2> QED
    BY <2>1, <2>2, <1>1
<1>7. ASSUME NEW m \in Nat
      PROVE  /\ dayIn(m) \in Nat /\ MonthOf(dayIn(m)) = m /\ DayInMonth(dayIn(m)) = Min({a, DaysIn(m)})
             /\ monthStart[m] \in Nat /\ DaysIn(m) \in Nat /\ monthStart[m] <= dayIn(m) /\ dayIn(m) < monthStart[m] + DaysIn(m)
  <2>1. DaysIn(m) \in Nat \ {0} /\ monthStart[m] \in Nat
    BY StartNext
  <2> DEFINE c == Min({a, DaysIn(m)})
  <2>2. c \in 1..DaysIn(m)
    BY <2>1, <1>5, MinOfTwo
  <2> HIDE DEF c
  <2>3. dayIn(m) = monthStart[m] + c - 1
    BY DEF c
  <2>4. monthStart[m] + c - 1 \in Nat /\ MonthOf(monthStart[m] + c - 1) = m /\ DayInMonth(monthStart[m] + c - 1) = c
    BY <2>2, DaysOfMonth, Zenon
  <2>5. monthStart[m] <= monthStart[m] + c - 1 /\ monthStart[m] + c - 1 < monthStart[m] + DaysIn(m)
    BY <2>1, <2>2
  <2> HIDE DEF dayIn
  <2> QED
    BY <2>1, <2>3, <2>4, <2>5, Zenon DEF c
<1>8. ASSUME NEW x \in D PROVE x \in Nat /\ MonthOf(x) \in Nat /\ x = dayIn(MonthOf(x)) /\ MonthOf(x) > k0 /\ Apart(k0, MonthOf(x), i)
  <2>1. x \in Nat /\ DayInMonth(x) = Min({a, DaysIn(MonthOf(x))}) /\ MonthOf(x) > k0 /\ Apart(k0, MonthOf(x), i)
    BY <1>3
  <2>2. x = monthStart[MonthOf(x)] + DayInMonth(x) - 1 /\ MonthOf(x) \in Nat
    BY <2>1, DayInMonthIs, MonthIs
  <2> QED
    BY <2>1, <2>2
<1>9. k + i \in Nat /\ k < k + i /\ Apart(k0, k + i, i) /\ k + i > k0
  <2>1. k + i \in Nat /\ k < k + i /\ k + i > k0
    BY <1>1, <1>4
  <2>2. Apart(k0, k + i, i)
    BY <1>1, <1>4, <1>6, MultipleAgain
  <2> QED
    BY <2>1, <2>2
<1>10. /\ e \in Nat /\ MonthOf(e) = k + i /\ DayInMonth(e) = Min({a, DaysIn(k + i)})
       /\ monthStart[k + i] \in Nat /\ DaysIn(k + i) \in Nat /\ monthStart[k + i] <= e /\ e < monthStart[k + i] + DaysIn(k + i)
  BY <1>7, <1>9, Zenon
<1>11. d = d0 \/ d = dayIn(k)
  BY <1>1, <1>8
<1> HIDE DEF dayIn, e
<1>12. e > d
  <2>1. monthStart[k] + DaysIn(k) <= monthStart[k + i]
    BY <1>4, <1>9, StartsOrdered
  <2>2. d < monthStart[k] + DaysIn(k)
    BY <1>1, MonthIs
  <2>3. monthStart[k] \in Nat /\ DaysIn(k) \in Nat
    BY <1>4, StartNext
  <2> QED
    BY <2>1, <2>2, <2>3, <1>1, <1>10
<1>13. e \in D
  <2>1. e > d0
    BY <1>1, <1>10, <1>12
  <2> QED
    BY <2>1, <1>3, <1>9, <1>10, Zenon
<1>14. ASSUME NEW x \in D, x > d PROVE e <= x
  <2>1. x \in Nat /\ MonthOf(x) \in Nat /\ x = dayIn(MonthOf(x)) /\ MonthOf(x) > k0 /\ Apart(k0, MonthOf(x), i)
    BY <1>8
  <2>2. k <= MonthOf(x)
    BY <1>1, <1>14, <2>1, MonthsMonotone
  <2>3. k # MonthOf(x)
    <3>1. d = d0 => k = k0
      BY DEF k0
    <3>2. d # x
      BY <1>1, <1>14, <2>1
    <3>3. k0 # MonthOf(x)
      BY <1>4, <2>1
    <3> QED
      BY <3>1, <3>2, <3>3, <2>1, <1>11, Zenon
  <2>4. k + i <= MonthOf(x)
    <3>1. k < MonthOf(x)
      BY <2>1, <2>2, <2>3, <1>4
    <3> HIDE DEF k
    <3> QED
      BY <3>1, <1>1, <1>4, <1>6, <2>1, NextMultiple
  <2>5. CASE k + i = MonthOf(x)
    BY <2>1, <2>5 DEF e
  <2>6. CASE k + i < MonthOf(x)
    <3>1. monthStart[k + i] + DaysIn(k + i) <= monthStart[MonthOf(x)]
      BY <2>1, <2>6, <1>9, StartsOrdered
    <3>2. monthStart[MonthOf(x)] \in Nat /\ monthStart[MonthOf(x)] <= dayIn(MonthOf(x))
      BY <2>1, <1>7
    <3> QED
      BY <3>1, <3>2, <2>1, <1>10
  <2> QED
    BY <2>4, <2>5, <2>6, <2>1, <1>9
<1> QED
  BY <1>2, <1>12, <1>13, <1>14 DEF LeastAbove, D

LEMMA NextDayIs ==
    ASSUME NEW rec, WellFormed(rec), rec.freq # "HOURLY", NEW d0 \in Nat, rec.anchorDay = DayInMonth(d0),
           NEW d \in {d0} \cup DaysOfRule(rec, d0)
    PROVE  LeastAbove(NextDay(d, rec), DaysOfRule(rec, d0), d)
<1>1. rec.freq \in {"DAILY", "WEEKLY", "MONTHLY"}
  BY DEF WellFormed, Frequencies
<1> QED
  BY <1>1, NextDaily, NextWeekly, NextByday, NextMonthly

----
(* A search looks at one place after another: it ends at some (ends) with  *)
(* a value (answer) and goes on from the others to a later one (goOn).     *)

SearchAt(ends, answer, goOn, f, n) ==
    [u \in Nat |-> IF n = 0 THEN NoTime ELSE IF u \in ends THEN answer[u] ELSE f[n - 1][goOn[u]]]

SearchesBy(f, N, ends, answer, goOn) == f = [n \in 0..N |-> SearchAt(ends, answer, goOn, f, n)]

LEMMA SearchExists ==
    ASSUME NEW k \in Nat, NEW ends, NEW answer, NEW goOn
    PROVE  \E f : SearchesBy(f, k, ends, answer, goOn)
<1> DEFINE Missing == {m \in Nat : ~\E f : f = [n \in 0..m |-> SearchAt(ends, answer, goOn, f, n)]}
<1> SUFFICES ASSUME Missing # {} PROVE FALSE
  BY DEF SearchesBy
<1>1. PICK m \in Missing : \A y \in Missing : m <= y
  <2>1. Missing \in SUBSET Int /\ 0 \in Int /\ \A x \in Missing : 0 <= x
    OBVIOUS
  <2> HIDE DEF Missing
  <2> QED
    BY <2>1, LeastIs, Zenon
<1>2. m \in Nat
  OBVIOUS
<1>3. ASSUME NEW f, NEW g, NEW n \in Nat, n # 0 => f[n - 1] = g[n - 1]
      PROVE  SearchAt(ends, answer, goOn, f, n) = SearchAt(ends, answer, goOn, g, n)
  BY <1>3 DEF SearchAt
<1>4. CASE m = 0
  <2> DEFINE g == [n \in 0..0 |-> NoTime]
             f == [n \in 0..0 |-> SearchAt(ends, answer, goOn, g, n)]
  <2>1. \A n \in 0..0 : SearchAt(ends, answer, goOn, g, n) = SearchAt(ends, answer, goOn, f, n)
    BY <1>3
  <2>2. f = [n \in 0..0 |-> SearchAt(ends, answer, goOn, f, n)]
    BY <2>1
  <2> QED
    BY <1>4, <2>2
<1>5. CASE m # 0
  <2>1. m - 1 \in Nat /\ m - 1 \notin Missing
    BY <1>1, <1>2, <1>5
  <2>2. PICK g : g = [n \in 0..(m - 1) |-> SearchAt(ends, answer, goOn, g, n)]
    BY <2>1
  <2> DEFINE f == [n \in 0..m |-> IF n = m THEN SearchAt(ends, answer, goOn, g, m) ELSE g[n]]
  <2>3. \A n \in 0..(m - 1) : f[n] = g[n] /\ g[n] = SearchAt(ends, answer, goOn, g, n)
    BY <1>2, <2>2
  <2>4. f[m] = SearchAt(ends, answer, goOn, g, m) /\ f = [n \in 0..m |-> f[n]]
    BY <1>2
  <2> HIDE DEF f
  <2>5. ASSUME NEW n \in 0..m PROVE f[n] = SearchAt(ends, answer, goOn, f, n)
    <3>1. n # 0 => f[n - 1] = g[n - 1]
      BY <1>2, <2>3
    <3>2. SearchAt(ends, answer, goOn, f, n) = SearchAt(ends, answer, goOn, g, n)
      BY <3>1, <1>2, <1>3
    <3>3. n = m \/ n \in 0..(m - 1)
      BY <1>2
    <3> QED
      BY <3>2, <3>3, <2>3, <2>4
  <2>6. f = [n \in 0..m |-> SearchAt(ends, answer, goOn, f, n)]
    BY <2>4, <2>5, Zenon
  <2> QED
    BY <2>6, <1>1
<1> QED
  BY <1>4, <1>5

\* The first value of X that lies beyond a place, by where it lies (pos), or
\* none that is less than so many steps from there, by their rank.
FirstBeyond(v, X, pos, u) == v \in X /\ pos[v] > u /\ \A x \in X : pos[x] > u => v <= x
NoneWithin(n, X, pos, rank, u) == \A x \in X : pos[x] > u => rank[pos[x]] >= rank[u] + n
Found(v, n, X, pos, rank, u) == FirstBeyond(v, X, pos, u) \/ (v = NoTime /\ NoneWithin(n, X, pos, rank, u))

\* Each place a search goes to is the next there is, and where it ends its
\* answer is the first value beyond.
EndsWell(ends, answer, K, X, pos) ==
    \A u \in K : u \in ends =>
        FirstBeyond(answer[u], X, pos, u) \/ (answer[u] = NoTime /\ \A x \in X : pos[x] <= u)
GoesOnWell(ends, goOn, K, X, pos, rank) ==
    \A u \in K : u \notin ends => /\ goOn[u] \in K /\ goOn[u] > u /\ rank[goOn[u]] >= rank[u] + 1
                                  /\ \A x \in X : pos[x] > u => pos[x] > goOn[u]
Ascending(rank) == rank \in [Nat -> Nat] /\ \A a, b \in Nat : a <= b => rank[a] <= rank[b]

LEMMA SearchValue ==
    ASSUME NEW N \in Nat, NEW ends, NEW answer, NEW goOn, NEW f, SearchesBy(f, N, ends, answer, goOn),
           NEW n \in 0..N, NEW u \in Nat
    PROVE  f[n][u] = IF n = 0 THEN NoTime ELSE IF u \in ends THEN answer[u] ELSE f[n - 1][goOn[u]]
<1>1. f[n] = SearchAt(ends, answer, goOn, f, n)
  BY DEF SearchesBy
<1>2. SearchAt(ends, answer, goOn, f, n)[u] =
        IF n = 0 THEN NoTime ELSE IF u \in ends THEN answer[u] ELSE f[n - 1][goOn[u]]
  BY DEF SearchAt
<1> QED
  BY <1>1, <1>2, Zenon

LEMMA SearchFinds ==
    ASSUME NEW N \in Nat, NEW ends, NEW answer, NEW goOn, NEW f, SearchesBy(f, N, ends, answer, goOn),
           NEW K \in SUBSET Nat, NEW X \in SUBSET Nat, NEW pos \in [Nat -> Nat], NEW rank, Ascending(rank),
           EndsWell(ends, answer, K, X, pos), GoesOnWell(ends, goOn, K, X, pos, rank)
    PROVE  \A n \in 0..N : \A u \in K : Found(f[n][u], n, X, pos, rank, u)
<1> DEFINE Bad == {n \in 0..N : \E u \in K : ~Found(f[n][u], n, X, pos, rank, u)}
<1> SUFFICES ASSUME Bad # {} PROVE FALSE
  OBVIOUS
<1>1. PICK n \in Bad : \A y \in Bad : n <= y
  <2>1. Bad \in SUBSET Int /\ 0 \in Int /\ \A x \in Bad : 0 <= x
    OBVIOUS
  <2> HIDE DEF Bad
  <2> QED
    BY <2>1, LeastIs, Zenon
<1>2. PICK u \in K : ~Found(f[n][u], n, X, pos, rank, u)
  OBVIOUS
<1>3. n \in 0..N /\ n \in Nat /\ u \in Nat
  OBVIOUS
<1>4. n # 0 => n - 1 \in 0..N /\ \A y \in K : Found(f[n - 1][y], n - 1, X, pos, rank, y)
  <2>1. n # 0 => n - 1 \in 0..N /\ n - 1 \notin Bad
    BY <1>1, <1>3
  <2> QED
    BY <2>1, Zenon
<1> HIDE DEF Bad
<1>5. f[n][u] = IF n = 0 THEN NoTime ELSE IF u \in ends THEN answer[u] ELSE f[n - 1][goOn[u]]
  BY <1>3, SearchValue
<1>6. \A x \in X : pos[x] \in Nat /\ rank[pos[x]] \in Nat
  BY DEF Ascending
<1>7. CASE n = 0
  <2>1. NoneWithin(n, X, pos, rank, u)
    <3>1. \A x \in X : pos[x] > u => rank[pos[x]] >= rank[u]
      BY <1>3, <1>6 DEF Ascending
    <3>2. rank[u] \in Nat
      BY <1>3 DEF Ascending
    <3> QED
      BY <3>1, <3>2, <1>7 DEF NoneWithin
  <2> QED
    BY <2>1, <1>2, <1>5, <1>7 DEF Found
<1>8. CASE n # 0 /\ u \in ends
  <2>1. f[n][u] = answer[u]
    BY <1>5, <1>8
  <2>2. CASE FirstBeyond(answer[u], X, pos, u)
    BY <2>1, <2>2, <1>2, Zenon DEF Found
  <2>3. CASE answer[u] = NoTime /\ \A x \in X : pos[x] <= u
    <3>1. NoneWithin(n, X, pos, rank, u)
      BY <2>3, <1>3, <1>6 DEF NoneWithin
    <3> QED
      BY <2>1, <2>3, <3>1, <1>2, Zenon DEF Found
  <2> QED
    BY <1>8, <2>2, <2>3, Zenon DEF EndsWell
<1>9. CASE n # 0 /\ u \notin ends
  <2> DEFINE w == goOn[u]
  <2>1. w \in K /\ w > u /\ rank[w] >= rank[u] + 1 /\ \A x \in X : pos[x] > u => pos[x] > w
    BY <1>9, Zenon DEF GoesOnWell
  <2>2. f[n][u] = f[n - 1][w]
    BY <1>5, <1>9
  <2> HIDE DEF w
  <2>3. Found(f[n - 1][w], n - 1, X, pos, rank, w)
    BY <2>1, <1>4, <1>9, Zenon
  <2>4. w \in Nat
    BY <2>1
  <2>5. CASE FirstBeyond(f[n - 1][w], X, pos, w)
    <3> DEFINE v == f[n - 1][w]
    <3>1. v \in X /\ pos[v] > w /\ \A x \in X : pos[x] > w => v <= x
      BY <2>5, Zenon DEF FirstBeyond
    <3> HIDE DEF v
    <3>2. pos[v] > u
      BY <3>1, <2>1, <2>4, <1>3, <1>6
    <3>3. FirstBeyond(v, X, pos, u)
      BY <3>1, <3>2, <2>1, Zenon DEF FirstBeyond
    <3> QED
      BY <3>3, <2>2, <1>2, Zenon DEF Found, v
  <2>6. CASE f[n - 1][w] = NoTime /\ NoneWithin(n - 1, X, pos, rank, w)
    <3>1. rank[w] \in Nat /\ rank[u] \in Nat
      BY <2>4, <1>3 DEF Ascending
    <3>2. ASSUME NEW x \in X, pos[x] > u PROVE rank[pos[x]] >= rank[u] + n
      <4>1. rank[pos[x]] >= rank[w] + (n - 1)
        BY <2>1, <2>6, <3>2, Zenon DEF NoneWithin
      <4> QED
        BY <4>1, <3>1, <2>1, <1>3, <1>6
    <3> QED
      BY <2>2, <2>6, <3>2, <1>2, Zenon DEF Found, NoneWithin
  <2> QED
    BY <2>3, <2>5, <2>6, Zenon DEF Found
<1> QED
  BY <1>7, <1>8, <1>9

----
(* The next occurrence of a series, by its wall clock or by the hour. *)

Series(rec, w0) ==
    /\ WellFormed(rec) /\ w0 \in Nat /\ Convert(w0) \in Nat
    /\ rec.anchorDay = DayInMonth(DayOf(w0))
    /\ rec.until < Convert(w0) + MaxTaskDays * DayHours

TimesOfRule(rec, w0) == {d * DayHours + HourOf(w0) : d \in DaysOfRule(rec, DayOf(w0))}

\* The instants the rule gives, excluded dates and those after its end too.
GivenBy(rec, w0) ==
    IF rec.freq = "HOURLY" THEN {t \in Nat : t > Convert(w0) /\ (t - Convert(w0)) % rec.interval = 0}
    ELSE {Convert(w) : w \in TimesOfRule(rec, w0)} \ {NoTime}

LEMMA NextTimeIs ==
    ASSUME NEW rec, NEW w0, Series(rec, w0), rec.freq # "HOURLY", NEW u \in {w0} \cup TimesOfRule(rec, w0)
    PROVE  /\ u \in Nat /\ TimesOfRule(rec, w0) \subseteq Nat /\ HourOf(u) = HourOf(w0)
           /\ LeastAbove(NextFields(u, rec), TimesOfRule(rec, w0), u)
           /\ DayOf(NextFields(u, rec)) > DayOf(u)
<1> DEFINE d0 == DayOf(w0)
           h == HourOf(w0)
           D == DaysOfRule(rec, d0)
<1>1. w0 \in Nat /\ d0 \in Nat /\ h \in 0..(DayHours - 1) /\ w0 = d0 * DayHours + h /\ WellFormed(rec)
  BY HourIs DEF Series
<1>2. D \subseteq Nat
  BY DEF DaysOfRule
<1>3. PICK d \in {d0} \cup D : u = d * DayHours + h
  BY <1>1 DEF TimesOfRule
<1>4. d \in Nat /\ u \in Nat /\ DayOf(u) = d /\ HourOf(u) = h
  BY <1>1, <1>2, <1>3, HoursOfDay
<1> DEFINE e == NextDay(d, rec)
<1>5. NextFields(u, rec) = e * DayHours + h
  <2>1. NextFields(u, rec) = NextDay(DayOf(u), rec) * DayHours + HourOf(u)
    BY DEF NextFields, NextDay
  <2> QED
    BY <2>1, <1>4
<1>6. LeastAbove(e, D, d)
  <2>1. rec.anchorDay = DayInMonth(d0)
    BY DEF Series
  <2> QED
    BY <2>1, <1>1, NextDayIs
<1> HIDE DEF e, d0, h
<1>7. e \in D /\ e \in Nat /\ e > d
  BY <1>2, <1>6 DEF LeastAbove
<1>8. \A a, b \in Nat : a <= b => a * DayHours <= b * DayHours
  <2> SUFFICES ASSUME NEW a \in Nat, NEW b \in Nat, a <= b PROVE a * DayHours <= b * DayHours
    OBVIOUS
  <2>1. DayHours * a <= DayHours * b
    BY TimesMonotone, Lengths
  <2> QED
    BY <2>1, Lengths
<1>9. \A a \in Nat : a * DayHours \in Nat /\ (a + 1) * DayHours = a * DayHours + DayHours
  <2> SUFFICES ASSUME NEW a \in Nat PROVE a * DayHours \in Nat /\ (a + 1) * DayHours = a * DayHours + DayHours
    OBVIOUS
  <2>1. DayHours * (a + 1) = DayHours * a + DayHours
    BY TimesNext, Lengths
  <2> QED
    BY <2>1, Lengths
<1>10. e * DayHours + h > u
  <2>1. (d + 1) * DayHours <= e * DayHours
    BY <1>4, <1>7, <1>8
  <2> QED
    BY <2>1, <1>1, <1>3, <1>4, <1>7, <1>9, Lengths
<1>11. e * DayHours + h \in TimesOfRule(rec, w0)
  BY <1>7 DEF TimesOfRule, h, d0
<1>12. ASSUME NEW w \in TimesOfRule(rec, w0), w > u PROVE e * DayHours + h <= w
  <2>1. PICK x \in D : w = x * DayHours + h
    BY DEF TimesOfRule, h, d0
  <2>2. x \in Nat
    BY <1>2
  <2>3. x > d
    <3>1. x <= d => x * DayHours <= d * DayHours
      BY <1>4, <1>8, <2>2
    <3> QED
      BY <3>1, <1>1, <1>3, <1>4, <1>9, <1>12, <2>1, <2>2
  <2>4. e <= x
    BY <1>6, <2>3 DEF LeastAbove
  <2> QED
    BY <2>1, <2>2, <2>4, <1>1, <1>7, <1>8, <1>9
<1>13. TimesOfRule(rec, w0) \subseteq Nat
  <2>1. \A x \in D : x * DayHours + h \in Nat
    BY <1>1, <1>2, <1>9
  <2> QED
    BY <2>1 DEF TimesOfRule, h, d0
<1>14. DayOf(e * DayHours + h) = e
  BY <1>1, <1>7, HoursOfDay
<1> QED
  BY <1>4, <1>5, <1>7, <1>10, <1>11, <1>12, <1>13, <1>14 DEF LeastAbove, h

TryEnds(rec) == {w \in Nat : Convert(NextFields(w, rec)) # NoTime}
TryAnswer(rec) == [w \in Nat |-> Convert(NextFields(w, rec))]
TryNext(rec) == [w \in Nat |-> NextFields(w, rec)]

TryAt(rec, f, n) ==
    [w \in Nat |->
          LET next == NextFields(w, rec)
          IN  IF n = 0 THEN NoTime
              ELSE IF Convert(next) # NoTime THEN Convert(next) ELSE f[n - 1][next]]

LEMMA TryIs ==
    ASSUME NEW rec, rec.freq # "HOURLY", NEW t
    PROVE  \E f : /\ SearchesBy(f, MaxTries, TryEnds(rec), TryAnswer(rec), TryNext(rec))
                  /\ NextOccurrence(t, rec) = f[MaxTries][WallOf(t)]
<1>1. ASSUME NEW f, NEW n
      PROVE  TryAt(rec, f, n) = SearchAt(TryEnds(rec), TryAnswer(rec), TryNext(rec), f, n)
  BY DEF TryAt, SearchAt, TryEnds, TryAnswer, TryNext
<1>2. \E f : f = [n \in 0..MaxTries |-> TryAt(rec, f, n)]
  <2>1. PICK f : SearchesBy(f, MaxTries, TryEnds(rec), TryAnswer(rec), TryNext(rec))
    BY SearchExists, Lengths, Zenon
  <2>2. f = [n \in 0..MaxTries |-> TryAt(rec, f, n)]
    BY <1>1, <2>1 DEF SearchesBy
  <2> QED
    BY <2>2
<1> DEFINE try == CHOOSE f : f = [n \in 0..MaxTries |-> TryAt(rec, f, n)]
<1>3. try = [n \in 0..MaxTries |-> TryAt(rec, try, n)]
  BY <1>2
<1>4. NextOccurrence(t, rec) = try[MaxTries][WallOf(t)]
  BY DEF NextOccurrence, TryAt
<1> HIDE DEF try
<1>5. try = [n \in 0..MaxTries |-> SearchAt(TryEnds(rec), TryAnswer(rec), TryNext(rec), try, n)]
  BY <1>1, <1>3
<1> QED
  BY <1>4, <1>5 DEF SearchesBy

LEMMA TryFinds ==
    ASSUME NEW rec, NEW w0, Series(rec, w0), rec.freq # "HOURLY", NEW t, WallOf(t) \in {w0} \cup TimesOfRule(rec, w0)
    PROVE  LET v == NextOccurrence(t, rec)
           IN  \/ /\ v \in GivenBy(rec, w0) /\ WallOf(v) > WallOf(t)
                  /\ \A x \in GivenBy(rec, w0) : WallOf(x) > WallOf(t) => v <= x
               \/ /\ v = NoTime
                  /\ \A x \in GivenBy(rec, w0) : WallOf(x) > WallOf(t) => DayOf(WallOf(x)) >= DayOf(WallOf(t)) + MaxTries
<1> DEFINE K == {w0} \cup TimesOfRule(rec, w0)
           X == GivenBy(rec, w0)
           pos == [x \in Nat |-> WallOf(x)]
           rank == [w \in Nat |-> DayOf(w)]
           ends == TryEnds(rec)
           answer == TryAnswer(rec)
           goOn == TryNext(rec)
<1>1. K \in SUBSET Nat /\ MaxTries \in Nat
  BY NextTimeIs, Lengths
<1>2. \A x \in X : x \in Nat /\ \E w \in TimesOfRule(rec, w0) : w \in Nat /\ x = Convert(w) /\ Convert(w) # NoTime /\ WallOf(x) = w
  BY <1>1, ConvertIs DEF GivenBy
<1>3. X \in SUBSET Nat
  BY <1>2
<1>4. pos \in [Nat -> Nat] /\ rank \in [Nat -> Nat] /\ (\A x \in Nat : pos[x] = WallOf(x)) /\ (\A w \in Nat : rank[w] = DayOf(w))
  BY WallIs, HourIs
<1>5. Ascending(rank)
  BY <1>4, QuotientsMonotone, Lengths DEF DayOf, Ascending
<1>6. ASSUME NEW u \in K
      PROVE  LET v == NextFields(u, rec)
             IN  /\ u \in Nat /\ v \in TimesOfRule(rec, w0) /\ v \in K /\ v \in Nat /\ v > u /\ DayOf(v) >= DayOf(u) + 1
                 /\ \A x \in X : WallOf(x) > u => WallOf(x) >= v
                 /\ (u \in ends <=> Convert(v) # NoTime) /\ answer[u] = Convert(v) /\ goOn[u] = v
  <2> DEFINE v == NextFields(u, rec)
  <2>1. u \in Nat /\ TimesOfRule(rec, w0) \subseteq Nat /\ LeastAbove(v, TimesOfRule(rec, w0), u) /\ DayOf(v) > DayOf(u)
    BY NextTimeIs
  <2>2. v \in TimesOfRule(rec, w0) /\ v \in Nat /\ v > u /\ \A w \in TimesOfRule(rec, w0) : w > u => v <= w
    BY <2>1 DEF LeastAbove
  <2>3. \A x \in X : WallOf(x) > u => WallOf(x) >= v
    BY <1>2, <2>2
  <2>4. DayOf(v) \in Nat /\ DayOf(u) \in Nat
    BY <2>1, <2>2, HourIs
  <2>5. (u \in ends <=> Convert(v) # NoTime) /\ answer[u] = Convert(v) /\ goOn[u] = v
    BY <2>1 DEF TryEnds, TryAnswer, TryNext
  <2> HIDE DEF v
  <2>6. v \in K /\ DayOf(v) >= DayOf(u) + 1
    BY <2>1, <2>2, <2>4
  <2>7. /\ u \in Nat /\ v \in TimesOfRule(rec, w0) /\ v \in K /\ v \in Nat /\ v > u /\ DayOf(v) >= DayOf(u) + 1
        /\ \A x \in X : WallOf(x) > u => WallOf(x) >= v
        /\ (u \in ends <=> Convert(v) # NoTime) /\ answer[u] = Convert(v) /\ goOn[u] = v
    BY <2>1, <2>2, <2>3, <2>5, <2>6
  <2> QED
    BY <2>7 DEF v
<1> HIDE DEF pos, rank, ends, answer, goOn, K
<1>7. ASSUME NEW u \in K, u \in ends PROVE FirstBeyond(answer[u], X, pos, u)
  <2> DEFINE v == NextFields(u, rec)
  <2>1. /\ u \in Nat /\ v \in TimesOfRule(rec, w0) /\ v \in Nat /\ v > u /\ Convert(v) # NoTime /\ answer[u] = Convert(v)
        /\ \A x \in X : WallOf(x) > u => WallOf(x) >= v
    BY <1>6, <1>7
  <2> HIDE DEF v
  <2>2. Convert(v) \in X
    BY <2>1 DEF GivenBy
  <2>3. Convert(v) \in Nat /\ WallOf(Convert(v)) = v
    BY <2>1, ConvertIs
  <2>4. ASSUME NEW x \in X, WallOf(x) > u PROVE Convert(v) <= x
    <3>1. PICK w \in TimesOfRule(rec, w0) : w \in Nat /\ x = Convert(w) /\ Convert(w) # NoTime /\ WallOf(x) = w
      BY <1>2
    <3>2. w >= v
      BY <2>1, <2>4, <3>1
    <3>3. w = v \/ v < w
      BY <2>1, <3>1, <3>2
    <3>4. v < w => Convert(v) < Convert(w)
      BY <2>1, <3>1, ConvertOrdered
    <3>5. x \in Nat
      BY <1>3
    <3> QED
      BY <3>1, <3>3, <3>4, <3>5, <2>3
  <2>5. \A x \in X : pos[x] > u => Convert(v) <= x
    BY <1>3, <1>4, <2>4
  <2>6. pos[Convert(v)] = v
    BY <2>3, <1>4
  <2> QED
    BY <2>1, <2>2, <2>5, <2>6 DEF FirstBeyond
<1>8. ASSUME NEW u \in K, u \notin ends
      PROVE  /\ goOn[u] \in K /\ goOn[u] > u /\ rank[goOn[u]] >= rank[u] + 1
             /\ \A x \in X : pos[x] > u => pos[x] > goOn[u]
  <2> DEFINE v == NextFields(u, rec)
  <2>1. /\ u \in Nat /\ v \in K /\ v \in Nat /\ v > u /\ DayOf(v) >= DayOf(u) + 1 /\ Convert(v) = NoTime /\ goOn[u] = v
        /\ \A x \in X : WallOf(x) > u => WallOf(x) >= v
    BY <1>6, <1>8
  <2> HIDE DEF v
  <2>2. ASSUME NEW x \in X, pos[x] > u PROVE pos[x] > v
    <3>1. PICK w \in TimesOfRule(rec, w0) : w \in Nat /\ x = Convert(w) /\ Convert(w) # NoTime /\ WallOf(x) = w
      BY <1>2
    <3>2. pos[x] = w /\ w >= v
      BY <1>3, <1>4, <2>1, <2>2, <3>1
    <3>3. w # v
      BY <2>1, <3>1
    <3> QED
      BY <2>1, <3>1, <3>2, <3>3
  <2> QED
    BY <1>4, <2>1, <2>2
<1>9. PICK f : /\ SearchesBy(f, MaxTries, ends, answer, goOn)
               /\ NextOccurrence(t, rec) = f[MaxTries][WallOf(t)]
  BY TryIs DEF ends, answer, goOn
<1> DEFINE u == WallOf(t)
           v == NextOccurrence(t, rec)
<1>10. u \in K
  BY DEF K
<1> HIDE DEF X
<1>11. EndsWell(ends, answer, K, X, pos) /\ GoesOnWell(ends, goOn, K, X, pos, rank)
  BY <1>7, <1>8, Zenon DEF EndsWell, GoesOnWell
<1>12. Found(v, MaxTries, X, pos, rank, u)
  <2>1. \A n \in 0..MaxTries : \A y \in K : Found(f[n][y], n, X, pos, rank, y)
    BY <1>1, <1>3, <1>4, <1>5, <1>9, <1>11, SearchFinds, Zenon
  <2>2. MaxTries \in 0..MaxTries
    BY <1>1
  <2> QED
    BY <2>1, <2>2, <1>9, <1>10, Zenon DEF u, v
<1>13. \A x \in X : pos[x] = WallOf(x) /\ rank[pos[x]] = DayOf(WallOf(x))
  BY <1>3, <1>4
<1>14. rank[u] = DayOf(u)
  BY <1>1, <1>4, <1>10
<1> HIDE DEF u, v
<1>15. \/ v \in X /\ WallOf(v) > u /\ \A x \in X : WallOf(x) > u => v <= x
       \/ v = NoTime /\ \A x \in X : WallOf(x) > u => DayOf(WallOf(x)) >= DayOf(u) + MaxTries
  BY <1>12, <1>13, <1>14 DEF Found, FirstBeyond, NoneWithin
<1> QED
  BY <1>15 DEF u, v, X

\* The next occurrence of a series is the next instant its rule gives, or
\* there is none for longer than a reminder may run.
LEMMA NextIs ==
    ASSUME NEW rec, NEW w0, Series(rec, w0), NEW t \in {Convert(w0)} \cup GivenBy(rec, w0)
    PROVE  /\ t \in Nat /\ GivenBy(rec, w0) \subseteq Nat /\ t >= Convert(w0)
           /\ \/ LeastAbove(NextOccurrence(t, rec), GivenBy(rec, w0), t)
              \/ NextOccurrence(t, rec) = NoTime /\ \A x \in GivenBy(rec, w0) : x > t => x > rec.until
<1> DEFINE X == GivenBy(rec, w0)
           a == Convert(w0)
           i == rec.interval
<1>1. /\ w0 \in Nat /\ a \in Nat /\ a # NoTime /\ i \in Nat \ {0} /\ rec.until \in Nat
      /\ rec.until < a + MaxTaskDays * DayHours
  <2>1. a # NoTime
    BY RecurrenceConstants DEF Series
  <2> QED
    BY <2>1 DEF Series, WellFormed
<1>2. CASE rec.freq = "HOURLY"
  <2>1. X = {x \in Nat : x > a /\ Apart(a, x, i)}
    BY <1>2 DEF GivenBy, Apart
  <2>2. NextOccurrence(t, rec) = t + i
    BY <1>2 DEF NextOccurrence
  <2>3. t = a \/ t \in X
    OBVIOUS
  <2> HIDE DEF X, a, i
  <2>4. t \in Nat /\ t >= a /\ Apart(a, t, i)
    <3>1. Apart(a, a, i)
      BY <1>1, NoMultiple
    <3> QED
      BY <3>1, <1>1, <2>1, <2>3
  <2>5. t + i \in X /\ t + i > t
    <3>1. Apart(a, t + i, i)
      BY <1>1, <2>4, MultipleAgain
    <3>2. t + i \in Nat /\ t + i > a /\ t + i > t
      BY <1>1, <2>4
    <3> QED
      BY <3>1, <3>2, <2>1
  <2>6. ASSUME NEW x \in X, x > t PROVE t + i <= x
    <3>1. x \in Int /\ Apart(a, x, i) /\ t < x
      BY <2>1, <2>4, <2>6
    <3>2. a \in Int /\ t \in Int /\ i \in Nat \ {0} /\ Apart(a, t, i)
      BY <1>1, <2>4
    <3> QED
      BY <3>1, <3>2, NextMultiple, Zenon
  <2>7. LeastAbove(t + i, X, t)
    BY <2>5, <2>6 DEF LeastAbove
  <2>8. X \subseteq Nat
    BY <2>1
  <2> QED
    BY <2>2, <2>4, <2>7, <2>8 DEF X, a, i
<1>3. CASE rec.freq # "HOURLY"
  <2> DEFINE W == TimesOfRule(rec, w0)
  <2>1. W \subseteq Nat /\ \A w \in W : HourOf(w) = HourOf(w0)
    BY <1>3, NextTimeIs
  <2>2. X = {Convert(w) : w \in W} \ {NoTime}
    BY <1>3 DEF GivenBy
  <2>3. ASSUME NEW x \in {a} \cup X
        PROVE  x \in Nat /\ WallOf(x) \in {w0} \cup W /\ WallOf(x) \in Nat /\ HourOf(WallOf(x)) = HourOf(w0)
                 /\ Convert(WallOf(x)) = x /\ x # NoTime
    <3>1. PICK w \in {w0} \cup W : x = Convert(w) /\ w \in Nat /\ x # NoTime
      BY <1>1, <2>1, <2>2
    <3>2. x \in Nat /\ WallOf(x) = w
      BY <3>1, ConvertIs
    <3> QED
      BY <3>1, <3>2, <2>1
  <2>4. \A w \in W : w > w0
    <3>1. DayOf(w0) \in Nat /\ HourOf(w0) \in 0..(DayHours - 1) /\ w0 = DayOf(w0) * DayHours + HourOf(w0)
      BY <1>1, HourIs
    <3> SUFFICES ASSUME NEW w \in W PROVE w > w0
      OBVIOUS
    <3>2. PICK d \in Nat : d > DayOf(w0) /\ w = d * DayHours + HourOf(w0)
      BY DEF TimesOfRule, DaysOfRule
    <3>3. DayHours * (DayOf(w0) + 1) <= DayHours * d /\ DayHours * (DayOf(w0) + 1) = DayHours * DayOf(w0) + DayHours
      BY <3>1, <3>2, TimesMonotone, TimesNext, Lengths
    <3> QED
      BY <3>1, <3>2, <3>3, Lengths
  <2>5. \A x \in X : x > a
    <3> SUFFICES ASSUME NEW x \in X PROVE x > a
      OBVIOUS
    <3>1. PICK w \in W : x = Convert(w) /\ Convert(w) # NoTime /\ w \in Nat
      BY <2>1, <2>2
    <3>2. w0 < w
      BY <1>1, <2>4, <3>1
    <3>3. Convert(w0) < Convert(w)
      BY <1>1, <3>1, <3>2, ConvertOrdered
    <3>4. Convert(w) \in Nat
      BY <3>1, ConvertIs
    <3> QED
      BY <3>1, <3>3, <3>4, <1>1
  <2>6. ASSUME NEW x \in {a} \cup X, NEW y \in {a} \cup X PROVE x < y <=> WallOf(x) < WallOf(y)
    BY <2>3, ConvertOrdered
  <2>7. WallOf(t) \in {w0} \cup W /\ t \in {a} \cup X
    BY <2>3
  <2> DEFINE v == NextOccurrence(t, rec)
  <2>8. \/ v \in X /\ WallOf(v) > WallOf(t) /\ \A x \in X : WallOf(x) > WallOf(t) => v <= x
        \/ v = NoTime /\ \A x \in X : WallOf(x) > WallOf(t) => DayOf(WallOf(x)) >= DayOf(WallOf(t)) + MaxTries
    BY <1>3, <2>7, TryFinds
  <2> HIDE DEF v, X, a, W
  <2>9. \A x \in X : x > t <=> WallOf(x) > WallOf(t)
    BY <2>3, <2>6, <2>7
  <2>10. ASSUME v \in X /\ WallOf(v) > WallOf(t) /\ \A x \in X : WallOf(x) > WallOf(t) => v <= x
         PROVE  LeastAbove(v, X, t)
    BY <2>9, <2>10 DEF LeastAbove
  <2>11. ASSUME v = NoTime /\ \A x \in X : WallOf(x) > WallOf(t) => DayOf(WallOf(x)) >= DayOf(WallOf(t)) + MaxTries,
                NEW x \in X, x > t
         PROVE  x > rec.until
    <3> DEFINE h == HourOf(w0)
               p == DayOf(WallOf(x))
               q == DayOf(WallOf(t))
    <3>1. p >= q + MaxTries
      BY <2>9, <2>11
    <3>2. x \in Nat /\ t \in Nat /\ WallOf(x) \in Nat /\ WallOf(t) \in Nat /\ HourOf(WallOf(x)) = h /\ HourOf(WallOf(t)) = h
      BY <2>3, <2>7
    <3>3. p \in Nat /\ q \in Nat /\ h \in Nat /\ WallOf(x) = p * DayHours + h /\ WallOf(t) = q * DayHours + h
      BY <3>2, HourIs
    <3>4. WallOf(x) <= x + 1 /\ t <= WallOf(t)
      BY <3>2, WallIs
    <3> HIDE DEF p, q, h
    <3>5. q + (MaxTaskDays + 1) <= p
      BY <3>1, <3>3, SearchesSuffice, Lengths
    <3>6. DayHours * (q + (MaxTaskDays + 1)) <= DayHours * p
      BY <3>3, <3>5, TimesMonotone, Lengths
    <3>7. DayHours * (q + (MaxTaskDays + 1)) = DayHours * q + DayHours * (MaxTaskDays + 1)
      BY <3>3, Lengths
    <3>8. DayHours * (MaxTaskDays + 1) = DayHours * MaxTaskDays + DayHours
      BY TimesNext, Lengths
    <3>9. /\ DayHours * p = p * DayHours /\ DayHours * q = q * DayHours /\ DayHours * MaxTaskDays = MaxTaskDays * DayHours
          /\ p * DayHours \in Nat /\ q * DayHours \in Nat /\ MaxTaskDays * DayHours \in Nat
      BY <3>3, Lengths
    <3>10. WallOf(x) >= WallOf(t) + MaxTaskDays * DayHours + DayHours
      BY <3>3, <3>6, <3>7, <3>8, <3>9, Lengths
    <3>11. x >= t + MaxTaskDays * DayHours
      BY <3>2, <3>4, <3>9, <3>10, Lengths
    <3>12. t >= a
      BY <2>5, <2>7, <1>1, <3>2
    <3> QED
      BY <3>2, <3>9, <3>11, <3>12, <1>1
  <2>12. t \in Nat /\ X \subseteq Nat
    BY <2>3, <2>7
  <2>13. t >= a
    BY <2>5, <2>7, <2>12, <1>1
  <2>14. t \in Nat /\ X \subseteq Nat /\ t >= a
         /\ (LeastAbove(v, X, t) \/ (v = NoTime /\ \A x \in X : x > t => x > rec.until))
    BY <2>8, <2>10, <2>11, <2>12, <2>13
  <2> QED
    BY <2>14 DEF v, X, a
<1> QED
  BY <1>2, <1>3

----
(* The first occurrence after an instant that is in the series, and the   *)
(* first after the scheduler has come to it.                               *)

InSeries(rec, w0) == {t \in GivenBy(rec, w0) : t <= rec.until /\ ~Skipped(t, rec.exdate)}

LeastOrNone(v, X, u) == LeastAbove(v, X, u) \/ (v = NoTime /\ \A x \in X : x <= u)

AdvanceEnds(rec) ==
    {u \in Nat : LET next == NextOccurrence(u, rec)
                 IN  next = NoTime \/ next > rec.until \/ ~Skipped(next, rec.exdate)}
AdvanceAnswer(rec) ==
    [u \in Nat |-> LET next == NextOccurrence(u, rec) IN IF next = NoTime \/ next > rec.until THEN NoTime ELSE next]
AdvanceNext(rec) == [u \in Nat |-> NextOccurrence(u, rec)]

AdvanceAt(rec, f, n) ==
    [u \in Nat |->
          LET next == NextOccurrence(u, rec)
          IN  IF n = 0 \/ next = NoTime \/ next > rec.until THEN NoTime
              ELSE IF Skipped(next, rec.exdate) THEN f[n - 1][next] ELSE next]

LEMMA AdvanceSearch ==
    ASSUME NEW rec, NEW t
    PROVE  \E f : /\ SearchesBy(f, MaxSteps, AdvanceEnds(rec), AdvanceAnswer(rec), AdvanceNext(rec))
                  /\ Advance(t, rec) = f[MaxSteps][t]
<1>1. ASSUME NEW f, NEW n
      PROVE  AdvanceAt(rec, f, n) = SearchAt(AdvanceEnds(rec), AdvanceAnswer(rec), AdvanceNext(rec), f, n)
  BY DEF AdvanceAt, SearchAt, AdvanceEnds, AdvanceAnswer, AdvanceNext
<1>2. \E f : f = [n \in 0..MaxSteps |-> AdvanceAt(rec, f, n)]
  <2>1. PICK f : SearchesBy(f, MaxSteps, AdvanceEnds(rec), AdvanceAnswer(rec), AdvanceNext(rec))
    BY SearchExists, Lengths, Zenon
  <2>2. f = [n \in 0..MaxSteps |-> AdvanceAt(rec, f, n)]
    BY <1>1, <2>1 DEF SearchesBy
  <2> QED
    BY <2>2
<1> DEFINE from == CHOOSE f : f = [n \in 0..MaxSteps |-> AdvanceAt(rec, f, n)]
<1>3. from = [n \in 0..MaxSteps |-> AdvanceAt(rec, from, n)]
  BY <1>2
<1>4. Advance(t, rec) = from[MaxSteps][t]
  BY DEF Advance, AdvanceAt
<1> HIDE DEF from
<1>5. from = [n \in 0..MaxSteps |-> SearchAt(AdvanceEnds(rec), AdvanceAnswer(rec), AdvanceNext(rec), from, n)]
  BY <1>1, <1>3
<1> QED
  BY <1>4, <1>5 DEF SearchesBy

BeyondEnds(rec, b) ==
    {u \in Nat : LET next == Advance(u, rec) IN next = NoTime \/ next > b}
BeyondNext(rec) == [u \in Nat |-> Advance(u, rec)]

BeyondAt(rec, boundary, f, n) ==
    [u \in Nat |->
          LET next == Advance(u, rec)
          IN  IF n = 0 \/ next = NoTime THEN NoTime
              ELSE IF next > boundary THEN next ELSE f[n - 1][next]]

LEMMA BeyondSearch ==
    ASSUME NEW rec, NEW t, NEW b
    PROVE  \E f : /\ SearchesBy(f, MaxSteps, BeyondEnds(rec, b), BeyondNext(rec), BeyondNext(rec))
                  /\ AdvanceBeyond(t, rec, b) = f[MaxSteps][t]
<1>1. ASSUME NEW f, NEW n
      PROVE  BeyondAt(rec, b, f, n) = SearchAt(BeyondEnds(rec, b), BeyondNext(rec), BeyondNext(rec), f, n)
  BY DEF BeyondAt, SearchAt, BeyondEnds, BeyondNext
<1>2. \E f : f = [n \in 0..MaxSteps |-> BeyondAt(rec, b, f, n)]
  <2>1. PICK f : SearchesBy(f, MaxSteps, BeyondEnds(rec, b), BeyondNext(rec), BeyondNext(rec))
    BY SearchExists, Lengths, Zenon
  <2>2. f = [n \in 0..MaxSteps |-> BeyondAt(rec, b, f, n)]
    BY <1>1, <2>1 DEF SearchesBy
  <2> QED
    BY <2>2
<1> DEFINE from == CHOOSE f : f = [n \in 0..MaxSteps |-> BeyondAt(rec, b, f, n)]
<1>3. from = [n \in 0..MaxSteps |-> BeyondAt(rec, b, from, n)]
  BY <1>2
<1>4. AdvanceBeyond(t, rec, b) = from[MaxSteps][t]
  BY DEF AdvanceBeyond, BeyondAt
<1> HIDE DEF from
<1>5. from = [n \in 0..MaxSteps |-> SearchAt(BeyondEnds(rec, b), BeyondNext(rec), BeyondNext(rec), from, n)]
  BY <1>1, <1>3
<1> QED
  BY <1>4, <1>5 DEF SearchesBy

Itself == [x \in Nat |-> x]

\* In a search whose places are instants, nothing of a series is out of reach.
LEMMA InReach ==
    ASSUME NEW rec, NEW w0, Series(rec, w0), NEW t \in Nat, t >= Convert(w0), NEW x \in Nat, x >= t + MaxSteps
    PROVE  x > rec.until
<1>1. Convert(w0) \in Nat /\ rec.until \in Nat /\ rec.until < Convert(w0) + MaxTaskDays * DayHours
  BY DEF Series, WellFormed
<1>2. MaxTaskDays * DayHours \in Nat /\ MaxSteps \in Nat
  BY Lengths
<1> QED
  BY <1>1, <1>2, SearchesSuffice

LEMMA AdvanceIs ==
    ASSUME NEW rec, NEW w0, Series(rec, w0), NEW t \in {Convert(w0)} \cup GivenBy(rec, w0)
    PROVE  LeastOrNone(Advance(t, rec), InSeries(rec, w0), t)
<1> DEFINE K == {Convert(w0)} \cup GivenBy(rec, w0)
           X == InSeries(rec, w0)
           ends == AdvanceEnds(rec)
           answer == AdvanceAnswer(rec)
           goOn == AdvanceNext(rec)
<1>1. \A u \in K : u \in Nat /\ u >= Convert(w0)
  BY NextIs
<1>2. K \in SUBSET Nat /\ X \in SUBSET Nat /\ MaxSteps \in Nat /\ rec.until \in Nat
  BY <1>1, Lengths DEF InSeries, Series, WellFormed
<1>3. Itself \in [Nat -> Nat] /\ \A x \in Nat : Itself[x] = x
  BY DEF Itself
<1>4. Ascending(Itself)
  BY <1>3 DEF Ascending
<1>5. ASSUME NEW u \in K
      PROVE  LET v == NextOccurrence(u, rec)
             IN  /\ u \in Nat
                 /\ LeastAbove(v, GivenBy(rec, w0), u) \/ (v = NoTime /\ \A x \in GivenBy(rec, w0) : x > u => x > rec.until)
                 /\ (u \in ends <=> (v = NoTime \/ v > rec.until \/ ~Skipped(v, rec.exdate)))
                 /\ answer[u] = IF v = NoTime \/ v > rec.until THEN NoTime ELSE v
                 /\ goOn[u] = v
  BY NextIs DEF AdvanceEnds, AdvanceAnswer, AdvanceNext
<1>6. X = {x \in GivenBy(rec, w0) : x <= rec.until /\ ~Skipped(x, rec.exdate)} /\ GivenBy(rec, w0) \subseteq K
  BY DEF InSeries
<1> HIDE DEF K, X, ends, answer, goOn
<1>7. ASSUME NEW u \in K, u \in ends
      PROVE  FirstBeyond(answer[u], X, Itself, u) \/ (answer[u] = NoTime /\ \A x \in X : Itself[x] <= u)
  <2> DEFINE v == NextOccurrence(u, rec)
  <2>1. /\ u \in Nat
        /\ LeastAbove(v, GivenBy(rec, w0), u) \/ (v = NoTime /\ \A x \in GivenBy(rec, w0) : x > u => x > rec.until)
        /\ v = NoTime \/ v > rec.until \/ ~Skipped(v, rec.exdate)
        /\ answer[u] = IF v = NoTime \/ v > rec.until THEN NoTime ELSE v
    BY <1>5, <1>7
  <2> HIDE DEF v
  <2>2. CASE v = NoTime /\ \A x \in GivenBy(rec, w0) : x > u => x > rec.until
    <3>1. \A x \in X : x <= u
      BY <2>1, <2>2, <1>2, <1>6
    <3> QED
      BY <2>1, <2>2, <3>1, <1>2, <1>3
  <2>3. CASE LeastAbove(v, GivenBy(rec, w0), u)
    <3>1. v \in GivenBy(rec, w0) /\ v > u /\ (\A x \in GivenBy(rec, w0) : x > u => v <= x) /\ v \in Nat /\ v # NoTime
      BY <2>3, <1>2, <1>6, RecurrenceConstants DEF LeastAbove
    <3>2. CASE v > rec.until
      <4>1. \A x \in X : x <= u
        BY <2>1, <3>1, <3>2, <1>2, <1>6
      <4> QED
        BY <2>1, <3>2, <4>1, <1>2, <1>3
    <3>3. CASE ~(v > rec.until)
      <4>1. v \in X /\ answer[u] = v
        BY <2>1, <3>1, <3>3, <1>2, <1>6
      <4>2. FirstBeyond(v, X, Itself, u)
        BY <3>1, <4>1, <1>2, <1>3, <1>6 DEF FirstBeyond
      <4> QED
        BY <4>1, <4>2
    <3> QED
      BY <3>2, <3>3
  <2> QED
    BY <2>1, <2>2, <2>3
<1>8. ASSUME NEW u \in K, u \notin ends
      PROVE  /\ goOn[u] \in K /\ goOn[u] > u /\ Itself[goOn[u]] >= Itself[u] + 1
             /\ \A x \in X : Itself[x] > u => Itself[x] > goOn[u]
  <2> DEFINE v == NextOccurrence(u, rec)
  <2>1. /\ u \in Nat /\ v # NoTime /\ Skipped(v, rec.exdate) /\ goOn[u] = v
        /\ LeastAbove(v, GivenBy(rec, w0), u)
    BY <1>5, <1>8
  <2> HIDE DEF v
  <2>2. v \in GivenBy(rec, w0) /\ v > u /\ (\A x \in GivenBy(rec, w0) : x > u => v <= x) /\ v \in K /\ v \in Nat
    BY <2>1, <1>2, <1>6 DEF LeastAbove
  <2>3. ASSUME NEW x \in X, x > u PROVE x > v
    <3>1. x \in GivenBy(rec, w0) /\ x # v /\ x \in Nat
      BY <2>1, <1>2, <1>6
    <3> QED
      BY <2>2, <2>3, <3>1
  <2> QED
    BY <2>1, <2>2, <2>3, <1>2, <1>3
<1>9. PICK f : /\ SearchesBy(f, MaxSteps, ends, answer, goOn)
               /\ Advance(t, rec) = f[MaxSteps][t]
  BY AdvanceSearch DEF ends, answer, goOn
<1>10. t \in K
  BY DEF K
<1>11. EndsWell(ends, answer, K, X, Itself) /\ GoesOnWell(ends, goOn, K, X, Itself, Itself)
  BY <1>7, <1>8, Zenon DEF EndsWell, GoesOnWell
<1>12. Found(Advance(t, rec), MaxSteps, X, Itself, Itself, t)
  <2>1. \A n \in 0..MaxSteps : \A y \in K : Found(f[n][y], n, X, Itself, Itself, y)
    BY <1>2, <1>3, <1>4, <1>9, <1>11, SearchFinds, Zenon
  <2>2. MaxSteps \in 0..MaxSteps
    BY <1>2
  <2> QED
    BY <2>1, <2>2, <1>9, <1>10, Zenon
<1>13. CASE FirstBeyond(Advance(t, rec), X, Itself, t)
  BY <1>13, <1>2, <1>3 DEF FirstBeyond, LeastOrNone, LeastAbove, X
<1>14. CASE Advance(t, rec) = NoTime /\ NoneWithin(MaxSteps, X, Itself, Itself, t)
  <2>1. ASSUME NEW x \in X, x > t PROVE FALSE
    <3>1. x >= t + MaxSteps /\ x \in Nat /\ t \in Nat /\ t >= Convert(w0)
      BY <2>1, <1>1, <1>2, <1>3, <1>10, <1>14 DEF NoneWithin
    <3>2. x > rec.until
      BY <3>1, InReach
    <3> QED
      BY <3>1, <3>2, <1>2, <1>6
  <2>2. \A x \in X : x <= t
    BY <2>1, <1>1, <1>2, <1>10
  <2> QED
    BY <2>2, <1>14 DEF LeastOrNone, X
<1> QED
  BY <1>12, <1>13, <1>14, Zenon DEF Found

LEMMA BeyondIs ==
    ASSUME NEW rec, NEW w0, Series(rec, w0), NEW t \in {Convert(w0)} \cup GivenBy(rec, w0),
           NEW b \in Nat, t <= b
    PROVE  LeastOrNone(AdvanceBeyond(t, rec, b), InSeries(rec, w0), b)
<1> DEFINE Y == InSeries(rec, w0)
           K == {u \in {Convert(w0)} \cup GivenBy(rec, w0) : u <= b}
           X == {x \in Y : x > b}
           ends == BeyondEnds(rec, b)
           goOn == BeyondNext(rec)
<1>1. \A u \in {Convert(w0)} \cup GivenBy(rec, w0) : u \in Nat /\ u >= Convert(w0)
  BY NextIs
<1>2. K \in SUBSET Nat /\ Y \in SUBSET Nat /\ X \in SUBSET Nat /\ MaxSteps \in Nat /\ rec.until \in Nat
  BY <1>1, Lengths DEF InSeries, Series, WellFormed
<1>3. Itself \in [Nat -> Nat] /\ \A x \in Nat : Itself[x] = x
  BY DEF Itself
<1>4. Ascending(Itself)
  BY <1>3 DEF Ascending
<1>5. ASSUME NEW u \in K
      PROVE  LET v == Advance(u, rec)
             IN  /\ u \in Nat /\ u <= b
                 /\ LeastAbove(v, Y, u) \/ (v = NoTime /\ \A x \in Y : x <= u)
                 /\ (u \in ends <=> (v = NoTime \/ v > b))
                 /\ goOn[u] = v
  BY <1>2, AdvanceIs DEF BeyondEnds, BeyondNext, LeastOrNone
<1>6. \A v \in Y : v <= b => v \in K
  BY DEF InSeries
<1>7. \A x \in Y : x <= rec.until
  BY DEF InSeries
<1> HIDE DEF K, Y, ends, goOn
<1>8. ASSUME NEW u \in K, u \in ends
      PROVE  FirstBeyond(goOn[u], X, Itself, u) \/ (goOn[u] = NoTime /\ \A x \in X : Itself[x] <= u)
  <2> DEFINE v == Advance(u, rec)
  <2>1. /\ u \in Nat /\ u <= b /\ goOn[u] = v /\ (v = NoTime \/ v > b)
        /\ LeastAbove(v, Y, u) \/ (v = NoTime /\ \A x \in Y : x <= u)
    BY <1>5, <1>8
  <2> HIDE DEF v
  <2>2. CASE v = NoTime /\ \A x \in Y : x <= u
    BY <2>1, <2>2, <1>2, <1>3
  <2>3. CASE LeastAbove(v, Y, u)
    <3>1. v \in Y /\ v > u /\ (\A x \in Y : x > u => v <= x) /\ v \in Nat /\ v # NoTime
      BY <2>3, <1>2, RecurrenceConstants DEF LeastAbove
    <3>2. v > b
      BY <2>1, <3>1
    <3>3. FirstBeyond(v, X, Itself, u)
      BY <2>1, <3>1, <3>2, <1>2, <1>3 DEF FirstBeyond
    <3> QED
      BY <2>1, <3>3
  <2> QED
    BY <2>1, <2>2, <2>3
<1>9. ASSUME NEW u \in K, u \notin ends
      PROVE  /\ goOn[u] \in K /\ goOn[u] > u /\ Itself[goOn[u]] >= Itself[u] + 1
             /\ \A x \in X : Itself[x] > u => Itself[x] > goOn[u]
  <2> DEFINE v == Advance(u, rec)
  <2>1. /\ u \in Nat /\ u <= b /\ goOn[u] = v /\ v # NoTime /\ ~(v > b)
        /\ LeastAbove(v, Y, u)
    BY <1>5, <1>9
  <2> HIDE DEF v
  <2>2. v \in Y /\ v > u /\ v \in Nat /\ v <= b
    BY <2>1, <1>2 DEF LeastAbove
  <2>3. v \in K /\ \A x \in X : x > v
    BY <2>2, <1>2, <1>6
  <2> QED
    BY <2>1, <2>2, <2>3, <1>2, <1>3
<1>10. PICK f : /\ SearchesBy(f, MaxSteps, ends, goOn, goOn)
                /\ AdvanceBeyond(t, rec, b) = f[MaxSteps][t]
  BY BeyondSearch DEF ends, goOn
<1>11. t \in K /\ t \in Nat /\ t >= Convert(w0)
  BY <1>1 DEF K
<1> DEFINE v == AdvanceBeyond(t, rec, b)
<1> HIDE DEF X
<1>12. EndsWell(ends, goOn, K, X, Itself) /\ GoesOnWell(ends, goOn, K, X, Itself, Itself)
  BY <1>8, <1>9, Zenon DEF EndsWell, GoesOnWell
<1>13. Found(v, MaxSteps, X, Itself, Itself, t)
  <2>1. \A n \in 0..MaxSteps : \A y \in K : Found(f[n][y], n, X, Itself, Itself, y)
    BY <1>2, <1>3, <1>4, <1>10, <1>12, SearchFinds, Zenon
  <2>2. MaxSteps \in 0..MaxSteps
    BY <1>2
  <2> QED
    BY <2>1, <2>2, <1>10, <1>11, Zenon
<1> HIDE DEF v
<1>14. \A x \in Y : x \in X <=> x > b
  BY DEF X
<1>15. X \subseteq Y /\ \A x \in X : x > b /\ x > t /\ x \in Nat
  BY <1>2, <1>11 DEF X
<1>16. CASE FirstBeyond(v, X, Itself, t)
  <2>1. v \in Y /\ v > b /\ \A x \in Y : x > b => v <= x
    BY <1>16, <1>3, <1>14, <1>15 DEF FirstBeyond
  <2> QED
    BY <2>1 DEF LeastOrNone, LeastAbove, v, Y
<1>17. CASE v = NoTime /\ NoneWithin(MaxSteps, X, Itself, Itself, t)
  <2>1. ASSUME NEW x \in X PROVE FALSE
    <3>1. x >= t + MaxSteps /\ x \in Nat
      BY <1>3, <1>11, <1>15, <1>17 DEF NoneWithin
    <3>2. x > rec.until
      BY <3>1, <1>11, InReach
    <3> QED
      BY <3>1, <3>2, <1>2, <1>7, <1>15
  <2>2. \A x \in Y : x <= b
    BY <2>1, <1>2, <1>14
  <2> QED
    BY <2>2, <1>17 DEF LeastOrNone, v, Y
<1> QED
  BY <1>13, <1>16, <1>17, Zenon DEF Found

LEMMA NextHour ==
    ASSUME NEW t \in Nat, NEW u \in Nat, t <= u + 1
    PROVE  DayOf(t) <= DayOf(u) + 1
<1> DEFINE p == DayOf(t)
           q == DayOf(u)
<1>1. /\ p \in Nat /\ q \in Nat /\ HourOf(t) \in 0..(DayHours - 1) /\ HourOf(u) \in 0..(DayHours - 1)
      /\ t = p * DayHours + HourOf(t) /\ u = q * DayHours + HourOf(u)
  BY HourIs
<1> HIDE DEF p, q
<1>2. DayHours * p \in Nat /\ DayHours * p = p * DayHours /\ DayHours * q \in Nat /\ DayHours * q = q * DayHours
  BY <1>1, Lengths, Times
<1>3. ASSUME q + 1 < p PROVE FALSE
  <2>1. q + 1 \in Nat
    BY <1>1
  <2>2. DayHours * (q + 1) + DayHours <= DayHours * p
    BY <1>1, <1>3, <2>1, Lengths, TimesOrdered
  <2>3. DayHours * (q + 1) = DayHours * q + DayHours
    BY <1>1, TimesNext, Lengths
  <2> QED
    BY <2>2, <2>3, <1>1, <1>2, Lengths
<1> QED
  BY <1>1, <1>3 DEF p, q

\* What the rule says from the reminder's own start is what the steps give.
LEMMA OccurrencesAre ==
    ASSUME NEW rec, NEW w0, Series(rec, w0)
    PROVE  Occurrences(rec, w0) = InSeries(rec, w0)
<1> DEFINE a == Convert(w0)
           d0 == DayOf(w0)
           h == HourOf(w0)
           last == DayOf(rec.until) + 1
           hourly == {t \in a + 1 .. rec.until : (t - a) % rec.interval = 0}
           daily == {Convert(d * DayHours + h) : d \in RuleDays(rec, d0, last)} \ {NoTime}
           raw == IF rec.freq = "HOURLY" THEN hourly ELSE daily
<1>1. /\ w0 \in Nat /\ a \in Nat /\ rec.until \in Nat /\ d0 \in Nat /\ h \in 0..(DayHours - 1) /\ last \in Nat
      /\ DayOf(rec.until) \in Nat
  BY HourIs DEF Series, WellFormed
<1>2. Occurrences(rec, w0) = {t \in raw : t <= rec.until /\ ~Skipped(t, rec.exdate)}
  BY DEF Occurrences, Skipped
<1>3. GivenBy(rec, w0) \subseteq Nat
  BY NextIs
<1>4. ASSUME NEW t \in Nat, t <= rec.until PROVE t \in raw <=> t \in GivenBy(rec, w0)
  <2>1. CASE rec.freq = "HOURLY"
    BY <2>1, <1>1, <1>4 DEF GivenBy
  <2>2. CASE rec.freq # "HOURLY"
    <3>1. RuleDays(rec, d0, last) = {d \in d0 + 1 .. last : OnRule(rec, d0, d)}
      BY DEF RuleDays, OnRule
    <3>2. GivenBy(rec, w0) = {Convert(w) : w \in TimesOfRule(rec, w0)} \ {NoTime}
      BY <2>2 DEF GivenBy
    <3>3. TimesOfRule(rec, w0) = {d * DayHours + h : d \in DaysOfRule(rec, d0)}
      BY DEF TimesOfRule
    <3> HIDE DEF d0, h, last
    <3>4. RuleDays(rec, d0, last) \subseteq DaysOfRule(rec, d0)
      BY <3>1, <1>1 DEF DaysOfRule
    <3>5. t \in daily => t \in GivenBy(rec, w0)
      BY <3>2, <3>3, <3>4
    <3>6. ASSUME t \in GivenBy(rec, w0) PROVE t \in daily
      <4>1. PICK d \in DaysOfRule(rec, d0) : t = Convert(d * DayHours + h) /\ t # NoTime
        BY <3>2, <3>3, <3>6
      <4> DEFINE w == d * DayHours + h
      <4>2. d \in Nat /\ d > d0 /\ OnRule(rec, d0, d) /\ w \in Nat /\ DayOf(w) = d
        BY <1>1, HoursOfDay DEF DaysOfRule
      <4>3. w <= t + 1
        BY <4>1, <4>2, ConvertIs
      <4>4. DayOf(w) <= DayOf(rec.until) + 1
        BY <4>2, <4>3, <1>1, <1>4, NextHour
      <4>5. d \in RuleDays(rec, d0, last)
        BY <3>1, <4>2, <4>4, <1>1 DEF last
      <4> QED
        BY <4>1, <4>5
    <3> QED
      BY <2>2, <3>5, <3>6
  <2> QED
    BY <2>1, <2>2
<1>5. \A t \in raw : t \in Nat
  <2>1. CASE rec.freq = "HOURLY"
    BY <2>1, <1>1
  <2>2. CASE rec.freq # "HOURLY"
    <3>1. \A d \in RuleDays(rec, d0, last) : d \in Nat
      BY <1>1 DEF RuleDays
    <3>2. \A d \in RuleDays(rec, d0, last) : Convert(d * DayHours + h) \in Nat \cup {NoTime}
      BY <3>1, <1>1, HoursOfDay, ConvertIs
    <3> QED
      BY <2>2, <3>2
  <2> QED
    BY <2>1, <2>2
<1> HIDE DEF raw
<1>6. \A t : (t \in raw /\ t <= rec.until) <=> (t \in GivenBy(rec, w0) /\ t <= rec.until)
  BY <1>3, <1>4, <1>5
<1> QED
  BY <1>2, <1>6 DEF InSeries

----
(* The reminder keeps to its series. *)

SeriesKept ==
    /\ task = [at |-> task.at, rec |-> task.rec]
    /\ Series(task.rec, asked)
    /\ \/ task.at = Convert(asked)
       \/ LeastOrNone(task.at, InSeries(task.rec, asked), since)

RecInv == /\ now \in Nat /\ asked \in Nat /\ since \in Nat
          /\ task = NoTask \/ SeriesKept

LEMMA RecInitInv == RecInit => RecInv
BY DEF RecInit, RecInv

LEMMA ScheduleStep ==
    ASSUME RecInv, NEW w \in Starts, NEW r \in Rules, Schedule(w, r)
    PROVE  RecInv'
<1> DEFINE maxDate == now + MaxTaskDays * DayHours
           until == UntilOf(r, maxDate)
           rec == [freq |-> r.freq, interval |-> r.interval, byday |-> r.byday, exdate |-> r.exdate,
                   until |-> until, anchorDay |-> DayInMonth(DayOf(w))]
<1>1. now \in Nat /\ w \in Nat /\ r.until \in Nat \cup {NoTime} /\ maxDate \in Nat /\ MaxTaskDays * DayHours \in Nat
  <2>1. now \in Nat /\ w \in Nat /\ r.until \in Nat \cup {NoTime}
    <3>1. Starts \subseteq Nat /\ \A x \in Rules : x.until \in Nat \cup {NoTime}
      BY RecurrenceConstants
    <3> QED
      BY <3>1 DEF RecInv
  <2>2. MaxTaskDays * DayHours \in Nat
    BY Lengths, Times
  <2> QED
    BY <2>1, <2>2
<1>2. /\ Convert(w) # NoTime /\ Convert(w) > now /\ until # NoTime /\ Parses(r)
      /\ r.until # NoTime => until > Convert(w) /\ until <= maxDate
      /\ task' = [at |-> Convert(w), rec |-> rec] /\ asked' = w /\ since' = now /\ now' = now
  BY DEF Schedule
<1>3. until \in Nat /\ until <= maxDate
  <2>1. CASE r.until = NoTime
    BY <2>1, <1>1 DEF UntilOf
  <2>2. CASE r.until # NoTime
    <3>1. r.until \in Nat /\ r.until * DayHours + (DayHours - 1) \in Nat
      <4>1. r.until \in Nat /\ DayHours - 1 \in 0..(DayHours - 1)
        BY <2>2, <1>1, Lengths
      <4> QED
        BY <4>1, HoursOfDay
    <3>2. r.until * DayHours + DayHours - 1 = r.until * DayHours + (DayHours - 1)
      BY <3>1, Lengths, Times
    <3>3. until = Convert(r.until * DayHours + (DayHours - 1))
      BY <2>2, <3>2 DEF UntilOf
    <3> QED
      BY <2>2, <3>1, <3>3, <1>2, ConvertIs
  <2> QED
    BY <2>1, <2>2
<1>4. Convert(w) \in Nat
  BY <1>1, <1>2, ConvertIs
<1> HIDE DEF until
<1>5. /\ rec.freq = r.freq /\ rec.interval = r.interval /\ rec.byday = r.byday
      /\ rec.until = until /\ rec.anchorDay = DayInMonth(DayOf(w))
  OBVIOUS
<1> HIDE DEF rec
<1>6. WellFormed(rec)
  BY <1>2, <1>3, <1>5, RecurrenceConstants DEF WellFormed, Parses
<1>7. until < Convert(w) + MaxTaskDays * DayHours
  BY <1>1, <1>2, <1>3, <1>4
<1> HIDE DEF maxDate
<1>8. Series(rec, w)
  BY <1>1, <1>4, <1>5, <1>6, <1>7 DEF Series
<1>9. task'.at = Convert(w) /\ task'.rec = rec
  BY <1>2
<1> QED
  BY <1>1, <1>2, <1>8, <1>9 DEF RecInv, SeriesKept

LEMMA DueStep ==
    ASSUME RecInv, NEW late \in Downtimes, Due(late)
    PROVE  RecInv'
<1> DEFINE rec == task.rec
           b == task.at + late
           v == AdvanceBeyond(task.at, rec, b)
<1>1. task.at # NoTime /\ now' = b /\ since' = b /\ asked' = asked /\ task' = [task EXCEPT !.at = v]
  BY DEF Due
<1>2. task # NoTask
  BY <1>1 DEF NoTask
<1>3. /\ task = [at |-> task.at, rec |-> rec] /\ Series(rec, asked) /\ asked \in Nat
      /\ task.at = Convert(asked) \/ LeastOrNone(task.at, InSeries(rec, asked), since)
  BY <1>2 DEF RecInv, SeriesKept
<1>4. task.at \in {Convert(asked)} \cup GivenBy(rec, asked)
  BY <1>1, <1>3 DEF LeastOrNone, LeastAbove, InSeries
<1>5. task.at \in Nat /\ late \in Nat
  BY <1>3, <1>4, NextIs, RecurrenceConstants
<1>6. b \in Nat /\ task.at <= b
  BY <1>5
<1>7. LeastOrNone(v, InSeries(rec, asked), b)
  BY <1>3, <1>4, <1>6, BeyondIs
<1> HIDE DEF v, b, rec
<1>8. task' = [at |-> v, rec |-> rec]
  BY <1>1, <1>3
<1>9. task'.at = v /\ task'.rec = rec
  BY <1>8
<1> QED
  BY <1>1, <1>3, <1>6, <1>7, <1>8, <1>9 DEF RecInv, SeriesKept

LEMMA RecStep == RecInv /\ [RecNext]_recVars => RecInv'
<1> SUFFICES ASSUME RecInv, [RecNext]_recVars PROVE RecInv'
  OBVIOUS
<1>1. CASE \E w \in Starts, r \in Rules : Schedule(w, r)
  BY <1>1, ScheduleStep
<1>2. CASE \E late \in Downtimes : Due(late)
  BY <1>2, DueStep
<1>3. CASE UNCHANGED recVars
  BY <1>3 DEF recVars, RecInv, SeriesKept
<1> QED
  BY <1>1, <1>2, <1>3 DEF RecNext

LEMMA LeastDue ==
    ASSUME NEW Y \in SUBSET Nat, NEW v, NEW s \in Nat, LeastOrNone(v, Y, s)
    PROVE  v = IF {t \in Y : t > s} = {} THEN NoTime ELSE Min({t \in Y : t > s})
<1>1. CASE LeastAbove(v, Y, s)
  <2> DEFINE due == {t \in Y : t > s}
  <2>1. v \in Y /\ v > s /\ \A x \in Y : x > s => v <= x
    BY <1>1 DEF LeastAbove
  <2>2. v \in due /\ \A y \in due : v <= y
    BY <2>1
  <2>3. due \in SUBSET Int
    <3>1. \A t \in due : t \in Nat
      OBVIOUS
    <3> HIDE DEF due
    <3> QED
      BY <3>1
  <2> HIDE DEF due
  <2>4. Min(due) = v /\ due # {}
    BY <2>2, <2>3, MinIs
  <2> QED
    BY <2>4 DEF due
<1>2. CASE v = NoTime /\ \A x \in Y : x <= s
  <2>1. ASSUME NEW t \in Y PROVE ~(t > s)
    BY <1>2
  <2>2. {t \in Y : t > s} = {}
    BY <2>1, Zenon
  <2> QED
    BY <1>2, <2>2
<1> QED
  BY <1>1, <1>2 DEF LeastOrNone

LEMMA RecInvHolds == RecInv => RecTypeOK /\ OnSchedule
<1> SUFFICES ASSUME RecInv PROVE RecTypeOK /\ OnSchedule
  OBVIOUS
<1>1. CASE task = NoTask
  BY <1>1 DEF RecInv, RecTypeOK, OnSchedule
<1>2. CASE task # NoTask
  <2> DEFINE Y == InSeries(task.rec, asked)
  <2>1. /\ now \in Nat /\ asked \in Nat /\ since \in Nat /\ Series(task.rec, asked)
        /\ task.at = Convert(asked) \/ LeastOrNone(task.at, Y, since)
    BY <1>2 DEF RecInv, SeriesKept
  <2>2. Occurrences(task.rec, asked) = Y
    BY <2>1, OccurrencesAre
  <2>3. Y \in SUBSET Nat /\ Convert(asked) \in Nat /\ task.rec.freq \in Frequencies
    BY <2>1, NextIs DEF InSeries, Series, WellFormed
  <2> HIDE DEF Y
  <2>4. task.at \in Nat \cup {NoTime}
    BY <2>1, <2>3 DEF LeastOrNone, LeastAbove
  <2>5. ASSUME task.at # Convert(asked)
        PROVE  LET due == {t \in Occurrences(task.rec, asked) : t > since}
               IN  task.at = IF due = {} THEN NoTime ELSE Min(due)
    <3>1. task.at = IF {t \in Y : t > since} = {} THEN NoTime ELSE Min({t \in Y : t > since})
      BY <2>1, <2>3, <2>5, LeastDue
    <3> QED
      BY <3>1, <2>2
  <2> QED
    BY <2>1, <2>3, <2>4, <2>5 DEF RecTypeOK, OnSchedule
<1> QED
  BY <1>1, <1>2

LEMMA RecInvariant == RecInit /\ [][RecNext]_recVars => []RecInv
BY RecInitInv, RecStep, PTL

(***************************************************************************)
(* The composition: every part takes its own component's steps or none.    *)
(***************************************************************************)
LEMMA NoticesMove ==
    [MCNext]_<<part, turnVars, callVars, serviceVars, quotaVars, ringVars, lifeVars, noticeVars,
               recVars, mcVars, prefVars>> => [NoticeNext]_noticeVars
<1> SUFFICES ASSUME MCNext PROVE [NoticeNext]_noticeVars
  OBVIOUS
<1>1. CASE part = "release"
  BY <1>1 DEF MCNext, NoticeNext
<1>2. CASE part = "wrap"
  BY <1>2 DEF MCNext, NoticeNext
<1>3. CASE part = "report"
  BY <1>3 DEF MCNext, NoticeNext
<1>4. CASE part = "alert"
  BY <1>4 DEF MCNext, NoticeNext
<1>5. CASE part \notin {"release", "wrap", "report", "alert"}
  BY <1>5 DEF MCNext
<1> QED
  BY <1>1, <1>2, <1>3, <1>4, <1>5

LEMMA ServicesMove ==
    [MCNext]_<<part, turnVars, callVars, serviceVars, quotaVars, ringVars, lifeVars, noticeVars,
               recVars, mcVars, prefVars>> =>
        /\ [TurnNext]_turnVars /\ [CallNext]_callVars /\ [ServiceNext]_serviceVars
        /\ [QuotaNext]_quotaVars /\ [RingNext]_ringVars /\ [LifeNext]_lifeVars
        /\ [NoticeNext]_noticeVars /\ [RecNext]_recVars /\ [MinecraftNext]_mcVars /\ [PrefNext]_prefVars
BY NoticesMove DEF MCNext, Moves, LifeNext

\* The run's property of the allowances, for every instance: no allowance is
\* given twice or lost, and no credential found spent is offered again.
THEOREM AllowancesStayKept == MCSpec => []AllowancesKept
<1>1. MCInit => QuotaInv
  BY QuotaStarts, QuotaConstants DEF MCInit
<1>2. MCInit => RingInit
  BY DEF MCInit
<1>3. QuotaInv /\ [QuotaNext]_quotaVars => QuotaInv'
  BY QuotaSteps, QuotaConstants
<1>4. RingInv => RingRemembers
  BY RingInvHolds
<1>5. QuotaInv => QuotaExact
  BY DEF QuotaInv
<1>6. RingRemembers /\ QuotaExact => AllowancesKept
  BY DEF AllowancesKept
<1> QED
  BY <1>1, <1>2, <1>3, <1>4, <1>5, <1>6, RingInvariant, ServicesMove, PTL DEF MCSpec

\* The run's property of the rounds and the Claude slots, for every instance.
THEOREM RoundsStayKept == MCSpec => []RoundsKept
<1>1. MCInit => TurnInit
  BY DEF MCInit
<1>2. RoundInv => RoundContract /\ SlotsHeld
  BY RoundsHold, SlotsHold DEF RoundInv, TurnInv
<1>3. RoundContract /\ SlotsHeld => RoundsKept
  BY DEF RoundsKept
<1> QED
  BY <1>1, <1>2, <1>3, RoundInvariant, ServicesMove, PTL DEF MCSpec

\* The run's property of the Minecraft server, for every instance in which no
\* start script outlives the agent's grace.
THEOREM MinecraftStaysKept == ASSUME ~SlowScripts PROVE MCSpec => []MinecraftKept
<1>1. MCInit => MinecraftInit
  BY DEF MCInit
<1>2. MinecraftInv /\ [MinecraftNext]_mcVars => MinecraftInv'
  BY MinecraftSteps
<1>3. MinecraftInv => MinecraftKept
  BY MinecraftHolds DEF MinecraftKept
<1> QED
  BY <1>1, <1>2, <1>3, MinecraftStarts, ServicesMove, PTL DEF MCSpec

\* The run's property of the calls, for every instance: a model call gives the
\* whole answer or none and replays no paid output, a media call stays within
\* its retries and blames the account it used.
THEOREM CallsStayHonest == MCSpec => CallIsHonest
<1>1. MCInit => CallInit /\ ServiceInit
  BY DEF MCInit
<1>2. CallInv => (part = "call" => AnswerIsWhole)
  BY DEF CallInv
<1> QED
  BY <1>1, <1>2, CallInvariant, ServiceInvariant, ServicesMove, PTL DEF MCSpec, CallIsHonest

\* The run's property of the notices, for every instance.
THEOREM NoticesStayKept == MCSpec => NoticesKept
<1>1. MCInit => NoticeInit /\ PrefInit
  BY DEF MCInit
<1>2. NoticeInv =>
         /\ part = "release" => RepeatsHaveACause /\ SubscriptionsKept
         /\ part \in {"wrap", "report"} => MonthlyDone
         /\ part = "alert" => AlertsSpaced
  BY NoticeHolds
<1>3. PrefInv => (part = "prefs" => PreferencesKept)
  BY PrefHolds
<1> QED
  BY <1>1, <1>2, <1>3, NoticeInvariant, PrefInvariant, ServicesMove, PTL DEF MCSpec, NoticesKept

\* The run's property of the schedule, for every instance: the occurrence that
\* the code finds is the first after now that the rule, read on the calendar
\* from the reminder's own start, gives, and a series ends when none is left.
THEOREM ScheduleStaysKept == MCSpec => []ScheduleKept
<1>1. MCInit => RecInit
  BY DEF MCInit
<1>2. RecInv => ScheduleKept
  BY RecInvHolds DEF ScheduleKept
<1> QED
  BY <1>1, <1>2, RecInvariant, ServicesMove, PTL DEF MCSpec

\* Every variable of every part keeps its type, for every instance.
THEOREM TypesStay == MCSpec => []TypeOK
<1>1. MCInit => /\ TurnInit /\ CallInit /\ ServiceInit /\ QuotaInv /\ RingInit /\ LifeInv
                /\ NoticeInit /\ RecInit /\ MinecraftInit /\ PrefInit
  BY QuotaStarts, QuotaConstants, LifeInitInv DEF MCInit
<1>2. QuotaInv /\ [QuotaNext]_quotaVars => QuotaInv'
  BY QuotaSteps, QuotaConstants
<1>3. LifeInv /\ [LifeNext]_lifeVars => LifeInv'
  BY LifeNextInv
<1>4. /\ RoundInv => TurnTypeOK
      /\ CallInv => CallTypeOK
      /\ ServiceInv => ServiceTypeOK
      /\ QuotaInv => QuotaTypeOK
      /\ RingInv => RingTypeOK
      /\ LifeInv => LifeTypeOK
      /\ NoticeInv => NoticeTypeOK
      /\ RecInv => RecTypeOK
      /\ PrefInv => PrefTypeOK
  BY LimitsTyped, CallHolds, ServiceHolds, RingInvHolds, NoticeHolds, RecInvHolds, PrefHolds
     DEF QuotaInv, LifeInv
<1>5. /\ TurnTypeOK /\ CallTypeOK /\ ServiceTypeOK /\ QuotaTypeOK /\ RingTypeOK /\ LifeTypeOK
      /\ NoticeTypeOK /\ RecTypeOK /\ MinecraftTypeOK /\ PrefTypeOK
      => TypeOK
  BY DEF TypeOK
<1> QED
  BY <1>1, <1>2, <1>3, <1>4, <1>5, RoundInvariant, CallInvariant, ServiceInvariant, RingInvariant, NoticeInvariant,
     RecInvariant, MinecraftTypes, PrefInvariant, ServicesMove, PTL DEF MCSpec
====
