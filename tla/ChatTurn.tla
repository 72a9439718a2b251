---- MODULE ChatTurn ----
(***************************************************************************)
(* One conversation of GemiX: messages arrive, a debounced batch opens     *)
(* under the response lock, fires as a turn, and the turn runs through the *)
(* privacy gate, the history load, the rounds of the agent loop and the    *)
(* delivery while more messages keep arriving.                             *)
(*                                                                         *)
(* Every Map involved (locks, _batches, _inboxes) is keyed by the same     *)
(* chat key, so one chat is independent of the others and the model has    *)
(* one of each.  Messages are numbered in order of arrival; a batch, its   *)
(* lease and its turn are named by the message that opened them, which is  *)
(* the oldest of the batch.                                                *)
(***************************************************************************)
EXTENDS ResponseLock, LiveInbox

CONSTANTS
    Speakers,     \* people who write in the chat
    Platforms,    \* kinds of chat to consider, a subset of AllPlatforms
    Debounce,     \* DEBOUNCE_MS
    MaxWait,      \* MAX_WAIT_MS
    MaxBatch,     \* MAX_BATCH_SIZE
    MayHang       \* phases in which a turn may outlive MAX_AUTO_RENEW_MS

\* "dm": a private chat of the dedicated WhatsApp account, the only kind with
\* the privacy notice.  "wa": a WhatsApp group or a personal-account chat.
AllPlatforms == {"discord", "dm", "wa"}

\* Phases of a turn between its start and its finally block.
Active == {"wipe", "notice", "load", "rounds", "deliver"}

ASSUME ChatConstants ==
    /\ Speakers # {}
    /\ Everyone \notin Speakers
    /\ Platforms \subseteq AllPlatforms
    /\ Debounce \in Nat \ {0}
    /\ MaxWait \in Nat \ {0}
    /\ MaxBatch \in Nat \ {0, 1}
    /\ MayHang \subseteq Active

VARIABLES
    platform,     \* the kind of this chat, fixed
    arrived,      \* number of messages so far
    from,         \* who wrote each message, Everyone before it arrives
    wipes,        \* messages that are the privacy wipe command and nothing else
    chat,         \* messages the platform still has for this chat
    wiped,        \* messages a wipe removed from it
    informed,     \* privacyConsent has the person of a "dm"
    terminating,  \* processLifecycle: shutdown has begun
    batch,        \* messages of the open batch
    opener,       \* entries[0] of the open batch, NoOne when none is open
    debounce,     \* time until the debounce timer is due
    maxWait,      \* time until the maximum-wait timer is due
    phase,        \* where the turn of each opener is
    prompt,       \* messages put into a turn's prompt: its batch and its notes
    history,      \* messages in the history a turn loaded
    busyNotices   \* "a turn is running, resend" notices sent during each turn

batchVars == <<batch, opener, debounce, maxWait>>
chatVars == <<platform, arrived, from, wipes, chat, wiped, informed, terminating>>
turnVars == <<phase, prompt, history, busyNotices>>
vars == <<lockVars, inbox, chatVars, batchVars, turnVars>>

Phases == Active \cup {"none", "skipped", "done"}
ActiveTurns == {t \in Msgs : phase[t] \in Active}

VarTypes ==
    /\ LockTypeOK
    /\ inbox \in [open : BOOLEAN, only : Speakers \cup {Everyone},
                  held : SUBSET Msgs, noticed : BOOLEAN]
    /\ platform \in Platforms
    /\ arrived \in 0 .. MaxMsgs
    /\ from \in [Msgs -> Speakers \cup {Everyone}]
    /\ wipes \subseteq Msgs
    /\ chat \subseteq Msgs
    /\ wiped \subseteq Msgs
    /\ informed \in BOOLEAN
    /\ terminating \in BOOLEAN
    /\ batch \subseteq Msgs
    /\ opener \in Msgs \cup {NoOne}
    /\ debounce \in -MaxLag .. Debounce
    /\ maxWait \in -MaxLag .. MaxWait
    /\ phase \in [Msgs -> Phases]
    /\ prompt \in [Msgs -> SUBSET Msgs]
    /\ history \in [Msgs -> SUBSET Msgs]
    /\ busyNotices \in [Msgs -> Nat]

\* The two collections that a busy chat fills: the inbox is never fuller than
\* its cap, and a batch that stays open is below the size at which it fires.
WithinCaps ==
    /\ Cardinality(inbox.held) <= MaxLive
    /\ Cardinality(batch) < MaxBatch

\* Every variable has its type and both collections stay within their caps,
\* however many messages arrive between two rounds or before a timer runs.
TypeOK == VarTypes /\ WithinCaps

Init ==
    /\ LockInit
    /\ inbox = NoInbox
    /\ platform \in Platforms
    /\ arrived = 0
    /\ from = [m \in Msgs |-> Everyone]
    /\ wipes = {}
    /\ chat = {}
    /\ wiped = {}
    /\ informed \in IF platform = "dm" THEN BOOLEAN ELSE {TRUE}
    /\ terminating = FALSE
    /\ batch = {}
    /\ opener = NoOne
    /\ debounce = 0
    /\ maxWait = 0
    /\ phase = [t \in Msgs |-> "none"]
    /\ prompt = [t \in Msgs |-> {}]
    /\ history = [t \in Msgs |-> {}]
    /\ busyNotices = [t \in Msgs |-> 0]

----------------------------------------------------------------------------
(* The batch fires: _fire, _wrapBatchHandler and the synchronous part of   *)
(* runTurnPipeline, up to its first await.                                 *)

\* filterBatchToTriggerSpeaker
Kept(msgs, o, sender) == {m \in msgs : sender[m] = sender[o]}

\* The turn keeps the lease of its batch, or takes a new one when that lease
\* expired before the batch fired.
KeepOrRetakeLease(o) ==
    IF Owned(o) THEN Refresh(o) /\ UNCHANGED <<renewing, renewIn, renewUntil>>
                ELSE Acquire(o)

\* What interceptTurn decides before its first await.
FirstPhase(kept, commands) ==
    IF platform # "discord" /\ \E w \in commands : kept = {w} THEN "wipe"
    ELSE IF platform = "dm" /\ ~informed THEN "notice"
    ELSE "load"

Fire(o, msgs, sender, commands) ==
    /\ batch' = {}
    /\ opener' = NoOne
    /\ debounce' = 0
    /\ maxWait' = 0
    /\ IF Locked /\ ~Owned(o)
       THEN /\ StopRenew(o)
            /\ phase' = [phase EXCEPT ![o] = "skipped"]
            /\ UNCHANGED <<owner, left, prompt, inbox>>
       ELSE LET kept == Kept(msgs, o, sender)
            IN  /\ KeepOrRetakeLease(o)
                /\ OpenLiveInbox(IF platform = "discord" THEN sender[o] ELSE Everyone)
                /\ phase' = [phase EXCEPT ![o] = FirstPhase(kept, commands)]
                /\ prompt' = [prompt EXCEPT ![o] = kept]
    /\ UNCHANGED <<history, busyNotices>>

FireBatch ==
    /\ opener # NoOne
    /\ debounce <= 0 \/ maxWait <= 0
    /\ Fire(opener, batch, from, wipes)
    /\ UNCHANGED chatVars

----------------------------------------------------------------------------
(* A message reaches the adapter and addresses GemiX: enqueueBatchedTurn.  *)

\* pushMessage into the open batch, which fires at once at the size cap.
JoinBatch(m, sender, commands) ==
    LET msgs == batch \cup {m}
    IN  /\ opener # NoOne
        /\ IF Cardinality(msgs) >= MaxBatch
           THEN Fire(opener, msgs, sender, commands)
           ELSE /\ batch' = msgs
                /\ debounce' = Debounce
                /\ UNCHANGED <<opener, maxWait, lockVars, inbox, turnVars>>

StartBatch(m) ==
    /\ opener = NoOne
    /\ Acquire(m)
    /\ batch' = {m}
    /\ opener' = m
    /\ debounce' = Debounce
    /\ maxWait' = MaxWait
    /\ UNCHANGED <<inbox, turnVars>>

\* GemiX is already responding: the message becomes a note for the running
\* turn.  The wipe command is never shown to the model; the first one of a
\* turn is answered with a notice.
HoldForRunningTurn(m, s, isWipe) ==
    /\ opener = NoOne
    /\ Locked
    /\ IF isWipe /\ platform # "discord"
       THEN /\ ClaimWipeNotice
            /\ busyNotices' = IF WipeNoticeFree
                              THEN [busyNotices EXCEPT ![owner] = @ + 1]
                              ELSE busyNotices
       ELSE RecordLiveMessage(m, s) /\ UNCHANGED busyNotices
    /\ UNCHANGED <<lockVars, batchVars, phase, prompt, history>>

\* The message s sends; isWipe when it is the wipe command.
Arrive(s, isWipe) ==
    LET m == arrived + 1
        sender == [from EXCEPT ![m] = s]
        commands == IF isWipe THEN wipes \cup {m} ELSE wipes
    IN  /\ m \in Msgs
        /\ arrived' = m
        /\ from' = sender
        /\ wipes' = commands
        /\ chat' = chat \cup {m}
        /\ UNCHANGED <<platform, wiped, informed, terminating>>
        /\ \/ /\ terminating
              /\ UNCHANGED <<lockVars, inbox, batchVars, turnVars>>
           \/ ~terminating /\ JoinBatch(m, sender, commands)
           \/ ~terminating /\ StartBatch(m)
           \/ ~terminating /\ HoldForRunningTurn(m, s, isWipe)

\* A private chat has one speaker; the command means nothing on Discord.
ArriveAny ==
    \E s \in Speakers, isWipe \in BOOLEAN :
        /\ platform = "dm" => \A m \in 1 .. arrived : from[m] = s
        /\ platform = "discord" => ~isWipe
        /\ Arrive(s, isWipe)

----------------------------------------------------------------------------
(* The turn after its first await; every step may be the last one.         *)

\* wipeWhatsAppUserData: the chat first, the consent registry last; each may
\* fail on its own and the turn answers either way.
Wipe(t) ==
    /\ phase[t] = "wipe"
    /\ \E cleared, forgotten \in BOOLEAN :
          /\ chat' = IF cleared THEN {} ELSE chat
          /\ wiped' = IF cleared THEN wiped \cup chat ELSE wiped
          /\ informed' = IF forgotten /\ platform = "dm" THEN FALSE ELSE informed
    /\ phase' = [phase EXCEPT ![t] = "deliver"]
    /\ UNCHANGED <<lockVars, inbox, batchVars, platform, arrived, from, wipes,
                   terminating, prompt, history, busyNotices>>

\* The notice went out and markInformed stored it.  When either fails the
\* turn just ends.
NoticeDelivered(t) ==
    /\ phase[t] = "notice"
    /\ informed' = TRUE
    /\ phase' = [phase EXCEPT ![t] = "deliver"]
    /\ UNCHANGED <<lockVars, inbox, batchVars, platform, arrived, from, wipes,
                   chat, wiped, terminating, prompt, history, busyNotices>>

\* fetchHistoryWithTimeout: the window of the chat without the batch's own
\* messages, or nothing when it took too long.
LoadHistory(t) ==
    /\ phase[t] = "load"
    /\ \E window \in {chat \ prompt[t], {}} :
          history' = [history EXCEPT ![t] = window]
    /\ phase' = [phase EXCEPT ![t] = "rounds"]
    /\ UNCHANGED <<lockVars, inbox, batchVars, chatVars, prompt, busyNotices>>

\* One round of the agent loop begins with the messages held so far.
Round(t) ==
    /\ phase[t] = "rounds"
    /\ prompt' = [prompt EXCEPT ![t] = @ \cup inbox.held]
    /\ DrainLiveMessages
    /\ UNCHANGED <<lockVars, batchVars, chatVars, phase, history, busyNotices>>

\* handleMessage returned a reply.
Answer(t) ==
    /\ phase[t] = "rounds"
    /\ phase' = [phase EXCEPT ![t] = "deliver"]
    /\ UNCHANGED <<lockVars, inbox, batchVars, chatVars, prompt, history, busyNotices>>

\* The finally block of runTurnPipeline, after the delivery or an exception.
EndTurn(t) ==
    /\ phase[t] \in Active
    /\ StopRenew(t)
    /\ Unlock(t)
    /\ ClearLiveMessages
    /\ phase' = [phase EXCEPT ![t] = "done"]
    /\ history' = [history EXCEPT ![t] = {}]
    /\ UNCHANGED <<batchVars, chatVars, prompt, busyNotices>>

TurnStep(t) ==
    \/ Wipe(t)
    \/ NoticeDelivered(t)
    \/ LoadHistory(t)
    \/ Round(t)
    \/ Answer(t)
    \/ EndTurn(t)

----------------------------------------------------------------------------
(* Timers and time.                                                        *)

LockTimer(m) ==
    /\ RenewTimer(m)
    /\ UNCHANGED <<inbox, chatVars, batchVars, turnVars>>

LockExpires ==
    /\ ExpiryTimer
    /\ UNCHANGED <<inbox, chatVars, batchVars, turnVars>>

\* A due timer runs at most MaxLag late.  A turn leaves a phase that cannot
\* hang before its renewal reaches the ceiling: the rounds end with
\* TURN_BUDGET_MS, but nothing bounds a delivery.
Tick ==
    /\ LockTimersInTime
    /\ opener # NoOne => debounce > -MaxLag /\ maxWait > -MaxLag
    /\ \A t \in ActiveTurns : phase[t] \notin MayHang => renewUntil[t] > 1
    /\ LockTick
    /\ debounce' = IF opener # NoOne THEN debounce - 1 ELSE 0
    /\ maxWait' = IF opener # NoOne THEN maxWait - 1 ELSE 0
    /\ UNCHANGED <<inbox, chatVars, batch, opener, turnVars>>

\* beginTermination: from now on no message starts or joins a turn.
Terminate ==
    /\ ~terminating
    /\ terminating' = TRUE
    /\ UNCHANGED <<lockVars, inbox, batchVars, turnVars, platform, arrived, from,
                   wipes, chat, wiped, informed>>

Next ==
    \/ ArriveAny
    \/ FireBatch
    \/ \E t \in Msgs : TurnStep(t)
    \/ \E m \in Msgs : LockTimer(m)
    \/ LockExpires
    \/ Tick
    \/ Terminate

\* Timers run and time passes: the event loop.  Nothing is assumed of the
\* turns, which wait for models, platforms and people.
TimersRun ==
    /\ WF_vars(Tick)
    /\ WF_vars(FireBatch)
    /\ WF_vars(LockExpires)
    /\ \A m \in Msgs : WF_vars(LockTimer(m))

Spec == Init /\ [][Next]_vars
FairSpec == Spec /\ TimersRun

----------------------------------------------------------------------------
(* Properties.                                                             *)

\* Batches and turns that hold, or should hold, the chat.
Claims == ActiveTurns \cup ({opener} \ {NoOne})

\* What the code's settings guarantee: a renewal runs before the lease it
\* renews expires, and a batch fires before its renewal reaches the ceiling.
RenewalsInTime ==
    /\ RenewEvery + MaxLag < TTL
    /\ MaxWait + MaxLag < MaxAutoRenew

\* As long as its renewal has not reached the ceiling, whoever works for the
\* chat (an open batch or a running turn) owns an unexpired lease: renewals
\* always come before the expiry.
LeaseInForce == \A m \in Claims : renewUntil[m] > 0 => Owned(m)

\* Turns of a chat never overlap, nor a batch with a turn, if none hangs.
OneAtATime == Cardinality(Claims) <= 1

\* A live lease belongs to the open batch or, without one, to a turn that is
\* still at work: no chat is left locked by a turn that ended, and the branch
\* of _wrapBatchHandler that skips a batch because another turn holds the
\* chat never runs.
NoStrayLease == Locked => owner \in Claims /\ opener \in {NoOne, owner}

\* An unexpired lease is given up by the end of its own turn, or by the tick
\* of its expiry; never by another turn that ends late.
ReleasedByOwner ==
    [][\A m \in Msgs : Owned(m) /\ ~Owned(m)' =>
          \/ phase'[m] = "done"
          \/ left = 1 /\ left' = 0]_vars

\* No message is put into a prompt twice: not in two turns, not twice in the
\* same turn, and not both in a batch and as a note.
PromptOnce ==
    /\ \A t, u \in Msgs : t # u => prompt[t] \cap prompt[u] = {}
    /\ \A t \in Msgs : prompt[t] \cap (inbox.held \cup batch) = {}
    /\ inbox.held \cap batch = {}

\* Nothing survives into the next turn's inbox: without a running turn there
\* is no inbox.
InboxNeedsTurn == inbox.open => ActiveTurns # {}

\* A Discord thread is a room: a turn there is shown only what its own
\* speaker wrote, in its batch and mid-turn.
OwnSpeakerOnly ==
    platform = "discord" =>
        \A t \in Msgs : \A m \in prompt[t] : from[m] = from[t]

\* Nothing a wipe removed is in the context of a turn at work afterwards: a
\* wipe never runs beside a turn that has read the chat.
WipedIsForgotten ==
    \A t \in Msgs : phase[t] = "rounds" => (history[t] \cup prompt[t]) \cap wiped = {}

\* A person who repeats the wipe command during a turn is told once.
OneBusyNotice == \A t \in Msgs : busyNotices[t] <= 1

\* With turns that end in time, a chat is the one slot of ChatSlot.
Slot == INSTANCE ChatSlot WITH
    Openers <- Msgs,
    stage <- IF opener # NoOne THEN "collecting"
             ELSE IF ActiveTurns # {} THEN "answering" ELSE "free",
    working <- Claims,
    served <- {t \in Msgs : phase[t] # "none"} \cup ({opener} \ {NoOne})
ChatIsOneSlot == Slot!Spec

\* The comment of openLiveInbox's call (turnPipeline.js:122-124): what lands
\* in the inbox "is genuinely new", so a note never repeats the history.
NotesAreNew ==
    \A t \in Msgs : phase[t] = "rounds" => history[t] \cap prompt[t] = {}

\* However long a turn hangs, its chat answers again: a lease does not stay
\* in force forever.
ChatAnswersAgain == \A m \in Msgs : Owned(m) ~> ~Owned(m)
====
