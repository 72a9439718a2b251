---- MODULE ChatTurnProofs ----
(***************************************************************************)
(* Proofs about ChatTurn: for every number of messages and speakers, every *)
(* setting of the timers, and every cap on batches and notes.              *)
(***************************************************************************)
EXTENDS ChatTurn, FiniteSetTheorems, TLAPS

\* The types of the variables a firing batch changes.
LEMMA FireTypes ==
    ASSUME VarTypes,
           NEW o \in Msgs,
           NEW msgs \in SUBSET Msgs,
           NEW sender \in [Msgs -> Speakers \cup {Everyone}],
           NEW commands,
           Fire(o, msgs, sender, commands)
    PROVE  /\ LockTypeOK'
           /\ inbox' \in [open : BOOLEAN, only : Speakers \cup {Everyone},
                          held : SUBSET Msgs, noticed : BOOLEAN]
           /\ batch' \subseteq Msgs
           /\ opener' \in Msgs \cup {NoOne}
           /\ debounce' \in -MaxLag .. Debounce
           /\ maxWait' \in -MaxLag .. MaxWait
           /\ phase' \in [Msgs -> Phases]
           /\ prompt' \in [Msgs -> SUBSET Msgs]
           /\ history' \in [Msgs -> SUBSET Msgs]
           /\ busyNotices' \in [Msgs -> Nat]
<1> USE LockConstants, ChatConstants
<1>1. /\ batch' \subseteq Msgs
      /\ opener' \in Msgs \cup {NoOne}
      /\ debounce' \in -MaxLag .. Debounce
      /\ maxWait' \in -MaxLag .. MaxWait
      /\ history' \in [Msgs -> SUBSET Msgs]
      /\ busyNotices' \in [Msgs -> Nat]
  BY DEF Fire, VarTypes
<1>2. CASE Locked /\ ~Owned(o)
  <2>1. /\ phase' = [phase EXCEPT ![o] = "skipped"]
        /\ StopRenew(o)
        /\ UNCHANGED <<owner, left, prompt, inbox>>
    BY <1>2 DEF Fire
  <2>2. LockTypeOK'
    BY <2>1 DEF StopRenew, LockTypeOK, VarTypes
  <2> QED  BY <1>1, <2>1, <2>2 DEF VarTypes, Phases
<1>3. CASE ~(Locked /\ ~Owned(o))
  <2> DEFINE kept == Kept(msgs, o, sender)
  <2>1. /\ KeepOrRetakeLease(o)
        /\ OpenLiveInbox(IF platform = "discord" THEN sender[o] ELSE Everyone)
        /\ phase' = [phase EXCEPT ![o] = FirstPhase(kept, commands)]
        /\ prompt' = [prompt EXCEPT ![o] = kept]
    BY <1>3 DEF Fire
  <2>2. LockTypeOK'
    <3>1. CASE Owned(o)
      BY <2>1, <3>1 DEF KeepOrRetakeLease, Refresh, LockTypeOK, VarTypes
    <3>2. CASE ~Owned(o)
      BY <2>1, <3>2 DEF KeepOrRetakeLease, Acquire, LockTypeOK, VarTypes
    <3> QED  BY <3>1, <3>2
  <2>3. inbox' \in [open : BOOLEAN, only : Speakers \cup {Everyone},
                    held : SUBSET Msgs, noticed : BOOLEAN]
    BY <2>1 DEF OpenLiveInbox, NewInbox, NoInbox
  <2>4. FirstPhase(kept, commands) \in Phases
    BY DEF FirstPhase, Phases, Active
  <2>5. phase' \in [Msgs -> Phases]
    BY <2>1, <2>4 DEF VarTypes
  <2>6. kept \in SUBSET Msgs
    BY DEF Kept
  <2>7. prompt' \in [Msgs -> SUBSET Msgs]
    BY <2>1, <2>6 DEF VarTypes
  <2> QED  BY <1>1, <2>2, <2>3, <2>5, <2>7
<1> QED  BY <1>2, <1>3

----------------------------------------------------------------------------
LEMMA InitTypes == Init => VarTypes
<1> SUFFICES ASSUME Init PROVE VarTypes
  OBVIOUS
<1> USE LockConstants, ChatConstants
<1>1. LockTypeOK
  BY DEF Init, LockInit, LockTypeOK
<1>2. inbox \in [open : BOOLEAN, only : Speakers \cup {Everyone},
                held : SUBSET Msgs, noticed : BOOLEAN]
  BY DEF Init, NoInbox
<1>3. platform \in Platforms /\ informed \in BOOLEAN /\ terminating \in BOOLEAN
  BY DEF Init
<1>4. /\ phase \in [Msgs -> Phases]
      /\ from \in [Msgs -> Speakers \cup {Everyone}]
      /\ prompt \in [Msgs -> SUBSET Msgs]
      /\ history \in [Msgs -> SUBSET Msgs]
      /\ busyNotices \in [Msgs -> Nat]
  BY DEF Init, Phases
<1>5. /\ debounce \in -MaxLag .. Debounce
      /\ maxWait \in -MaxLag .. MaxWait
      /\ arrived \in 0 .. MaxMsgs
  BY DEF Init
<1>6. /\ wipes \subseteq Msgs
      /\ chat \subseteq Msgs
      /\ wiped \subseteq Msgs
      /\ batch \subseteq Msgs
      /\ opener \in Msgs \cup {NoOne}
  BY DEF Init
<1> QED  BY <1>1, <1>2, <1>3, <1>4, <1>5, <1>6 DEF VarTypes

LEMMA NextTypes == VarTypes /\ [Next]_vars => VarTypes'
<1> SUFFICES ASSUME VarTypes, [Next]_vars PROVE VarTypes'
  OBVIOUS
<1> USE LockConstants, InboxConstants, ChatConstants
<1>1. CASE ArriveAny
  <2>1. PICK s \in Speakers, isWipe \in BOOLEAN : Arrive(s, isWipe)
    BY <1>1 DEF ArriveAny
  <2> DEFINE m == arrived + 1
             sender == [from EXCEPT ![m] = s]
             commands == IF isWipe THEN wipes \cup {m} ELSE wipes
  <2>2. /\ m \in Msgs
        /\ arrived' = m
        /\ from' = sender
        /\ wipes' = commands
        /\ chat' = chat \cup {m}
        /\ UNCHANGED <<platform, wiped, informed, terminating>>
    BY <2>1 DEF Arrive
  <2>3. /\ arrived' \in 0 .. MaxMsgs
        /\ sender \in [Msgs -> Speakers \cup {Everyone}]
        /\ wipes' \subseteq Msgs
        /\ chat' \subseteq Msgs
        /\ wiped' \subseteq Msgs
        /\ platform' \in Platforms
        /\ informed' \in BOOLEAN
        /\ terminating' \in BOOLEAN
    BY <2>2 DEF VarTypes, Msgs
  <2> HIDE DEF m, sender, commands
  <2>4. CASE UNCHANGED <<lockVars, inbox, batchVars, turnVars>>
    BY <2>2, <2>3, <2>4 DEF VarTypes, LockTypeOK, lockVars, batchVars, turnVars
  <2>5. CASE JoinBatch(m, sender, commands)
    <3> DEFINE msgs == batch \cup {m}
    <3>1. opener \in Msgs /\ msgs \in SUBSET Msgs
      BY <2>2, <2>5 DEF JoinBatch, VarTypes
    <3>2. CASE Cardinality(msgs) >= MaxBatch
      <4>1. Fire(opener, msgs, sender, commands)
        BY <2>5, <3>2 DEF JoinBatch
      <4> QED  BY <2>2, <2>3, <3>1, <4>1, FireTypes DEF VarTypes
    <3>3. CASE ~(Cardinality(msgs) >= MaxBatch)
      <4>1. /\ batch' = msgs
            /\ debounce' = Debounce
            /\ UNCHANGED <<opener, maxWait, lockVars, inbox, turnVars>>
        BY <2>5, <3>3 DEF JoinBatch
      <4> QED  BY <2>2, <2>3, <3>1, <4>1 DEF VarTypes, LockTypeOK, lockVars, turnVars
    <3> QED  BY <3>2, <3>3
  <2>6. CASE StartBatch(m)
    <3>1. LockTypeOK'
      BY <2>2, <2>6 DEF StartBatch, Acquire, VarTypes, LockTypeOK
    <3> QED  BY <2>2, <2>3, <2>6, <3>1 DEF StartBatch, VarTypes, turnVars
  <2>7. CASE HoldForRunningTurn(m, s, isWipe)
    <3>1. owner \in Msgs
      BY <2>7 DEF HoldForRunningTurn, Locked, VarTypes, LockTypeOK
    <3>2. Opened \in [open : BOOLEAN, only : Speakers \cup {Everyone},
                      held : SUBSET Msgs, noticed : BOOLEAN]
      BY DEF VarTypes, Opened, NewInbox, NoInbox
    <3>3. inbox' \in [open : BOOLEAN, only : Speakers \cup {Everyone},
                      held : SUBSET Msgs, noticed : BOOLEAN]
      <4>1. CASE ClaimWipeNotice
        BY <3>2, <4>1 DEF ClaimWipeNotice
      <4>2. CASE RecordLiveMessage(m, s)
        <5>1. [Opened EXCEPT !.held = @ \cup {m}]
                \in [open : BOOLEAN, only : Speakers \cup {Everyone},
                    held : SUBSET Msgs, noticed : BOOLEAN]
          BY <2>2, <3>2
        <5> QED  BY <3>2, <4>2, <5>1 DEF RecordLiveMessage
      <4> QED  BY <2>7, <4>1, <4>2 DEF HoldForRunningTurn
    <3>4. busyNotices' \in [Msgs -> Nat]
      BY <2>7, <3>1 DEF HoldForRunningTurn, VarTypes
    <3> QED
      BY <2>2, <2>3, <2>7, <3>3, <3>4
         DEF HoldForRunningTurn, VarTypes, LockTypeOK, lockVars, batchVars
  <2> QED
    BY <2>1, <2>4, <2>5, <2>6, <2>7 DEF Arrive, m, sender, commands
<1>2. CASE FireBatch
  <2>1. opener \in Msgs /\ Fire(opener, batch, from, wipes) /\ UNCHANGED chatVars
    BY <1>2 DEF FireBatch, VarTypes
  <2> QED  BY <2>1, FireTypes DEF VarTypes, chatVars
<1>3. ASSUME NEW t \in Msgs, TurnStep(t) PROVE VarTypes'
  <2>1. CASE Wipe(t)
    BY <2>1 DEF Wipe, VarTypes, LockTypeOK, lockVars, batchVars, Phases, Active
  <2>2. CASE NoticeDelivered(t)
    BY <2>2 DEF NoticeDelivered, VarTypes, LockTypeOK, lockVars, batchVars, Phases, Active
  <2>3. CASE LoadHistory(t)
    <3>1. history' \in [Msgs -> SUBSET Msgs]
      BY <2>3 DEF LoadHistory, VarTypes
    <3> QED  BY <2>3, <3>1
      DEF LoadHistory, VarTypes, LockTypeOK, lockVars, chatVars, batchVars, Phases, Active
  <2>4. CASE Round(t)
    BY <2>4 DEF Round, DrainLiveMessages, VarTypes, LockTypeOK, lockVars, chatVars, batchVars
  <2>5. CASE Answer(t)
    BY <2>5 DEF Answer, VarTypes, LockTypeOK, lockVars, chatVars, batchVars, Phases, Active
  <2>6. CASE EndTurn(t)
    <3>1. LockTypeOK'
      BY <2>6 DEF EndTurn, StopRenew, Unlock, VarTypes, LockTypeOK
    <3>2. inbox' \in [open : BOOLEAN, only : Speakers \cup {Everyone},
                      held : SUBSET Msgs, noticed : BOOLEAN]
      BY <2>6 DEF EndTurn, ClearLiveMessages, NoInbox
    <3> QED  BY <2>6, <3>1, <3>2 DEF EndTurn, VarTypes, chatVars, batchVars, Phases
  <2> QED  BY <1>3, <2>1, <2>2, <2>3, <2>4, <2>5, <2>6 DEF TurnStep
<1>4. ASSUME NEW m \in Msgs, LockTimer(m) PROVE VarTypes'
  <2>1. LockTypeOK'
    BY <1>4 DEF LockTimer, RenewTimer, StopRenew, Refresh, VarTypes, LockTypeOK
  <2> QED  BY <1>4, <2>1 DEF LockTimer, VarTypes, chatVars, batchVars, turnVars
<1>5. CASE LockExpires
  BY <1>5 DEF LockExpires, ExpiryTimer, VarTypes, LockTypeOK, chatVars, batchVars, turnVars
<1>6. CASE Tick
  <2>1. LockTypeOK'
    BY <1>6 DEF Tick, LockTick, LockTimersInTime, Down, VarTypes, LockTypeOK
  <2>2. debounce' \in -MaxLag .. Debounce /\ maxWait' \in -MaxLag .. MaxWait
    BY <1>6 DEF Tick, VarTypes
  <2> QED  BY <1>6, <2>1, <2>2 DEF Tick, VarTypes, chatVars, turnVars
<1>7. CASE Terminate
  BY <1>7 DEF Terminate, VarTypes, LockTypeOK, lockVars, batchVars, turnVars
<1>8. CASE UNCHANGED vars
  BY <1>8 DEF vars, VarTypes, LockTypeOK, lockVars, chatVars, batchVars, turnVars
<1> QED  BY <1>1, <1>2, <1>3, <1>4, <1>5, <1>6, <1>7, <1>8 DEF Next

LEMMA InitCaps == Init => WithinCaps
BY FS_EmptySet, InboxConstants, ChatConstants DEF Init, NoInbox, WithinCaps

\* Sets of messages are finite, and one more message counts at most one.
LEMMA OneMore ==
    ASSUME NEW S \in SUBSET Msgs, NEW m \in Msgs
    PROVE  /\ Cardinality(S) \in Nat
           /\ Cardinality(S \cup {m}) \in Nat
           /\ Cardinality(S \cup {m}) <= Cardinality(S) + 1
<1>1. IsFiniteSet(Msgs)
  BY FS_Interval, LockConstants DEF Msgs
<1>2. IsFiniteSet(S)
  BY <1>1, FS_Subset
<1>3. Cardinality(S) \in Nat
  BY <1>2, FS_CardinalityType
<1>4. Cardinality(S \cup {m}) = IF m \in S THEN Cardinality(S) ELSE Cardinality(S) + 1
  BY <1>2, FS_AddElement
<1> QED  BY <1>3, <1>4

\* A message held for the running turn never overfills the inbox.
LEMMA RecordKeepsCap ==
    ASSUME VarTypes, WithinCaps, NEW m \in Msgs, NEW s, RecordLiveMessage(m, s)
    PROVE  Cardinality(inbox'.held) <= MaxLive
<1>1. Opened.held \in SUBSET Msgs /\ Cardinality(Opened.held) <= MaxLive
  BY FS_EmptySet, InboxConstants
     DEF Opened, NewInbox, NoInbox, VarTypes, WithinCaps
<1>2. CASE inbox' = Opened
  BY <1>1, <1>2
<1>3. CASE /\ ~(Cardinality(Opened.held) >= MaxLive)
           /\ inbox' = [Opened EXCEPT !.held = @ \cup {m}]
  <2>1. inbox'.held = Opened.held \cup {m}
    BY <1>3 DEF Opened, NewInbox, NoInbox, VarTypes
  <2> QED  BY <1>1, <1>3, <2>1, OneMore, InboxConstants
<1> QED  BY <1>2, <1>3 DEF RecordLiveMessage

\* A batch that fires leaves no batch and at most a new, empty inbox.
LEMMA FireKeepsCaps ==
    ASSUME WithinCaps, NEW o, NEW msgs, NEW sender, NEW commands,
           Fire(o, msgs, sender, commands)
    PROVE  WithinCaps'
<1>1. inbox' = inbox \/ inbox'.held = {}
  BY DEF Fire, OpenLiveInbox, NewInbox, NoInbox
<1>2. batch' = {}
  BY DEF Fire
<1> QED  BY <1>1, <1>2, FS_EmptySet, InboxConstants, ChatConstants DEF WithinCaps

LEMMA NextCaps == VarTypes /\ WithinCaps /\ [Next]_vars => WithinCaps'
<1> SUFFICES ASSUME VarTypes, WithinCaps, [Next]_vars PROVE WithinCaps'
  OBVIOUS
<1>1. CASE ArriveAny
  <2>1. PICK s \in Speakers, isWipe \in BOOLEAN : Arrive(s, isWipe)
    BY <1>1 DEF ArriveAny
  <2> DEFINE m == arrived + 1
             sender == [from EXCEPT ![m] = s]
             commands == IF isWipe THEN wipes \cup {m} ELSE wipes
  <2>2. m \in Msgs
    BY <2>1 DEF Arrive
  <2> HIDE DEF m, sender, commands
  <2>3. CASE UNCHANGED <<lockVars, inbox, batchVars, turnVars>>
    BY <2>3 DEF WithinCaps, batchVars
  <2>4. CASE JoinBatch(m, sender, commands)
    <3> DEFINE msgs == batch \cup {m}
    <3>1. CASE Cardinality(msgs) >= MaxBatch
      <4>1. Fire(opener, msgs, sender, commands)
        BY <2>4, <3>1 DEF JoinBatch
      <4> QED  BY <4>1, FireKeepsCaps
    <3>2. CASE ~(Cardinality(msgs) >= MaxBatch)
      <4>1. batch' = msgs /\ UNCHANGED inbox
        BY <2>4, <3>2 DEF JoinBatch
      <4>2. Cardinality(msgs) \in Nat
        BY <2>2, OneMore DEF VarTypes
      <4>3. MaxBatch \in Nat
        BY ChatConstants
      <4>4. Cardinality(batch') < MaxBatch
        BY <3>2, <4>1, <4>2, <4>3
      <4> QED  BY <4>1, <4>4 DEF WithinCaps
    <3> QED  BY <3>1, <3>2
  <2>5. CASE StartBatch(m)
    <3>1. batch' = {m} /\ UNCHANGED inbox
      BY <2>5 DEF StartBatch
    <3>2. Cardinality(batch') = 1
      BY <3>1, FS_Singleton
    <3> QED  BY <3>1, <3>2, ChatConstants DEF WithinCaps
  <2>6. CASE HoldForRunningTurn(m, s, isWipe)
    <3>1. UNCHANGED batch
      BY <2>6 DEF HoldForRunningTurn, batchVars
    <3>2. CASE ClaimWipeNotice
      <4>1. inbox'.held = Opened.held
        BY <3>2 DEF ClaimWipeNotice, Opened, NewInbox, NoInbox, VarTypes
      <4>2. Opened.held = inbox.held \/ Opened.held = {}
        BY DEF Opened, NewInbox, NoInbox
      <4> QED  BY <3>1, <4>1, <4>2, FS_EmptySet, InboxConstants DEF WithinCaps
    <3>3. CASE RecordLiveMessage(m, s)
      BY <2>2, <3>1, <3>3, RecordKeepsCap DEF WithinCaps
    <3> QED  BY <2>6, <3>2, <3>3 DEF HoldForRunningTurn
  <2> QED
    BY <2>1, <2>3, <2>4, <2>5, <2>6 DEF Arrive, m, sender, commands
<1>2. CASE FireBatch
  BY <1>2, FireKeepsCaps DEF FireBatch
<1>3. ASSUME NEW t \in Msgs, TurnStep(t) PROVE WithinCaps'
  <2>1. UNCHANGED batch
    BY <1>3 DEF TurnStep, Wipe, NoticeDelivered, LoadHistory, Round, Answer, EndTurn,
                batchVars
  <2>2. CASE Round(t)
    <3>1. inbox'.held = {}
      BY <2>2 DEF Round, DrainLiveMessages, VarTypes
    <3> QED  BY <2>1, <3>1, FS_EmptySet, InboxConstants DEF WithinCaps
  <2>3. CASE EndTurn(t)
    <3>1. inbox'.held = {}
      BY <2>3 DEF EndTurn, ClearLiveMessages, NoInbox
    <3> QED  BY <2>1, <3>1, FS_EmptySet, InboxConstants DEF WithinCaps
  <2>4. CASE ~Round(t) /\ ~EndTurn(t)
    <3>1. UNCHANGED inbox
      BY <1>3, <2>4 DEF TurnStep, Wipe, NoticeDelivered, LoadHistory, Answer
    <3> QED  BY <2>1, <3>1 DEF WithinCaps
  <2> QED  BY <2>2, <2>3, <2>4
<1>4. ASSUME NEW m \in Msgs, LockTimer(m) PROVE WithinCaps'
  BY <1>4 DEF LockTimer, WithinCaps, batchVars
<1>5. CASE LockExpires
  BY <1>5 DEF LockExpires, WithinCaps, batchVars
<1>6. CASE Tick
  BY <1>6 DEF Tick, WithinCaps
<1>7. CASE Terminate
  BY <1>7 DEF Terminate, WithinCaps, batchVars
<1>8. CASE UNCHANGED vars
  BY <1>8 DEF vars, WithinCaps, batchVars
<1> QED  BY <1>1, <1>2, <1>3, <1>4, <1>5, <1>6, <1>7, <1>8 DEF Next

\* Every variable keeps its type, and the inbox and the open batch stay within
\* their caps, whatever the constants.
THEOREM TypeCorrect == Spec => []TypeOK
<1>1. Init => TypeOK
  BY InitTypes, InitCaps DEF TypeOK
<1>2. TypeOK /\ [Next]_vars => TypeOK'
  BY NextTypes, NextCaps DEF TypeOK
<1> QED  BY <1>1, <1>2, PTL DEF Spec

----------------------------------------------------------------------------
(* Leases, inboxes and prompts, whatever the timers do.                    *)

\* Messages are named only once they have arrived, and a turn only once its
\* batch has fired.
Names ==
    /\ opener <= arrived
    /\ opener # NoOne => phase[opener] = "none"
    /\ opener = NoOne => batch = {}
    /\ \A m \in batch \cup inbox.held : m <= arrived
    /\ \A t \in Msgs : phase[t] # "none" => t <= arrived
    /\ \A t \in Msgs : \A m \in prompt[t] : m <= arrived
    /\ \A t \in Msgs : phase[t] = "none" => prompt[t] = {}

\* The inductive invariant behind the three properties of this part.
ChatInv == VarTypes /\ Names /\ NoStrayLease /\ InboxNeedsTurn /\ PromptOnce

\* A batch that fires always becomes a turn, with its lease in force and an
\* empty inbox of its own.
LEMMA FireStartsTurn ==
    ASSUME VarTypes, Names, NoStrayLease,
           opener \in Msgs,
           NEW msgs \in SUBSET Msgs, NEW sender, NEW commands,
           Fire(opener, msgs, sender, commands)
    PROVE  /\ batch' = {}
           /\ opener' = NoOne
           /\ owner' = opener
           /\ left' = TTL
           /\ left' > 0
           /\ phase' \in [Msgs -> Phases]
           /\ phase'[opener] \in Active
           /\ \A t \in Msgs : t # opener => phase'[t] = phase[t]
           /\ prompt' = [prompt EXCEPT ![opener] = Kept(msgs, opener, sender)]
           /\ inbox'.open /\ inbox'.held = {}
           /\ Owned(opener) => UNCHANGED <<renewing, renewIn, renewUntil>>
<1> USE LockConstants
<1>1. Owned(opener) \/ ~Locked
  BY DEF NoStrayLease, Owned, Locked, NoOne, Msgs
<1> DEFINE kept == Kept(msgs, opener, sender)
<1>2. /\ batch' = {}
      /\ opener' = NoOne
      /\ KeepOrRetakeLease(opener)
      /\ OpenLiveInbox(IF platform = "discord" THEN sender[opener] ELSE Everyone)
      /\ phase' = [phase EXCEPT ![opener] = FirstPhase(kept, commands)]
      /\ prompt' = [prompt EXCEPT ![opener] = kept]
  BY <1>1 DEF Fire
<1>3. owner' = opener /\ left' = TTL
  BY <1>2 DEF KeepOrRetakeLease, Refresh, Acquire, Owned
<1>4. FirstPhase(kept, commands) \in Active
  BY DEF FirstPhase, Active
<1>5. /\ phase' \in [Msgs -> Phases]
      /\ phase'[opener] \in Active
      /\ \A t \in Msgs : t # opener => phase'[t] = phase[t]
  BY <1>2, <1>4 DEF VarTypes, Phases
<1>6. inbox'.open /\ inbox'.held = {}
  BY <1>2 DEF OpenLiveInbox, NewInbox, NoInbox
<1>7. Owned(opener) => UNCHANGED <<renewing, renewIn, renewUntil>>
  BY <1>2 DEF KeepOrRetakeLease
<1> QED  BY <1>2, <1>3, <1>5, <1>6, <1>7

\* The invariant after a batch with the messages msgs has fired.
LEMMA FirePreserves ==
    ASSUME ChatInv, VarTypes', arrived <= arrived',
           opener \in Msgs,
           NEW msgs \in SUBSET Msgs, NEW sender, NEW commands,
           Fire(opener, msgs, sender, commands),
           \A m \in msgs : m \in batch \/ (arrived < m /\ m <= arrived')
    PROVE  ChatInv'
<1> USE DEF ChatInv
<1> DEFINE kept == Kept(msgs, opener, sender)
<1>1. /\ batch' = {}
      /\ opener' = NoOne
      /\ owner' = opener
      /\ phase' \in [Msgs -> Phases]
      /\ phase'[opener] \in Active
      /\ \A t \in Msgs : t # opener => phase'[t] = phase[t]
      /\ prompt' = [prompt EXCEPT ![opener] = kept]
      /\ inbox'.open /\ inbox'.held = {}
  BY FireStartsTurn
<1>2. kept \subseteq msgs
  BY DEF Kept
<1>3. opener \in ActiveTurns' /\ opener \in Claims'
  BY <1>1 DEF ActiveTurns, Claims
<1>4. \A m \in kept : m <= arrived'
  <2>0. arrived \in Nat /\ arrived' \in Nat
    BY LockConstants DEF VarTypes
  <2> HIDE DEF kept
  <2>1. kept \subseteq Nat
    <3>1. Msgs \subseteq Nat
      BY LockConstants DEF Msgs
    <3>2. kept \subseteq Msgs
      BY <1>2
    <3> QED  BY <3>1, <3>2
  <2>2. \A m \in batch : m <= arrived
    BY DEF Names
  <2> QED  BY <1>2, <2>0, <2>1, <2>2
<1>5. prompt[opener] = {}
  BY DEF Names, NoOne, Msgs
<1>6. \A t \in Msgs : prompt[t] \cap kept = {}
  <2> SUFFICES ASSUME NEW t \in Msgs, NEW m \in prompt[t], m \in kept PROVE FALSE
    OBVIOUS
  <2>1. m \in batch \/ (arrived < m /\ m <= arrived')
    BY <1>2
  <2>2. m <= arrived /\ m \notin batch
    BY DEF Names, PromptOnce
  <2> QED  BY <2>1, <2>2, LockConstants DEF VarTypes, Msgs
<1>7. Names'
  <2>1. \A t \in Msgs : \A m \in prompt'[t] : m <= arrived'
    BY <1>1, <1>4 DEF Names, VarTypes, Msgs
  <2>2. \A t \in Msgs : phase'[t] # "none" => t <= arrived'
    BY <1>1 DEF Names, VarTypes, Msgs
  <2>3. \A t \in Msgs : phase'[t] = "none" => prompt'[t] = {}
    BY <1>1 DEF Names, VarTypes, Active
  <2>4. 0 <= arrived'
    BY DEF VarTypes
  <2> QED  BY <1>1, <2>1, <2>2, <2>3, <2>4 DEF Names, NoOne
<1>8. NoStrayLease'
  BY <1>1, <1>3 DEF NoStrayLease
<1>9. InboxNeedsTurn'
  BY <1>3 DEF InboxNeedsTurn
<1>10. PromptOnce'
  BY <1>1, <1>6 DEF PromptOnce, VarTypes
<1> QED  BY <1>7, <1>8, <1>9, <1>10

LEMMA InitChatInv == Init => ChatInv
<1> SUFFICES ASSUME Init PROVE ChatInv
  OBVIOUS
<1>1. VarTypes
  BY InitTypes
<1>2. Names
  BY DEF Init, Names, NoInbox, NoOne, Msgs
<1>3. NoStrayLease /\ InboxNeedsTurn /\ PromptOnce
  BY DEF Init, LockInit, NoInbox, Locked, NoStrayLease, InboxNeedsTurn, PromptOnce
<1> QED  BY <1>1, <1>2, <1>3 DEF ChatInv

\* Steps that leave batches and prompts alone and at most move a turn from
\* one of its phases to another preserve the invariant.
LEMMA QuietPreserves ==
    ASSUME ChatInv, VarTypes',
           UNCHANGED <<opener, batch, arrived, prompt, inbox>>,
           \A t \in Msgs : phase'[t] = phase[t] \/ {phase[t], phase'[t]} \subseteq Active,
           owner' = owner,
           left' > 0 => left > 0
    PROVE  ChatInv'
<1> USE DEF ChatInv
<1>1. ActiveTurns' = ActiveTurns /\ Claims' = Claims
  BY DEF ActiveTurns, Claims
<1>2. \A t \in Msgs : (phase'[t] = "none") = (phase[t] = "none")
  BY DEF Active
<1>3. Names'
  BY <1>2 DEF Names, VarTypes, NoOne
<1>4. NoStrayLease'
  BY <1>1 DEF NoStrayLease, Locked
<1>5. InboxNeedsTurn' /\ PromptOnce'
  BY <1>1 DEF InboxNeedsTurn, PromptOnce
<1> QED  BY <1>3, <1>4, <1>5

LEMMA NextChatInv == ChatInv /\ [Next]_vars => ChatInv'
<1> SUFFICES ASSUME ChatInv, [Next]_vars PROVE ChatInv'
  OBVIOUS
<1> USE LockConstants DEF ChatInv
<1>0. VarTypes'
  BY NextTypes
<1>1. CASE ArriveAny
  <2>1. PICK s \in Speakers, isWipe \in BOOLEAN : Arrive(s, isWipe)
    BY <1>1 DEF ArriveAny
  <2> DEFINE m == arrived + 1
             sender == [from EXCEPT ![m] = s]
             commands == IF isWipe THEN wipes \cup {m} ELSE wipes
  <2>2. m \in Msgs /\ arrived' = m /\ arrived \in Nat
    BY <2>1 DEF Arrive, VarTypes
  <2> HIDE DEF sender, commands
  <2>3. CASE UNCHANGED <<lockVars, inbox, batchVars, turnVars>>
    <3>1. UNCHANGED <<owner, left, inbox, opener, batch, phase, prompt>>
      BY <2>3 DEF lockVars, batchVars, turnVars
    <3>2. Names'
      BY <2>2, <3>1 DEF Names, VarTypes, Msgs, NoOne
    <3>3. NoStrayLease' /\ InboxNeedsTurn' /\ PromptOnce'
      BY <3>1 DEF NoStrayLease, Locked, InboxNeedsTurn, PromptOnce, Claims, ActiveTurns
    <3> QED  BY <1>0, <3>2, <3>3
  <2>4. CASE JoinBatch(m, sender, commands)
    <3> DEFINE msgs == batch \cup {m}
    <3>1. opener \in Msgs /\ msgs \in SUBSET Msgs
      BY <2>2, <2>4 DEF JoinBatch, VarTypes
    <3>2. CASE Cardinality(msgs) >= MaxBatch
      <4>1. Fire(opener, msgs, sender, commands)
        BY <2>4, <3>2 DEF JoinBatch
      <4>2. \A x \in msgs : x \in batch \/ (arrived < x /\ x <= arrived')
        BY <2>2
      <4>3. arrived <= arrived'
        BY <2>2
      <4> HIDE DEF msgs, ChatInv
      <4> QED  BY <1>0, <3>1, <4>1, <4>2, <4>3, FirePreserves
    <3>3. CASE ~(Cardinality(msgs) >= MaxBatch)
      <4>1. batch' = msgs /\ UNCHANGED <<opener, lockVars, inbox, turnVars>>
        BY <2>4, <3>3 DEF JoinBatch
      <4>2. Names'
        BY <2>2, <3>1, <4>1 DEF Names, VarTypes, turnVars, Msgs, NoOne
      <4>3. NoStrayLease' /\ InboxNeedsTurn'
        BY <4>1 DEF NoStrayLease, Locked, InboxNeedsTurn, Claims, ActiveTurns,
                    lockVars, turnVars
      <4>4. PromptOnce'
        BY <2>2, <4>1 DEF PromptOnce, Names, VarTypes, turnVars, Msgs
      <4> QED  BY <1>0, <4>2, <4>3, <4>4
    <3> QED  BY <3>2, <3>3
  <2>5. CASE StartBatch(m)
    <3>1. /\ opener = NoOne /\ opener' = m /\ owner' = m
          /\ batch' = {m}
          /\ UNCHANGED <<inbox, phase, prompt>>
      BY <2>5 DEF StartBatch, Acquire, turnVars
    <3>2. Names'
      BY <2>2, <3>1 DEF Names, VarTypes, Msgs, NoOne
    <3>3. NoStrayLease' /\ InboxNeedsTurn'
      BY <2>2, <3>1 DEF NoStrayLease, InboxNeedsTurn, Claims, ActiveTurns, NoOne, Msgs
    <3>4. PromptOnce'
      BY <2>2, <3>1 DEF PromptOnce, Names, VarTypes, Msgs
    <3> QED  BY <1>0, <3>2, <3>3, <3>4
  <2>6. CASE HoldForRunningTurn(m, s, isWipe)
    <3>1. /\ opener = NoOne /\ Locked
          /\ UNCHANGED <<owner, left, opener, batch, phase, prompt>>
      BY <2>6 DEF HoldForRunningTurn, lockVars, batchVars
    <3>2. inbox'.held \subseteq inbox.held \cup {m}
      <4>1. Opened.held \subseteq inbox.held
        BY DEF Opened, NewInbox, NoInbox, VarTypes
      <4>2. [Opened EXCEPT !.noticed = TRUE].held = Opened.held
        BY DEF Opened, NewInbox, NoInbox, VarTypes
      <4>3. [Opened EXCEPT !.held = @ \cup {m}].held = Opened.held \cup {m}
        BY DEF Opened, NewInbox, NoInbox, VarTypes
      <4> QED  BY <2>6, <4>1, <4>2, <4>3
               DEF HoldForRunningTurn, ClaimWipeNotice, RecordLiveMessage
    <3>3. ActiveTurns # {}
      BY <3>1 DEF NoStrayLease, Claims, NoOne
    <3>4. Names'
      <4>1. \A x \in batch' \cup inbox'.held : x <= arrived'
        BY <2>2, <3>1, <3>2 DEF Names, VarTypes, Msgs
      <4>2. /\ opener' <= arrived'
            /\ \A t \in Msgs : phase[t] # "none" => t <= arrived'
            /\ \A t \in Msgs : \A x \in prompt[t] : x <= arrived'
        BY <2>2, <3>1 DEF Names, VarTypes, Msgs, NoOne
      <4> QED  BY <3>1, <4>1, <4>2 DEF Names
    <3>5. NoStrayLease' /\ InboxNeedsTurn'
      BY <3>1, <3>3 DEF NoStrayLease, Locked, InboxNeedsTurn, Claims, ActiveTurns
    <3>6. PromptOnce'
      BY <2>2, <3>1, <3>2 DEF PromptOnce, Names, VarTypes, Msgs
    <3> QED  BY <1>0, <3>4, <3>5, <3>6
  <2> QED  BY <2>1, <2>3, <2>4, <2>5, <2>6 DEF Arrive, sender, commands
<1>2. CASE FireBatch
  <2>1. /\ opener \in Msgs
        /\ batch \in SUBSET Msgs
        /\ Fire(opener, batch, from, wipes)
        /\ arrived' = arrived /\ arrived \in Nat
    BY <1>2 DEF FireBatch, VarTypes, chatVars
  <2>2. arrived <= arrived'
    BY <2>1
  <2> HIDE DEF ChatInv
  <2> QED  BY <1>0, <2>1, <2>2, FirePreserves
<1>3. ASSUME NEW t \in Msgs, TurnStep(t) PROVE ChatInv'
  <2>1. CASE Wipe(t) \/ NoticeDelivered(t) \/ LoadHistory(t) \/ Answer(t)
    <3>1. UNCHANGED <<opener, batch, arrived, prompt, inbox, owner, left>>
      BY <2>1 DEF Wipe, NoticeDelivered, LoadHistory, Answer, lockVars, batchVars, chatVars
    <3>2. phase[t] \in Active /\ \E p \in Active : phase' = [phase EXCEPT ![t] = p]
      BY <2>1 DEF Wipe, NoticeDelivered, LoadHistory, Answer, Active
    <3>3. \A u \in Msgs : phase'[u] = phase[u] \/ {phase[u], phase'[u]} \subseteq Active
      BY <3>2 DEF VarTypes
    <3> QED  BY <1>0, <3>1, <3>3, QuietPreserves
  <2>2. CASE Round(t)
    <3>1. /\ prompt' = [prompt EXCEPT ![t] = @ \cup inbox.held]
          /\ inbox' = [inbox EXCEPT !.held = {}]
          /\ phase[t] = "rounds"
          /\ UNCHANGED <<owner, left, opener, batch, arrived, phase>>
      BY <2>2 DEF Round, DrainLiveMessages, lockVars, batchVars, chatVars
    <3>2. inbox'.held = {} /\ inbox'.open = inbox.open
      BY <3>1 DEF VarTypes
    <3>3. Names'
      BY <3>1, <3>2 DEF Names, VarTypes, Msgs
    <3>4. NoStrayLease' /\ InboxNeedsTurn'
      BY <3>1, <3>2 DEF NoStrayLease, Locked, InboxNeedsTurn, Claims, ActiveTurns
    <3>5. PromptOnce'
      BY <3>1, <3>2 DEF PromptOnce, VarTypes
    <3> QED  BY <1>0, <3>3, <3>4, <3>5
  <2>3. CASE EndTurn(t)
    <3>1. /\ phase[t] \in Active
          /\ phase' = [phase EXCEPT ![t] = "done"]
          /\ Unlock(t)
          /\ inbox' = NoInbox
          /\ UNCHANGED <<opener, batch, arrived, prompt>>
      BY <2>3 DEF EndTurn, ClearLiveMessages, batchVars, chatVars
    <3>2. Names'
      BY <3>1 DEF Names, VarTypes, Msgs, NoOne, NoInbox, Active
    <3>3. NoStrayLease'
      <4>1. Locked' => owner' = owner /\ owner # t /\ Locked
        BY <3>1 DEF Unlock, Owned, Locked, NoOne
      <4>2. owner # t /\ owner \in Claims => owner \in Claims'
        BY <3>1 DEF Claims, ActiveTurns, VarTypes
      <4> QED  BY <3>1, <4>1, <4>2 DEF NoStrayLease
    <3>4. InboxNeedsTurn' /\ PromptOnce'
      BY <3>1 DEF InboxNeedsTurn, PromptOnce, NoInbox
    <3> QED  BY <1>0, <3>2, <3>3, <3>4
  <2> QED  BY <1>3, <2>1, <2>2, <2>3 DEF TurnStep
<1>4. ASSUME NEW m \in Msgs, LockTimer(m) PROVE ChatInv'
  <2>1. /\ UNCHANGED <<inbox, opener, batch, arrived, phase, prompt>>
        /\ owner' = owner
        /\ left' > 0 => left > 0
    BY <1>4 DEF LockTimer, RenewTimer, StopRenew, Refresh, Owned, batchVars, chatVars, turnVars
  <2> QED  BY <1>0, <2>1, QuietPreserves
<1>5. CASE LockExpires
  <2>1. /\ UNCHANGED <<inbox, opener, batch, arrived, phase, prompt>>
        /\ left = 0 /\ left' = left
    BY <1>5 DEF LockExpires, ExpiryTimer, batchVars, chatVars, turnVars
  <2>2. ~Locked'
    BY <2>1 DEF Locked
  <2>3. Names' /\ InboxNeedsTurn' /\ PromptOnce'
    BY <2>1 DEF Names, InboxNeedsTurn, PromptOnce, ActiveTurns, NoOne
  <2> QED  BY <1>0, <2>2, <2>3 DEF NoStrayLease
<1>6. CASE Tick
  <2>1. /\ UNCHANGED <<inbox, opener, batch, arrived, phase, prompt, owner>>
        /\ left' = Down(left)
    BY <1>6 DEF Tick, LockTick, chatVars, turnVars
  <2>2. left' > 0 => left > 0
    BY <2>1 DEF Down, VarTypes, LockTypeOK
  <2> QED  BY <1>0, <2>1, <2>2, QuietPreserves
<1>7. CASE Terminate
  <2>1. UNCHANGED <<inbox, opener, batch, arrived, phase, prompt, owner, left>>
    BY <1>7 DEF Terminate, lockVars, batchVars, turnVars
  <2> QED  BY <1>0, <2>1, QuietPreserves
<1>8. CASE UNCHANGED vars
  <2>1. UNCHANGED <<inbox, opener, batch, arrived, phase, prompt, owner, left>>
    BY <1>8 DEF vars, lockVars, batchVars, chatVars, turnVars
  <2> QED  BY <1>0, <2>1, QuietPreserves
<1> QED  BY <1>1, <1>2, <1>3, <1>4, <1>5, <1>6, <1>7, <1>8 DEF Next

LEMMA ChatInvariant == Spec => []ChatInv
<1> QED  BY InitChatInv, NextChatInv, PTL DEF Spec

\* No chat is left locked by a turn that ended, and a batch that fires finds
\* the chat its own, even when timers run arbitrarily late.
THEOREM LeaseNeverStray == Spec => []NoStrayLease
<1>1. ChatInv => NoStrayLease
  BY DEF ChatInv
<1> QED  BY <1>1, ChatInvariant, PTL

\* Without a running turn there is no inbox.
THEOREM InboxOfATurn == Spec => []InboxNeedsTurn
<1>1. ChatInv => InboxNeedsTurn
  BY DEF ChatInv
<1> QED  BY <1>1, ChatInvariant, PTL

\* No message is put into a prompt twice, even by turns that overlap.
THEOREM NoMessageTwice == Spec => []PromptOnce
<1>1. ChatInv => PromptOnce
  BY DEF ChatInv
<1> QED  BY <1>1, ChatInvariant, PTL

----------------------------------------------------------------------------
(* Leases when renewals come in time.                                      *)

\* What a renewal leaves: the lease outlives the next renewal, and an open
\* batch is far from the ceiling of its own.
LeaseInv ==
    /\ \A m \in Claims : renewUntil[m] > 0 =>
          /\ owner = m
          /\ m \in renewing
          /\ left >= TTL - RenewEvery + renewIn[m]
    /\ opener # NoOne => renewUntil[opener] >= MaxAutoRenew - MaxWait + maxWait

\* No running turn has reached the ceiling of its renewal.
InTime == \A t \in ActiveTurns : renewUntil[t] > 0

LEMMA LeaseFacts ==
    ASSUME RenewalsInTime, VarTypes, LeaseInv
    PROVE  /\ \A m \in Claims : renewUntil[m] > 0 => Owned(m)
           /\ opener # NoOne => opener \in Claims /\ renewUntil[opener] > 0 /\ Owned(opener)
<1> USE LockConstants, ChatConstants
<1>1. ASSUME NEW m \in Claims, renewUntil[m] > 0 PROVE Owned(m)
  <2>1. m \in Msgs
    BY DEF Claims, ActiveTurns, VarTypes
  <2>2. renewIn[m] \in -MaxLag .. RenewEvery /\ left \in 0 .. TTL
    BY <2>1 DEF VarTypes, LockTypeOK
  <2>3. owner = m /\ left >= TTL - RenewEvery + renewIn[m]
    BY <1>1 DEF LeaseInv
  <2> QED  BY <2>2, <2>3 DEF Owned, RenewalsInTime
<1>2. ASSUME opener # NoOne PROVE opener \in Claims /\ renewUntil[opener] > 0
  <2>1. opener \in Msgs /\ maxWait \in -MaxLag .. MaxWait
    BY <1>2 DEF VarTypes
  <2>2. renewUntil[opener] \in 0 .. MaxAutoRenew
    BY <2>1 DEF VarTypes, LockTypeOK
  <2>3. renewUntil[opener] >= MaxAutoRenew - MaxWait + maxWait
    BY <1>2 DEF LeaseInv
  <2> QED  BY <1>2, <2>1, <2>2, <2>3 DEF RenewalsInTime, Claims
<1> QED  BY <1>1, <1>2

\* A step that leaves the lock alone and starts no claim preserves LeaseInv.
LEMMA LeaseUntouched ==
    ASSUME LeaseInv, UNCHANGED lockVars,
           Claims' \subseteq Claims, ActiveTurns' \subseteq ActiveTurns,
           UNCHANGED <<opener, maxWait>>
    PROVE  LeaseInv' /\ (InTime => InTime')
BY DEF LeaseInv, InTime, lockVars

LEMMA FireKeepsLease ==
    ASSUME RenewalsInTime, ChatInv, LeaseInv, opener \in Msgs,
           NEW msgs \in SUBSET Msgs, NEW sender, NEW commands,
           Fire(opener, msgs, sender, commands)
    PROVE  LeaseInv' /\ (InTime => InTime')
<1> USE LockConstants DEF ChatInv
<1>1. opener # NoOne
  BY DEF NoOne, Msgs
<1>2. renewUntil[opener] > 0 /\ Owned(opener) /\ opener \in renewing
  BY <1>1, LeaseFacts DEF LeaseInv
<1>3. /\ opener' = NoOne /\ owner' = opener /\ left' = TTL
      /\ \A t \in Msgs : t # opener => phase'[t] = phase[t]
      /\ UNCHANGED <<renewing, renewIn, renewUntil>>
  BY <1>2, FireStartsTurn
<1>4. renewIn[opener] \in -MaxLag .. RenewEvery
  BY DEF VarTypes, LockTypeOK
<1>5. Claims' \subseteq Claims /\ ActiveTurns' \subseteq ActiveTurns \cup {opener}
  BY <1>1, <1>3 DEF Claims, ActiveTurns
<1>6. \A m \in Claims' : renewUntil'[m] > 0 => m = opener
  BY <1>2, <1>3, <1>5, LeaseFacts DEF Owned
<1>7. LeaseInv'
  BY <1>2, <1>3, <1>4, <1>6 DEF LeaseInv
<1> QED  BY <1>2, <1>3, <1>5, <1>7 DEF InTime

LEMMA NextLeaseInv ==
    ASSUME RenewalsInTime, ChatInv, VarTypes', LeaseInv, [Next]_vars
    PROVE  LeaseInv' /\ (MayHang = {} /\ InTime => InTime')
<1> USE LockConstants, ChatConstants DEF ChatInv
<1>0. /\ \A m \in Claims : renewUntil[m] > 0 => Owned(m)
      /\ opener # NoOne => opener \in Claims /\ renewUntil[opener] > 0 /\ Owned(opener)
  BY LeaseFacts
<1>1. CASE ArriveAny
  <2>1. PICK s \in Speakers, isWipe \in BOOLEAN : Arrive(s, isWipe)
    BY <1>1 DEF ArriveAny
  <2> DEFINE m == arrived + 1
             sender == [from EXCEPT ![m] = s]
             commands == IF isWipe THEN wipes \cup {m} ELSE wipes
  <2>2. m \in Msgs /\ arrived \in Nat
    BY <2>1 DEF Arrive, VarTypes
  <2> HIDE DEF sender, commands
  <2>3. CASE UNCHANGED <<lockVars, inbox, batchVars, turnVars>>
    BY <2>3, LeaseUntouched DEF batchVars, turnVars, Claims, ActiveTurns
  <2>4. CASE JoinBatch(m, sender, commands)
    <3> DEFINE msgs == batch \cup {m}
    <3>1. opener \in Msgs /\ msgs \in SUBSET Msgs
      BY <2>2, <2>4 DEF JoinBatch, VarTypes
    <3>2. CASE Cardinality(msgs) >= MaxBatch
      <4>1. Fire(opener, msgs, sender, commands)
        BY <2>4, <3>2 DEF JoinBatch
      <4> HIDE DEF msgs, ChatInv
      <4> QED  BY <3>1, <4>1, FireKeepsLease
    <3>3. CASE ~(Cardinality(msgs) >= MaxBatch)
      BY <2>4, <3>3, LeaseUntouched DEF JoinBatch, turnVars, Claims, ActiveTurns
    <3> QED  BY <3>2, <3>3
  <2>5. CASE StartBatch(m)
    <3>1. /\ opener' = m /\ maxWait' = MaxWait /\ opener = NoOne
          /\ ~Locked /\ owner' = m /\ left' = TTL
          /\ renewing' = renewing \cup {m}
          /\ renewIn' = [renewIn EXCEPT ![m] = RenewEvery]
          /\ renewUntil' = [renewUntil EXCEPT ![m] = MaxAutoRenew]
          /\ phase' = phase
      BY <2>5 DEF StartBatch, Acquire, turnVars
    <3>2. \A c \in Claims : c \in Msgs /\ c # m
      BY <2>2, <3>1 DEF Claims, ActiveTurns, Names, Active, VarTypes, Msgs
    <3>3. Claims' = Claims \cup {m} /\ ActiveTurns' = ActiveTurns
      BY <2>2, <3>1 DEF Claims, ActiveTurns, NoOne, Msgs
    <3>4. \A c \in Claims : ~(renewUntil[c] > 0)
      BY <1>0, <3>1 DEF Owned, Locked, NoOne, Claims, ActiveTurns, Msgs
    <3>5. /\ renewUntil'[m] = MaxAutoRenew /\ renewIn'[m] = RenewEvery
          /\ \A c \in Claims : renewUntil'[c] = renewUntil[c]
      BY <2>2, <3>1, <3>2 DEF VarTypes, LockTypeOK
    <3> HIDE DEF m
    <3>6. LeaseInv'
      BY <3>1, <3>3, <3>4, <3>5 DEF LeaseInv
    <3>7. InTime => InTime'
      BY <3>3, <3>5 DEF InTime, Claims
    <3> QED  BY <3>6, <3>7
  <2>6. CASE HoldForRunningTurn(m, s, isWipe)
    BY <2>6, LeaseUntouched DEF HoldForRunningTurn, batchVars, Claims, ActiveTurns
  <2> QED  BY <2>1, <2>3, <2>4, <2>5, <2>6 DEF Arrive, sender, commands
<1>2. CASE FireBatch
  <2>1. opener \in Msgs /\ batch \in SUBSET Msgs /\ Fire(opener, batch, from, wipes)
    BY <1>2 DEF FireBatch, VarTypes
  <2> HIDE DEF ChatInv
  <2> QED  BY <2>1, FireKeepsLease
<1>3. ASSUME NEW t \in Msgs, TurnStep(t)
      PROVE  LeaseInv' /\ (MayHang = {} /\ InTime => InTime')
  <2>1. CASE Wipe(t) \/ NoticeDelivered(t) \/ LoadHistory(t) \/ Round(t) \/ Answer(t)
    <3>1. UNCHANGED <<lockVars, batchVars>>
      BY <2>1 DEF Wipe, NoticeDelivered, LoadHistory, Round, Answer
    <3>2. phase[t] \in Active /\ \E p \in Active : phase' = [phase EXCEPT ![t] = p] \/ phase' = phase
      BY <2>1 DEF Wipe, NoticeDelivered, LoadHistory, Round, Answer, Active
    <3>3. ActiveTurns' = ActiveTurns
      BY <3>2 DEF ActiveTurns, VarTypes
    <3> QED  BY <3>1, <3>3, LeaseUntouched DEF Claims, batchVars
  <2>2. CASE EndTurn(t)
    <3>1. /\ phase[t] \in Active /\ phase' = [phase EXCEPT ![t] = "done"]
          /\ renewing' = renewing \ {t}
          /\ renewIn' = [renewIn EXCEPT ![t] = 0]
          /\ renewUntil' = [renewUntil EXCEPT ![t] = 0]
          /\ Unlock(t)
          /\ UNCHANGED <<opener, maxWait>>
      BY <2>2 DEF EndTurn, StopRenew, batchVars
    <3>2. opener # t
      BY <3>1 DEF Names, Active, NoOne, Msgs
    <3>3. Claims' = Claims \ {t} /\ ActiveTurns' = ActiveTurns \ {t}
      BY <3>1, <3>2 DEF Claims, ActiveTurns, VarTypes, Active
    <3>4. \A c \in Claims' : c \in Msgs /\ c # t /\ c \in Claims
      BY <3>3 DEF Claims, ActiveTurns, VarTypes
    <3>5. \A c \in Claims' : renewUntil'[c] = renewUntil[c] /\ renewIn'[c] = renewIn[c]
      BY <3>1, <3>4 DEF VarTypes, LockTypeOK
    <3>6. \A c \in Claims' : renewUntil[c] > 0 => UNCHANGED <<owner, left>>
      BY <1>0, <3>1, <3>4 DEF Unlock, Owned
    <3>7. LeaseInv'
      <4>1. opener' # NoOne => opener' \in Claims' /\ opener' = opener /\ maxWait' = maxWait
        BY <3>1 DEF Claims
      <4> QED  BY <3>1, <3>4, <3>5, <3>6, <4>1 DEF LeaseInv
    <3>8. InTime => InTime'
      BY <3>3, <3>4, <3>5 DEF InTime, Claims
    <3> QED  BY <3>7, <3>8
  <2> QED  BY <1>3, <2>1, <2>2 DEF TurnStep
<1>4. ASSUME NEW m \in Msgs, LockTimer(m)
      PROVE  LeaseInv' /\ (MayHang = {} /\ InTime => InTime')
  <2>1. RenewTimer(m) /\ UNCHANGED <<opener, maxWait, phase>>
    BY <1>4 DEF LockTimer, batchVars, turnVars
  <2>2. Claims' = Claims /\ ActiveTurns' = ActiveTurns /\ Claims \subseteq Msgs
    BY <2>1 DEF Claims, ActiveTurns, VarTypes
  <2>3. CASE renewUntil[m] = 0 \/ ~Owned(m)
    <3>1. /\ renewing' = renewing \ {m}
          /\ renewIn' = [renewIn EXCEPT ![m] = 0]
          /\ renewUntil' = [renewUntil EXCEPT ![m] = 0]
          /\ UNCHANGED <<owner, left>>
      BY <2>1, <2>3 DEF RenewTimer, StopRenew
    <3>2. \A c \in Claims : renewUntil[c] > 0 => c # m
      BY <1>0, <2>3
    <3>3. \A c \in Claims : c # m => renewUntil'[c] = renewUntil[c] /\ renewIn'[c] = renewIn[c]
      BY <2>2, <3>1 DEF VarTypes, LockTypeOK
    <3>4. m \in Claims => renewUntil'[m] = 0
      BY <3>1 DEF VarTypes, LockTypeOK
    <3>5. LeaseInv'
      <4>1. opener # NoOne => opener # m
        BY <1>0, <3>2
      <4> QED  BY <1>0, <2>1, <2>2, <3>1, <3>2, <3>3, <3>4, <4>1 DEF LeaseInv
    <3>6. InTime => InTime'
      BY <2>2, <3>2, <3>3 DEF InTime, Claims
    <3> QED  BY <3>5, <3>6
  <2>4. CASE ~(renewUntil[m] = 0 \/ ~Owned(m))
    <3>1. /\ owner' = owner /\ left' = TTL /\ owner = m
          /\ renewIn' = [renewIn EXCEPT ![m] = RenewEvery]
          /\ UNCHANGED <<renewing, renewUntil>>
      BY <2>1, <2>4 DEF RenewTimer, Refresh, Owned
    <3>2. renewIn'[m] = RenewEvery
      BY <3>1 DEF VarTypes, LockTypeOK
    <3>3. \A c \in Claims : renewUntil[c] > 0 => c = m
      BY <1>0, <3>1 DEF Owned
    <3>4. LeaseInv'
      BY <2>1, <2>2, <3>1, <3>2, <3>3 DEF LeaseInv
    <3>5. InTime => InTime'
      BY <2>2, <3>1 DEF InTime
    <3> QED  BY <3>4, <3>5
  <2> QED  BY <2>3, <2>4
<1>5. CASE LockExpires
  <2>1. /\ left = 0
        /\ UNCHANGED <<renewing, renewIn, renewUntil, opener, maxWait, phase>>
    BY <1>5 DEF LockExpires, ExpiryTimer, batchVars, turnVars
  <2>2. Claims' = Claims /\ ActiveTurns' = ActiveTurns
    BY <2>1 DEF Claims, ActiveTurns
  <2>3. \A c \in Claims : ~(renewUntil[c] > 0)
    BY <1>0, <2>1 DEF Owned
  <2> QED  BY <2>1, <2>2, <2>3 DEF LeaseInv, InTime
<1>6. CASE Tick
  <2>1. /\ UNCHANGED <<owner, renewing, opener, phase>>
        /\ left' = Down(left)
        /\ renewIn' = [c \in Msgs |-> IF c \in renewing THEN renewIn[c] - 1 ELSE 0]
        /\ renewUntil' = [c \in Msgs |-> Down(renewUntil[c])]
        /\ opener # NoOne => maxWait' = maxWait - 1
        /\ MayHang = {} => \A t \in ActiveTurns : renewUntil[t] > 1
    BY <1>6 DEF Tick, LockTick, turnVars
  <2>2. Claims' = Claims /\ ActiveTurns' = ActiveTurns /\ Claims \subseteq Msgs
    BY <2>1 DEF Claims, ActiveTurns, VarTypes
  <2>3. \A c \in Msgs : renewUntil[c] \in 0 .. MaxAutoRenew /\ renewIn[c] \in -MaxLag .. RenewEvery
    BY DEF VarTypes, LockTypeOK
  <2>4. \A c \in Claims : renewUntil'[c] > 0 => renewUntil[c] > 0
    BY <2>1, <2>2, <2>3 DEF Down
  <2>5. ASSUME NEW c \in Claims, renewUntil'[c] > 0
        PROVE  /\ owner' = c /\ c \in renewing'
               /\ left' >= TTL - RenewEvery + renewIn'[c]
    <3>1. owner = c /\ c \in renewing /\ left >= TTL - RenewEvery + renewIn[c] /\ left > 0
      BY <1>0, <2>4, <2>5 DEF LeaseInv, Owned
    <3>2. left' = left - 1 /\ renewIn'[c] = renewIn[c] - 1
      BY <2>1, <2>2, <3>1 DEF Down
    <3>3. left \in Int /\ renewIn[c] \in Int
      BY <2>2, <2>3 DEF VarTypes, LockTypeOK
    <3> QED  BY <2>1, <3>1, <3>2, <3>3
  <2>6. opener' # NoOne => renewUntil'[opener'] >= MaxAutoRenew - MaxWait + maxWait'
    <3> SUFFICES ASSUME opener # NoOne
                 PROVE  renewUntil'[opener] >= MaxAutoRenew - MaxWait + maxWait'
      BY <2>1
    <3>1. /\ renewUntil[opener] >= MaxAutoRenew - MaxWait + maxWait
          /\ renewUntil[opener] > 0 /\ opener \in Claims
      BY <1>0 DEF LeaseInv
    <3>2. renewUntil'[opener] = renewUntil[opener] - 1
      BY <2>1, <2>2, <3>1 DEF Down
    <3>3. renewUntil[opener] \in Int /\ maxWait \in Int
      BY <2>2, <2>3, <3>1 DEF VarTypes
    <3> QED  BY <2>1, <3>1, <3>2, <3>3
  <2>7. LeaseInv'
    BY <2>2, <2>5, <2>6 DEF LeaseInv
  <2>8. MayHang = {} => InTime'
    BY <2>1, <2>2, <2>3 DEF InTime, Down, Claims
  <2> QED  BY <2>7, <2>8
<1>7. CASE Terminate
  BY <1>7, LeaseUntouched DEF Terminate, batchVars, turnVars, Claims, ActiveTurns
<1>8. CASE UNCHANGED vars
  BY <1>8, LeaseUntouched DEF vars, batchVars, turnVars, Claims, ActiveTurns
<1> QED  BY <1>1, <1>2, <1>3, <1>4, <1>5, <1>6, <1>7, <1>8 DEF Next

LEMMA LeaseInvariant ==
    ASSUME RenewalsInTime
    PROVE  Spec => [](ChatInv /\ LeaseInv /\ (MayHang = {} => InTime))
<1>1. Init => LeaseInv /\ InTime
  BY DEF Init, LeaseInv, InTime, Claims, ActiveTurns, Active, NoOne
<1>2. ChatInv /\ LeaseInv /\ (MayHang = {} => InTime) /\ [Next]_vars
        => (ChatInv /\ LeaseInv /\ (MayHang = {} => InTime))'
  <2>1. ChatInv' => VarTypes'
    BY DEF ChatInv
  <2> QED  BY <2>1, NextChatInv, NextLeaseInv
<1> QED  BY <1>1, <1>2, InitChatInv, PTL DEF Spec

\* Renewals always come before the expiry: whoever works for a chat owns an
\* unexpired lease until its renewal reaches the ceiling, even if turns hang.
THEOREM LeaseHeld ==
    ASSUME RenewalsInTime
    PROVE  Spec => []LeaseInForce
<1>1. ChatInv /\ LeaseInv => LeaseInForce
  BY LeaseFacts DEF ChatInv, LeaseInForce
<1> QED  BY <1>1, LeaseInvariant, PTL

----------------------------------------------------------------------------
(* One claim at a time, and the slot a chat is, when no turn hangs.        *)

AllHeld == \A c \in Claims : Owned(c)

LEMMA AllHeldInvariant ==
    ASSUME RenewalsInTime, MayHang = {}
    PROVE  Spec => [](ChatInv /\ AllHeld)
<1>1. ChatInv /\ LeaseInv /\ (MayHang = {} => InTime) => AllHeld
  BY LeaseFacts DEF ChatInv, Claims, InTime, AllHeld
<1> QED  BY <1>1, LeaseInvariant, PTL

\* Turns of a chat never overlap, nor a batch with a turn, if none hangs.
THEOREM NeverTwoAtOnce ==
    ASSUME RenewalsInTime, MayHang = {}
    PROVE  Spec => []OneAtATime
<1>1. AllHeld => OneAtATime
  <2> SUFFICES ASSUME AllHeld PROVE Cardinality(Claims) <= 1
    BY DEF OneAtATime
  <2>1. CASE Claims = {}
    BY <2>1, FS_EmptySet
  <2>2. CASE Claims # {}
    <3>1. PICK c : Claims = {c}
      BY <2>2 DEF AllHeld, Owned
    <3> QED  BY <3>1, FS_Singleton
  <2> QED  BY <2>1, <2>2
<1> QED  BY <1>1, AllHeldInvariant, PTL

\* A step that changes neither the turns at work nor the open batch is a
\* stutter of the slot.
LEMMA SlotStutters ==
    ASSUME VarTypes, VarTypes', opener' = opener,
           \A t \in Msgs : phase'[t] = phase[t] \/ {phase[t], phase'[t]} \subseteq Active
    PROVE  UNCHANGED Slot!slotVars
<1>1. ActiveTurns' = ActiveTurns /\ Claims' = Claims
  BY DEF ActiveTurns, Claims
<1>2. {t \in Msgs : phase'[t] # "none"} = {t \in Msgs : phase[t] # "none"}
  BY DEF Active
<1> QED  BY <1>1, <1>2 DEF Slot!slotVars

\* A batch that fires is the slot's Answer.
LEMMA FireAnswers ==
    ASSUME ChatInv, AllHeld, opener \in Msgs,
           NEW msgs \in SUBSET Msgs, NEW sender, NEW commands,
           Fire(opener, msgs, sender, commands)
    PROVE  Slot!Answer
<1> USE DEF ChatInv
<1>0. opener # NoOne
  BY DEF NoOne, Msgs
<1>1. /\ opener # NoOne /\ opener' = NoOne
      /\ phase'[opener] \in Active
      /\ \A t \in Msgs : t # opener => phase'[t] = phase[t]
  BY <1>0, FireStartsTurn
<1>2. Claims = {opener} /\ ActiveTurns = {}
  <2>1. opener \in Claims /\ Claims = {opener}
    BY <1>1 DEF Claims, AllHeld, Owned
  <2>2. opener \notin ActiveTurns
    BY <1>1 DEF ActiveTurns, Names, Active
  <2> QED  BY <2>1, <2>2 DEF Claims
<1>3. ActiveTurns' = {opener}
  BY <1>1, <1>2 DEF ActiveTurns
<1>4. Claims' = {opener}
  BY <1>1, <1>3 DEF Claims
<1>5. {t \in Msgs : phase'[t] # "none"}
        = {t \in Msgs : phase[t] # "none"} \cup {opener}
  BY <1>1 DEF Active
<1> QED  BY <1>1, <1>2, <1>3, <1>4, <1>5 DEF Slot!Answer

LEMMA StepRefinesSlot ==
    ASSUME ChatInv, VarTypes', AllHeld, [Next]_vars
    PROVE  [Slot!Next]_Slot!slotVars
<1> USE DEF ChatInv
<1>1. CASE ArriveAny
  <2>1. PICK s \in Speakers, isWipe \in BOOLEAN : Arrive(s, isWipe)
    BY <1>1 DEF ArriveAny
  <2> DEFINE m == arrived + 1
             sender == [from EXCEPT ![m] = s]
             commands == IF isWipe THEN wipes \cup {m} ELSE wipes
  <2>2. m \in Msgs /\ arrived \in Nat
    BY <2>1 DEF Arrive, VarTypes
  <2> HIDE DEF sender, commands
  <2>3. CASE UNCHANGED <<lockVars, inbox, batchVars, turnVars>>
    BY <2>3, SlotStutters DEF batchVars, turnVars
  <2>4. CASE JoinBatch(m, sender, commands)
    <3> DEFINE msgs == batch \cup {m}
    <3>1. opener \in Msgs /\ msgs \in SUBSET Msgs
      BY <2>2, <2>4 DEF JoinBatch, VarTypes
    <3>2. CASE Cardinality(msgs) >= MaxBatch
      <4>1. Fire(opener, msgs, sender, commands)
        BY <2>4, <3>2 DEF JoinBatch
      <4> HIDE DEF msgs, ChatInv
      <4> QED  BY <3>1, <4>1, FireAnswers DEF Slot!Next
    <3>3. CASE ~(Cardinality(msgs) >= MaxBatch)
      BY <2>4, <3>3, SlotStutters DEF JoinBatch, turnVars
    <3> QED  BY <3>2, <3>3
  <2>5. CASE StartBatch(m)
    <3>1. opener = NoOne /\ opener' = m /\ ~Locked /\ phase' = phase /\ m # NoOne
      BY <2>2, <2>5 DEF StartBatch, Acquire, turnVars, NoOne, Msgs
    <3>2. Claims = {} /\ ActiveTurns = {}
      BY <3>1 DEF AllHeld, Owned, Locked, Claims, ActiveTurns, Msgs, NoOne
    <3>3. Claims' = {m} /\ ActiveTurns' = {}
      BY <3>1, <3>2 DEF Claims, ActiveTurns
    <3>4. \A t \in {u \in Msgs : phase[u] # "none"} : t < m
      BY <2>2 DEF Names, Msgs
    <3> QED  BY <2>2, <3>1, <3>2, <3>3, <3>4 DEF Slot!Next, Slot!Open
  <2>6. CASE HoldForRunningTurn(m, s, isWipe)
    BY <2>6, SlotStutters DEF HoldForRunningTurn, batchVars
  <2> QED  BY <2>1, <2>3, <2>4, <2>5, <2>6 DEF Arrive, sender, commands
<1>2. CASE FireBatch
  <2>1. opener \in Msgs /\ batch \in SUBSET Msgs /\ Fire(opener, batch, from, wipes)
    BY <1>2 DEF FireBatch, VarTypes
  <2> HIDE DEF ChatInv
  <2> QED  BY <2>1, FireAnswers DEF Slot!Next
<1>3. ASSUME NEW t \in Msgs, TurnStep(t) PROVE [Slot!Next]_Slot!slotVars
  <2>1. CASE Wipe(t) \/ NoticeDelivered(t) \/ LoadHistory(t) \/ Round(t) \/ Answer(t)
    <3>1. opener' = opener
      BY <2>1 DEF Wipe, NoticeDelivered, LoadHistory, Round, Answer, batchVars
    <3>2. phase[t] \in Active /\ \E p \in Active : phase' = [phase EXCEPT ![t] = p] \/ phase' = phase
      BY <2>1 DEF Wipe, NoticeDelivered, LoadHistory, Round, Answer, Active
    <3>3. \A u \in Msgs : phase'[u] = phase[u] \/ {phase[u], phase'[u]} \subseteq Active
      BY <3>2 DEF VarTypes
    <3> QED  BY <3>1, <3>3, SlotStutters
  <2>2. CASE EndTurn(t)
    <3>1. phase[t] \in Active /\ phase' = [phase EXCEPT ![t] = "done"] /\ opener' = opener
      BY <2>2 DEF EndTurn, batchVars
    <3>2. t \in Claims /\ t \in ActiveTurns /\ t # opener
      BY <3>1 DEF Claims, ActiveTurns, Names, Active, NoOne, Msgs
    <3>3. Claims = {t} /\ ActiveTurns = {t} /\ opener = NoOne
      BY <3>2 DEF AllHeld, Owned, Claims
    <3>4. Claims' = {} /\ ActiveTurns' = {}
      BY <3>1, <3>3 DEF Claims, ActiveTurns, VarTypes, Active
    <3>5. {u \in Msgs : phase'[u] # "none"} = {u \in Msgs : phase[u] # "none"}
      BY <3>1 DEF VarTypes, Active
    <3> QED  BY <3>1, <3>3, <3>4, <3>5 DEF Slot!Next, Slot!Finish
  <2> QED  BY <1>3, <2>1, <2>2 DEF TurnStep
<1>4. ASSUME NEW m \in Msgs, LockTimer(m) PROVE [Slot!Next]_Slot!slotVars
  BY <1>4, SlotStutters DEF LockTimer, batchVars, turnVars
<1>5. CASE LockExpires
  BY <1>5, SlotStutters DEF LockExpires, batchVars, turnVars
<1>6. CASE Tick
  BY <1>6, SlotStutters DEF Tick, turnVars
<1>7. CASE Terminate
  BY <1>7, SlotStutters DEF Terminate, batchVars, turnVars
<1>8. CASE UNCHANGED vars
  BY <1>8, SlotStutters DEF vars, batchVars, turnVars
<1> QED  BY <1>1, <1>2, <1>3, <1>4, <1>5, <1>6, <1>7, <1>8 DEF Next

\* With turns that end in time, the lock, the batcher and the turn together
\* implement the one slot of ChatSlot.
THEOREM ChatImplementsSlot ==
    ASSUME RenewalsInTime, MayHang = {}
    PROVE  Spec => ChatIsOneSlot
<1>1. Init => Slot!Init
  BY DEF Init, Slot!Init, Claims, ActiveTurns, Active, NoOne
<1>2. ChatInv /\ AllHeld /\ ChatInv' /\ [Next]_vars => [Slot!Next]_Slot!slotVars
  BY StepRefinesSlot DEF ChatInv
<1> QED  BY <1>1, <1>2, AllHeldInvariant, PTL DEF Spec, ChatIsOneSlot, Slot!Spec

----------------------------------------------------------------------------
(* Who gives a lease up.                                                   *)

\* An unexpired lease is given up by the end of its own turn or by its expiry,
\* for every setting of the timers and turns that hang.
THEOREM OwnersRelease == Spec => ReleasedByOwner
<1>1. VarTypes /\ [Next]_vars =>
        \A m \in Msgs : Owned(m) /\ ~Owned(m)' =>
           \/ phase'[m] = "done"
           \/ left = 1 /\ left' = 0
  <2> SUFFICES ASSUME VarTypes, [Next]_vars, NEW m \in Msgs, Owned(m)
               PROVE  ~Owned(m)' => phase'[m] = "done" \/ (left = 1 /\ left' = 0)
    OBVIOUS
  <2> USE LockConstants
  <2>0. VarTypes'
    BY NextTypes
  <2>1. Locked /\ owner = m /\ left > 0
    BY DEF Owned, Locked, NoOne, Msgs
  <2>2. \A o : \A msgs, sender, commands :
           Fire(o, msgs, sender, commands) => owner' = owner /\ left' \in {left, TTL}
    BY <2>1 DEF Fire, KeepOrRetakeLease, Refresh, Acquire
  <2>3. CASE ArriveAny
    BY <2>1, <2>2, <2>3 DEF ArriveAny, Arrive, JoinBatch, StartBatch, Acquire,
                            HoldForRunningTurn, lockVars, Owned
  <2>4. CASE FireBatch
    BY <2>1, <2>2, <2>4 DEF FireBatch, Owned
  <2>5. ASSUME NEW t \in Msgs, TurnStep(t)
        PROVE  ~Owned(m)' => phase'[m] = "done"
    <3>1. CASE EndTurn(t)
      BY <2>1, <3>1 DEF EndTurn, Unlock, Owned, VarTypes
    <3> QED  BY <2>1, <2>5, <3>1 DEF TurnStep, Wipe, NoticeDelivered, LoadHistory,
                                     Round, Answer, lockVars, Owned
  <2>6. ASSUME NEW t \in Msgs, LockTimer(t) PROVE Owned(m)'
    BY <2>1, <2>6 DEF LockTimer, RenewTimer, Refresh, Owned
  <2>7. CASE LockExpires
    BY <2>1, <2>7 DEF LockExpires, ExpiryTimer
  <2>8. CASE Tick
    BY <2>1, <2>8 DEF Tick, LockTick, Down, Owned, VarTypes, LockTypeOK
  <2>9. CASE Terminate \/ UNCHANGED vars
    BY <2>1, <2>9 DEF Terminate, vars, lockVars, Owned
  <2> QED  BY <2>3, <2>4, <2>5, <2>6, <2>7, <2>8, <2>9 DEF Next
<1>2. TypeOK => VarTypes
  BY DEF TypeOK
<1> QED  BY <1>1, <1>2, TypeCorrect, PTL DEF Spec, ReleasedByOwner

-----------------------------------------------------------------------------
(***************************************************************************)
(* What a turn is shown and told, when renewals come in time and no turn   *)
(* hangs: a Discord turn reads its own speaker only, nothing wiped is in   *)
(* the context of a turn at work, and a repeated wipe command is answered  *)
(* once.                                                                   *)
(*                                                                         *)
(* All three rest on the chat having one claim (AllHeld): the inbox is of  *)
(* the turn at work, and a wipe runs beside no turn and no open batch.     *)
(* TalkInv says what the inbox then is and what a wipe can reach.          *)
(***************************************************************************)


Arrived == {m \in Msgs : m <= arrived}

SendersKnown == \A m \in Arrived : from[m] \in Speakers

\* The inbox is that of the turn at work, with its restriction.
InboxOfTurn ==
    \A t \in ActiveTurns :
        /\ inbox.open
        /\ platform = "discord" => /\ inbox.only = from[t]
                                   /\ \A m \in inbox.held : from[m] = from[t]

\* A notice has been sent only in a turn whose inbox has recorded it.
NoticeOfTurn ==
    \A t \in Msgs :
        /\ busyNotices[t] \in {0, 1}
        /\ phase[t] = "none" => busyNotices[t] = 0
        /\ t \in ActiveTurns /\ ~inbox.noticed => busyNotices[t] = 0

\* What is wiped is neither in the chat nor about to be shown.
WipedIsOver ==
    /\ \A m \in wiped : m <= arrived
    /\ wiped \cap (chat \cup batch) = {}
    /\ \A t \in Msgs : phase[t] \in {"load", "rounds"} =>
          (prompt[t] \cup inbox.held) \cap wiped = {}
    /\ \A t \in Msgs : phase[t] = "rounds" => history[t] \cap wiped = {}

ChatArrived == \A m \in chat : m <= arrived

TalkInv == SendersKnown /\ ChatArrived /\ InboxOfTurn /\ OwnSpeakerOnly /\ NoticeOfTurn /\ WipedIsOver

LEMMA TalkSays == TalkInv => OwnSpeakerOnly /\ WipedIsForgotten /\ OneBusyNotice
  BY DEF TalkInv, WipedIsOver, WipedIsForgotten, NoticeOfTurn, OneBusyNotice

----------------------------------------------------------------------------
(* Pieces of steps.                                                        *)

\* A step that leaves alone all TalkInv speaks of.
LEMMA TalkQuiet ==
    ASSUME TalkInv, UNCHANGED <<platform, arrived, from, chat, wiped, inbox, batch, turnVars>>
    PROVE  TalkInv'
  BY DEF TalkInv, SendersKnown, ChatArrived, Arrived, InboxOfTurn, OwnSpeakerOnly, NoticeOfTurn, WipedIsOver,
         ActiveTurns, turnVars

\* With one claim, a turn at work is alone and no batch is open.
LEMMA Alone ==
    ASSUME ChatInv, AllHeld, NEW t \in Msgs, phase[t] \in Active
    PROVE  /\ ActiveTurns = {t}
           /\ opener = NoOne /\ batch = {}
<1> USE DEF ChatInv
<1>1. t \in ActiveTurns /\ t # opener
  BY DEF ActiveTurns, Names, Active, NoOne, Msgs
<1>2. Claims = {t}
  BY <1>1 DEF Claims, AllHeld, Owned
<1> QED
  BY <1>1, <1>2 DEF Claims, Names

\* What a message's arrival leaves of what is known of the earlier ones.
Follows(sender) ==
    /\ platform' = platform /\ wiped' = wiped /\ from' = sender
    /\ arrived \in Nat /\ arrived' \in Nat /\ arrived <= arrived'
    /\ \A m \in Arrived : sender[m] = from[m]
    /\ \A m \in Arrived' : sender[m] \in Speakers
    /\ \A m \in chat' : m <= arrived' /\ (m \in chat \/ m > arrived)

\* The same prompts have the same senders after it.
LEMMA PromptsKeepSenders ==
    ASSUME ChatInv, TalkInv, NEW sender, Follows(sender)
    PROVE  /\ \A t \in Msgs : \A m \in prompt[t] : m \in Arrived /\ t \in Arrived
           /\ platform = "discord" => \A t \in Msgs : \A m \in prompt[t] : sender[m] = sender[t]
           /\ \A m \in wiped : m <= arrived' /\ m \notin chat'
           /\ SendersKnown' /\ ChatArrived'
<1> USE DEF ChatInv
<1>1. \A t \in Msgs : \A m \in prompt[t] : m \in Arrived /\ t \in Arrived
  BY DEF Names, VarTypes, Arrived
<1>2. platform = "discord" => \A t \in Msgs : \A m \in prompt[t] : sender[m] = sender[t]
  BY <1>1 DEF TalkInv, OwnSpeakerOnly, Follows
<1>3. ASSUME NEW m \in wiped PROVE m <= arrived' /\ m \notin chat'
  <2>1. m \in Nat /\ m <= arrived /\ m \notin chat
    BY DEF TalkInv, WipedIsOver, VarTypes, Msgs
  <2> QED
    BY <2>1 DEF Follows
<1>4. SendersKnown' /\ ChatArrived'
  BY DEF Follows, SendersKnown, ChatArrived
<1> QED
  BY <1>1, <1>2, <1>3, <1>4

\* A batch fires into a turn that is alone, with a new inbox of its own.
LEMMA FireTalks ==
    ASSUME ChatInv, VarTypes', AllHeld, TalkInv, opener \in Msgs,
           NEW msgs \in SUBSET Msgs, NEW sender, NEW commands,
           Fire(opener, msgs, sender, commands), Follows(sender),
           \A m \in msgs : m \in batch \/ m > arrived
    PROVE  TalkInv'
<1> DEFINE kept == Kept(msgs, opener, sender)
<1>0. opener \in Claims /\ opener # NoOne /\ phase[opener] = "none" /\ arrived \in Nat
  BY DEF ChatInv, Claims, Names, NoOne, Msgs, Follows
<1>1. Owned(opener) \/ ~Locked
  BY <1>0 DEF AllHeld
<1>2. /\ inbox' = NewInbox(IF platform = "discord" THEN sender[opener] ELSE Everyone)
      /\ phase' = [phase EXCEPT ![opener] = FirstPhase(kept, commands)]
      /\ prompt' = [prompt EXCEPT ![opener] = kept]
      /\ batch' = {}
      /\ UNCHANGED <<history, busyNotices>>
  BY <1>1 DEF Fire, OpenLiveInbox
<1>3. inbox'.open /\ inbox'.held = {} /\ ~inbox'.noticed
      /\ inbox'.only = (IF platform = "discord" THEN sender[opener] ELSE Everyone)
  BY <1>2 DEF NewInbox, NoInbox
<1>4. Claims = {opener} /\ ActiveTurns = {}
  <2>1. Claims = {opener}
    BY <1>0 DEF AllHeld, Owned
  <2>2. opener \notin ActiveTurns
    BY <1>0 DEF ActiveTurns, Active
  <2> QED
    BY <2>1, <2>2 DEF Claims
<1>5. \A t \in Msgs : t # opener => phase'[t] = phase[t] /\ prompt'[t] = prompt[t] /\ phase[t] \notin Active
  BY <1>2, <1>4 DEF ChatInv, VarTypes, ActiveTurns
<1>6. phase'[opener] \in Active /\ phase'[opener] # "rounds" /\ prompt'[opener] = kept
  BY <1>2 DEF ChatInv, VarTypes, FirstPhase, Active
<1>7. ActiveTurns' = {opener}
  BY <1>5, <1>6 DEF ActiveTurns
<1>8. SendersKnown' /\ ChatArrived'
  BY PromptsKeepSenders
<1>9. InboxOfTurn'
  BY <1>3, <1>7 DEF InboxOfTurn, Follows
<1>10. OwnSpeakerOnly'
  <2>1. \A m \in kept : sender[m] = sender[opener]
    BY DEF Kept
  <2>2. platform = "discord" => \A t \in Msgs : \A m \in prompt[t] : sender[m] = sender[t]
    BY PromptsKeepSenders
  <2> HIDE DEF kept
  <2> QED
    BY <1>5, <1>6, <2>1, <2>2 DEF OwnSpeakerOnly, Follows
<1>11. NoticeOfTurn'
  <2>1. \A t \in Msgs : phase'[t] = "none" => phase[t] = "none"
    BY <1>0, <1>5
  <2> QED
    BY <1>0, <1>2, <1>7, <2>1 DEF TalkInv, NoticeOfTurn
<1>12. WipedIsOver'
  <2>1. \A m \in wiped : m <= arrived' /\ m \notin chat'
    BY PromptsKeepSenders
  <2>2. \A m \in wiped : m \notin batch /\ m <= arrived /\ m \in Nat
    BY DEF TalkInv, WipedIsOver, ChatInv, VarTypes, Msgs
  <2>3. kept \cap wiped = {}
    BY <1>0, <2>2 DEF Kept
  <2> HIDE DEF kept
  <2>4. \A t \in Msgs : phase'[t] \in {"load", "rounds"} => t = opener
    BY <1>5 DEF Active
  <2>5. (prompt'[opener] \cup inbox'.held) \cap wiped = {}
    BY <1>3, <1>6, <2>3
  <2> QED
    BY <1>2, <1>6, <2>1, <2>4, <2>5 DEF WipedIsOver, Follows
<1> QED
  BY <1>8, <1>9, <1>10, <1>11, <1>12 DEF TalkInv

----------------------------------------------------------------------------
(* Every step.                                                             *)

\* A message held for the turn at work.
LEMMA HoldTalks ==
    ASSUME ChatInv, AllHeld, TalkInv, NEW m \in Msgs, NEW s \in Speakers, NEW isWipe \in BOOLEAN,
           m = arrived + 1, arrived' = m, NEW sender, sender = [from EXCEPT ![m] = s],
           Follows(sender), HoldForRunningTurn(m, s, isWipe)
    PROVE  TalkInv'
<1> USE DEF ChatInv
<1>1. /\ opener = NoOne /\ Locked
      /\ UNCHANGED <<batch, phase, prompt, history>>
  BY DEF HoldForRunningTurn, batchVars
<1>2. owner \in Msgs /\ phase[owner] \in Active
  BY <1>1 DEF NoStrayLease, Claims, ActiveTurns
<1>3. ActiveTurns = {owner} /\ ActiveTurns' = {owner}
  BY <1>1, <1>2, Alone DEF ActiveTurns
<1>4. inbox.open /\ Opened = inbox
  BY <1>3 DEF TalkInv, InboxOfTurn, Opened
<1>5. owner \in Arrived /\ from[owner] \in Speakers /\ from[owner] # Everyone
  <2>1. owner \in Arrived
    BY <1>2 DEF Names, Arrived, Active
  <2> QED
    BY <2>1, ChatConstants DEF TalkInv, SendersKnown
<1>6. sender[m] = s /\ from'[m] = s /\ \A x \in Arrived : from'[x] = from[x]
  BY DEF Follows, VarTypes
<1>7. \A x \in inbox.held : x \in Arrived
  BY DEF Names, VarTypes, Arrived
<1>8. /\ inbox'.open /\ inbox'.only = inbox.only
      /\ \/ inbox'.held = inbox.held
         \/ inbox'.held = inbox.held \cup {m} /\ inbox.only \in {Everyone, s}
      /\ inbox.noticed => inbox'.noticed
      /\ busyNotices' = busyNotices \/ (~inbox.noticed /\ inbox'.noticed
                                        /\ busyNotices' = [busyNotices EXCEPT ![owner] = @ + 1])
  <2>1. CASE isWipe /\ platform # "discord"
    <3>1. inbox' = [inbox EXCEPT !.noticed = TRUE]
      BY <1>4, <2>1 DEF HoldForRunningTurn, ClaimWipeNotice
    <3>2. busyNotices' = IF ~inbox.noticed THEN [busyNotices EXCEPT ![owner] = @ + 1] ELSE busyNotices
      BY <1>4, <2>1 DEF HoldForRunningTurn, WipeNoticeFree
    <3> QED
      BY <1>4, <3>1, <3>2 DEF VarTypes
  <2>2. CASE ~(isWipe /\ platform # "discord")
    BY <1>4, <2>2 DEF HoldForRunningTurn, RecordLiveMessage, VarTypes
  <2> QED
    BY <2>1, <2>2
<1>9. SendersKnown' /\ ChatArrived'
  BY PromptsKeepSenders
<1>10. InboxOfTurn'
  <2>1. platform = "discord" => inbox.only = from[owner] /\ \A x \in inbox.held : from[x] = from[owner]
    BY <1>3 DEF TalkInv, InboxOfTurn
  <2>2. from'[owner] = from[owner] /\ \A x \in inbox.held : from'[x] = from[x]
    BY <1>5, <1>6, <1>7
  <2>3. platform = "discord" => inbox'.only = from'[owner] /\ \A x \in inbox'.held : from'[x] = from'[owner]
    BY <1>5, <1>6, <1>8, <2>1, <2>2
  <2> QED
    BY <1>3, <1>8, <2>3 DEF InboxOfTurn, Follows
<1>11. OwnSpeakerOnly'
  <2>1. platform = "discord" => \A t \in Msgs : \A x \in prompt[t] : sender[x] = sender[t]
    BY PromptsKeepSenders
  <2>2. platform' = platform /\ from' = sender /\ prompt' = prompt
    BY <1>1 DEF Follows
  <2> QED
    BY <2>1, <2>2 DEF OwnSpeakerOnly
<1>12. NoticeOfTurn'
  <2>1. busyNotices[owner] = 0 \/ inbox.noticed
    BY <1>2, <1>3 DEF TalkInv, NoticeOfTurn
  <2>2. CASE busyNotices' = busyNotices
    BY <1>1, <1>3, <1>8, <2>2 DEF TalkInv, NoticeOfTurn
  <2>3. CASE busyNotices' # busyNotices
    <3>1. busyNotices' = [busyNotices EXCEPT ![owner] = 1] /\ inbox'.noticed
      BY <1>8, <2>1, <2>3
    <3>2. phase[owner] # "none"
      BY <1>2 DEF Active
    <3>3. \A t \in Msgs : busyNotices'[t] = IF t = owner THEN 1 ELSE busyNotices[t]
      BY <3>1 DEF VarTypes
    <3> QED
      BY <1>1, <1>3, <3>1, <3>2, <3>3 DEF TalkInv, NoticeOfTurn
  <2> QED
    BY <2>2, <2>3
<1>13. WipedIsOver'
  <2>1. \A x \in wiped : x <= arrived' /\ x \notin chat' /\ x # m
    <3>1. \A x \in wiped : x <= arrived /\ x \in Nat
      BY DEF TalkInv, WipedIsOver, VarTypes, Msgs
    <3>2. \A x \in wiped : x <= arrived' /\ x \notin chat'
      BY PromptsKeepSenders
    <3>3. arrived \in Nat
      BY DEF Follows
    <3> QED
      BY <3>1, <3>2, <3>3
  <2> QED
    BY <1>1, <1>8, <2>1 DEF TalkInv, WipedIsOver, Follows
<1> QED
  BY <1>9, <1>10, <1>11, <1>12, <1>13 DEF TalkInv

LEMMA ArriveTalks ==
    ASSUME ChatInv, VarTypes', AllHeld, TalkInv, ArriveAny
    PROVE  TalkInv'
<1>1. PICK s \in Speakers, isWipe \in BOOLEAN : Arrive(s, isWipe)
  BY DEF ArriveAny
<1> DEFINE m == arrived + 1
           sender == [from EXCEPT ![m] = s]
           commands == IF isWipe THEN wipes \cup {m} ELSE wipes
<1>2. /\ m \in Msgs /\ arrived' = m /\ arrived \in Nat
      /\ from' = sender /\ chat' = chat \cup {m}
      /\ UNCHANGED <<platform, wiped>>
  BY <1>1 DEF Arrive, ChatInv, VarTypes
<1>3. Follows(sender)
  <2>1. \A x \in Msgs : sender[x] = IF x = m THEN s ELSE from[x]
    BY <1>2 DEF ChatInv, VarTypes
  <2>2. Arrived' = Arrived \cup {m} /\ m \notin Arrived /\ Arrived \subseteq Msgs
    BY <1>2, LockConstants DEF Arrived, Msgs
  <2>3. \A x \in Arrived : from[x] \in Speakers
    BY DEF TalkInv, SendersKnown
  <2>4. \A x \in chat' : x <= arrived' /\ (x \in chat \/ x > arrived)
    <3>1. \A x \in chat : x <= arrived /\ x \in Nat
      BY DEF TalkInv, ChatArrived, ChatInv, VarTypes, Msgs
    <3> QED
      BY <1>2, <3>1
  <2> HIDE DEF sender
  <2> QED
    BY <1>2, <2>1, <2>2, <2>3, <2>4 DEF Follows
<1> HIDE DEF sender, commands
<1>4. CASE UNCHANGED <<lockVars, inbox, batchVars, turnVars>>
  <2>1. UNCHANGED <<inbox, batch, phase, prompt, history, busyNotices>> /\ ActiveTurns' = ActiveTurns
    BY <1>4 DEF batchVars, turnVars, ActiveTurns
  <2>2. /\ \A t \in Msgs : \A x \in prompt[t] : x \in Arrived /\ t \in Arrived
        /\ platform = "discord" => \A t \in Msgs : \A x \in prompt[t] : sender[x] = sender[t]
        /\ \A x \in wiped : x <= arrived' /\ x \notin chat'
        /\ SendersKnown' /\ ChatArrived'
    BY <1>3, PromptsKeepSenders
  <2>3. InboxOfTurn'
    <3>1. \A t \in ActiveTurns : t \in Arrived
      BY DEF ChatInv, Names, ActiveTurns, Active, Arrived
    <3>2. \A x \in inbox.held : x \in Arrived
      BY DEF ChatInv, Names, VarTypes, Arrived
    <3> QED
      BY <1>2, <1>3, <2>1, <3>1, <3>2 DEF TalkInv, InboxOfTurn, Follows
  <2>4. OwnSpeakerOnly'
    BY <1>2, <2>1, <2>2 DEF OwnSpeakerOnly
  <2>5. NoticeOfTurn' /\ WipedIsOver'
    BY <1>2, <2>1, <2>2 DEF TalkInv, NoticeOfTurn, WipedIsOver
  <2> QED
    BY <2>2, <2>3, <2>4, <2>5 DEF TalkInv
<1>5. CASE JoinBatch(m, sender, commands)
  <2> DEFINE msgs == batch \cup {m}
  <2>1. opener \in Msgs /\ msgs \in SUBSET Msgs /\ \A x \in msgs : x \in batch \/ x > arrived
    BY <1>2, <1>5 DEF JoinBatch, ChatInv, VarTypes
  <2>2. CASE Cardinality(msgs) >= MaxBatch
    <3>1. Fire(opener, msgs, sender, commands)
      BY <1>5, <2>2 DEF JoinBatch
    <3> HIDE DEF msgs
    <3> QED
      BY <1>3, <2>1, <3>1, FireTalks
  <2>3. CASE ~(Cardinality(msgs) >= MaxBatch)
    <3>1. batch' = msgs /\ opener # NoOne /\ UNCHANGED <<inbox, turnVars>>
      BY <1>5, <2>3 DEF JoinBatch
    <3>2. ActiveTurns = {} /\ ActiveTurns' = {}
      <4>1. ActiveTurns = {}
        BY <3>1, Alone DEF ActiveTurns
      <4> QED
        BY <3>1, <4>1 DEF ActiveTurns, turnVars
    <3>3. SendersKnown' /\ ChatArrived' /\ OwnSpeakerOnly'
      BY <1>3, <3>1, PromptsKeepSenders DEF OwnSpeakerOnly, Follows, turnVars
    <3>4. InboxOfTurn' /\ NoticeOfTurn'
      BY <3>1, <3>2 DEF TalkInv, InboxOfTurn, NoticeOfTurn, turnVars
    <3>5. WipedIsOver'
      <4>1. \A x \in wiped : x <= arrived' /\ x \notin chat' /\ x # m
        <5>1. \A x \in wiped : x <= arrived /\ x \in Nat
          BY DEF TalkInv, WipedIsOver, ChatInv, VarTypes, Msgs
        <5> QED
          BY <1>2, <1>3, <5>1, PromptsKeepSenders
      <4> QED
        BY <1>2, <3>1, <4>1 DEF TalkInv, WipedIsOver, turnVars
    <3> QED
      BY <3>3, <3>4, <3>5 DEF TalkInv
  <2> QED
    BY <2>2, <2>3
<1>6. CASE StartBatch(m)
  <2>1. opener = NoOne /\ ~Locked /\ batch' = {m} /\ UNCHANGED <<inbox, turnVars>>
    BY <1>6 DEF StartBatch, Acquire
  <2>2. ActiveTurns = {} /\ ActiveTurns' = {}
    <3>1. Claims = {}
      BY <2>1 DEF AllHeld, Owned, Locked, Claims, ActiveTurns, Msgs, NoOne
    <3> QED
      BY <2>1, <3>1 DEF Claims, ActiveTurns, turnVars
  <2>3. SendersKnown' /\ ChatArrived' /\ OwnSpeakerOnly'
    BY <1>3, <2>1, PromptsKeepSenders DEF OwnSpeakerOnly, Follows, turnVars
  <2>4. InboxOfTurn' /\ NoticeOfTurn'
    BY <2>1, <2>2 DEF TalkInv, InboxOfTurn, NoticeOfTurn, turnVars
  <2>5. WipedIsOver'
    <3>1. \A x \in wiped : x <= arrived' /\ x \notin chat' /\ x # m
      <4>1. \A x \in wiped : x <= arrived /\ x \in Nat
        BY DEF TalkInv, WipedIsOver, ChatInv, VarTypes, Msgs
      <4> QED
        BY <1>2, <1>3, <4>1, PromptsKeepSenders
    <3> QED
      BY <1>2, <2>1, <3>1 DEF TalkInv, WipedIsOver, turnVars
  <2> QED
    BY <2>3, <2>4, <2>5 DEF TalkInv
<1>7. CASE HoldForRunningTurn(m, s, isWipe)
  <2>1. sender = [from EXCEPT ![m] = s]
    BY DEF sender
  <2> HIDE DEF m
  <2>2. m = arrived + 1
    BY DEF m
  <2> QED
    BY <1>2, <1>3, <1>7, <2>1, <2>2, HoldTalks
<1> QED
  BY <1>1, <1>4, <1>5, <1>6, <1>7 DEF Arrive, sender, commands

LEMMA WipeTalks ==
    ASSUME ChatInv, AllHeld, TalkInv, NEW t \in Msgs, Wipe(t)
    PROVE  TalkInv'
<1> USE DEF ChatInv
<1>1. /\ phase[t] = "wipe" /\ phase' = [phase EXCEPT ![t] = "deliver"]
      /\ chat' \subseteq chat /\ wiped' \subseteq wiped \cup chat
      /\ wiped' # wiped => chat' = {}
      /\ UNCHANGED <<platform, arrived, from, inbox, batch, prompt, history, busyNotices>>
  BY DEF Wipe, batchVars
<1>2. ActiveTurns = {t} /\ batch = {}
  BY <1>1, Alone DEF Active
<1>3. \A u \in Msgs : phase'[u] = IF u = t THEN "deliver" ELSE phase[u]
  BY <1>1 DEF VarTypes
<1>4. ActiveTurns' = {t}
  BY <1>2, <1>3 DEF ActiveTurns, Active
<1>5. \A u \in Msgs : phase'[u] \notin {"load", "rounds"}
  BY <1>2, <1>3 DEF ActiveTurns, Active
<1>6. \A m \in chat : m <= arrived
  BY DEF TalkInv, ChatArrived
<1>7. SendersKnown' /\ InboxOfTurn' /\ OwnSpeakerOnly' /\ ChatArrived'
  BY <1>1, <1>2, <1>4, <1>6 DEF TalkInv, SendersKnown, Arrived, InboxOfTurn, OwnSpeakerOnly, ChatArrived
<1>8. NoticeOfTurn'
  BY <1>1, <1>2, <1>3, <1>4 DEF TalkInv, NoticeOfTurn
<1>9. WipedIsOver'
  BY <1>1, <1>2, <1>5, <1>6 DEF TalkInv, WipedIsOver
<1> QED
  BY <1>7, <1>8, <1>9 DEF TalkInv

\* A step of the turn at work to its next phase, that reads no more.
LEMMA GoesOnTalks ==
    ASSUME ChatInv, TalkInv, NEW t \in Msgs,
           phase[t] \in Active, NEW p \in Active, p = "rounds" => phase[t] = "load", p # "load",
           phase' = [phase EXCEPT ![t] = p],
           NEW window, history' = [history EXCEPT ![t] = window],
           p = "rounds" => window \cap wiped = {},
           UNCHANGED <<platform, arrived, from, chat, wiped, inbox, batch, prompt, busyNotices>>
    PROVE  TalkInv'
<1> USE DEF ChatInv
<1>1. \A u \in Msgs : phase'[u] = IF u = t THEN p ELSE phase[u]
  BY DEF VarTypes
<1>2. \A u \in Msgs : history'[u] = IF u = t THEN window ELSE history[u]
  BY DEF VarTypes
<1>3. ActiveTurns' = ActiveTurns
  BY <1>1 DEF ActiveTurns
<1>4. SendersKnown' /\ InboxOfTurn' /\ OwnSpeakerOnly' /\ ChatArrived'
  BY <1>3 DEF TalkInv, SendersKnown, Arrived, InboxOfTurn, OwnSpeakerOnly, ChatArrived
<1>5. NoticeOfTurn'
  BY <1>1, <1>3 DEF TalkInv, NoticeOfTurn, Active
<1>6. WipedIsOver'
  BY <1>1, <1>2 DEF TalkInv, WipedIsOver
<1> QED
  BY <1>4, <1>5, <1>6 DEF TalkInv

LEMMA RoundTalks ==
    ASSUME ChatInv, AllHeld, TalkInv, NEW t \in Msgs, Round(t)
    PROVE  TalkInv'
<1> USE DEF ChatInv
<1>1. /\ phase[t] = "rounds"
      /\ prompt' = [prompt EXCEPT ![t] = @ \cup inbox.held]
      /\ inbox' = [inbox EXCEPT !.held = {}]
      /\ UNCHANGED <<platform, arrived, from, chat, wiped, batch, phase, history, busyNotices>>
  BY DEF Round, DrainLiveMessages, batchVars, chatVars
<1>2. inbox'.held = {} /\ inbox'.open = inbox.open /\ inbox'.only = inbox.only /\ inbox'.noticed = inbox.noticed
  BY <1>1 DEF VarTypes
<1>3. \A u \in Msgs : prompt'[u] = IF u = t THEN prompt[t] \cup inbox.held ELSE prompt[u]
  BY <1>1 DEF VarTypes
<1>4. t \in ActiveTurns /\ ActiveTurns' = ActiveTurns
  BY <1>1 DEF ActiveTurns, Active
<1>5. SendersKnown' /\ InboxOfTurn' /\ ChatArrived'
  BY <1>1, <1>2, <1>4 DEF TalkInv, SendersKnown, Arrived, InboxOfTurn, ChatArrived
<1>6. OwnSpeakerOnly'
  <2>1. platform = "discord" => \A m \in prompt[t] \cup inbox.held : from[m] = from[t]
    BY <1>4 DEF TalkInv, OwnSpeakerOnly, InboxOfTurn
  <2> QED
    BY <1>1, <1>3, <2>1 DEF TalkInv, OwnSpeakerOnly
<1>7. NoticeOfTurn'
  BY <1>1, <1>2, <1>4 DEF TalkInv, NoticeOfTurn
<1>8. WipedIsOver'
  BY <1>1, <1>2, <1>3 DEF TalkInv, WipedIsOver
<1> QED
  BY <1>5, <1>6, <1>7, <1>8 DEF TalkInv

LEMMA EndTalks ==
    ASSUME ChatInv, AllHeld, TalkInv, NEW t \in Msgs, EndTurn(t)
    PROVE  TalkInv'
<1> USE DEF ChatInv
<1>1. /\ phase[t] \in Active /\ phase' = [phase EXCEPT ![t] = "done"]
      /\ history' = [history EXCEPT ![t] = {}]
      /\ inbox' = NoInbox
      /\ UNCHANGED <<platform, arrived, from, chat, wiped, batch, prompt, busyNotices>>
  BY DEF EndTurn, ClearLiveMessages, batchVars, chatVars
<1>2. ActiveTurns = {t}
  BY <1>1, Alone
<1>3. \A u \in Msgs : phase'[u] = IF u = t THEN "done" ELSE phase[u]
  BY <1>1 DEF VarTypes
<1>4. ActiveTurns' = {}
  BY <1>2, <1>3 DEF ActiveTurns, Active
<1>5. SendersKnown' /\ InboxOfTurn' /\ OwnSpeakerOnly' /\ ChatArrived'
  BY <1>1, <1>4 DEF TalkInv, SendersKnown, Arrived, InboxOfTurn, OwnSpeakerOnly, ChatArrived
<1>6. NoticeOfTurn'
  BY <1>1, <1>3, <1>4 DEF TalkInv, NoticeOfTurn
<1>7. WipedIsOver'
  <2>1. \A u \in Msgs : phase'[u] \notin {"load", "rounds"}
    BY <1>2, <1>3 DEF ActiveTurns, Active
  <2> QED
    BY <1>1, <2>1 DEF TalkInv, WipedIsOver
<1> QED
  BY <1>5, <1>6, <1>7 DEF TalkInv

LEMMA StepTalks ==
    ASSUME ChatInv, VarTypes', AllHeld, TalkInv, [Next]_vars
    PROVE  TalkInv'
<1>1. CASE ArriveAny
  BY <1>1, ArriveTalks
<1>2. CASE FireBatch
  <2>1. /\ opener \in Msgs /\ batch \in SUBSET Msgs
        /\ Fire(opener, batch, from, wipes) /\ UNCHANGED chatVars
    BY <1>2 DEF FireBatch, ChatInv, VarTypes
  <2>2. Follows(from)
    BY <2>1 DEF Follows, chatVars, ChatInv, VarTypes, TalkInv, SendersKnown, ChatArrived, Arrived
  <2> QED
    BY <2>1, <2>2, FireTalks
<1>3. ASSUME NEW t \in Msgs, TurnStep(t) PROVE TalkInv'
  <2>1. CASE Wipe(t)
    BY <2>1, WipeTalks
  <2>2. CASE NoticeDelivered(t) \/ Answer(t)
    <3>1. /\ phase[t] \in Active /\ phase' = [phase EXCEPT ![t] = "deliver"]
          /\ UNCHANGED <<platform, arrived, from, chat, wiped, inbox, batch, prompt, history, busyNotices>>
      BY <2>2 DEF NoticeDelivered, Answer, Active, batchVars, chatVars
    <3>2. history' = [history EXCEPT ![t] = history[t]] /\ "deliver" \in Active
      BY <3>1 DEF ChatInv, VarTypes, Active
    <3> QED
      BY <3>1, <3>2, GoesOnTalks
  <2>3. CASE LoadHistory(t)
    <3>1. PICK window \in {chat \ prompt[t], {}} : history' = [history EXCEPT ![t] = window]
      BY <2>3 DEF LoadHistory
    <3>2. /\ phase[t] = "load" /\ phase' = [phase EXCEPT ![t] = "rounds"]
          /\ UNCHANGED <<platform, arrived, from, chat, wiped, inbox, batch, prompt, busyNotices>>
      BY <2>3 DEF LoadHistory, batchVars, chatVars
    <3>3. window \cap wiped = {} /\ "rounds" \in Active /\ phase[t] \in Active
      BY <3>2 DEF TalkInv, WipedIsOver, Active
    <3> QED
      BY <3>1, <3>2, <3>3, GoesOnTalks
  <2>4. CASE Round(t)
    BY <2>4, RoundTalks
  <2>5. CASE EndTurn(t)
    BY <2>5, EndTalks
  <2> QED
    BY <1>3, <2>1, <2>2, <2>3, <2>4, <2>5 DEF TurnStep
<1>4. ASSUME NEW m \in Msgs, LockTimer(m) PROVE TalkInv'
  BY <1>4, TalkQuiet DEF LockTimer, chatVars, batchVars
<1>5. CASE LockExpires
  BY <1>5, TalkQuiet DEF LockExpires, chatVars, batchVars
<1>6. CASE Tick
  BY <1>6, TalkQuiet DEF Tick, chatVars
<1>7. CASE Terminate
  BY <1>7, TalkQuiet DEF Terminate, batchVars
<1>8. CASE UNCHANGED vars
  BY <1>8, TalkQuiet DEF vars, chatVars, batchVars
<1> QED
  BY <1>1, <1>2, <1>3, <1>4, <1>5, <1>6, <1>7, <1>8 DEF Next

LEMMA InitTalks == Init => TalkInv
<1> SUFFICES ASSUME Init PROVE TalkInv
  OBVIOUS
<1>1. ActiveTurns = {} /\ Arrived = {}
  BY LockConstants DEF Init, ActiveTurns, Active, Arrived, Msgs
<1> QED
  BY <1>1 DEF Init, TalkInv, SendersKnown, InboxOfTurn, OwnSpeakerOnly, NoticeOfTurn, WipedIsOver, ChatArrived

LEMMA TalkInvariant ==
    ASSUME RenewalsInTime, MayHang = {}
    PROVE  Spec => []TalkInv
<1>1. ChatInv /\ AllHeld /\ ChatInv' /\ TalkInv /\ [Next]_vars => TalkInv'
  BY StepTalks DEF ChatInv
<1> QED
  BY <1>1, InitTalks, AllHeldInvariant, PTL DEF Spec

\* A Discord turn is shown only what its own speaker wrote, in its batch and
\* mid-turn, whatever the others write meanwhile.
THEOREM SpeakerAlone ==
    ASSUME RenewalsInTime, MayHang = {}
    PROVE  Spec => []OwnSpeakerOnly
<1> QED
  BY TalkInvariant, TalkSays, PTL

\* Nothing a wipe removed is in the context of a turn at work afterwards,
\* whichever parts of the wipe failed and whatever arrived during it.
THEOREM NothingWipedShown ==
    ASSUME RenewalsInTime, MayHang = {}
    PROVE  Spec => []WipedIsForgotten
<1> QED
  BY TalkInvariant, TalkSays, PTL

\* A person who repeats the wipe command during a turn is told once.
THEOREM OneNotice ==
    ASSUME RenewalsInTime, MayHang = {}
    PROVE  Spec => []OneBusyNotice
<1> QED
  BY TalkInvariant, TalkSays, PTL
====
