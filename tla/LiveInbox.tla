---- MODULE LiveInbox ----
(***************************************************************************)
(* utils/liveInbox.js for one chat key: the messages that reach the chat   *)
(* while a turn runs, held until the agent loop shows them to the model.   *)
(* The count of messages past the cap only words the note and is left out. *)
(***************************************************************************)
EXTENDS Integers, FiniteSets

CONSTANTS
    Everyone,   \* onlySenderId = null: hold every sender's messages
    MaxLive     \* MAX_LIVE_MESSAGES

ASSUME InboxConstants == MaxLive \in Nat \ {0}

VARIABLE inbox  \* the entry of _inboxes

NoInbox == [open |-> FALSE, only |-> Everyone, held |-> {}, noticed |-> FALSE]
NewInbox(sender) == [NoInbox EXCEPT !.open = TRUE, !.only = sender]

\* A message that finds no inbox opens one, with no restriction.
Opened == IF inbox.open THEN inbox ELSE NewInbox(Everyone)

OpenLiveInbox(sender) == inbox' = NewInbox(sender)

\* Fault: the end of a turn empties the inbox as a drain does.
ClearHeldOnly == inbox' = [inbox EXCEPT !.held = {}]
ClearLiveMessages == inbox' = NoInbox

\* Faults: the inbox is never full; its restriction is not looked at.
RecordUncapped(m, sender) ==
    inbox' = IF Opened.only \notin {Everyone, sender}
             THEN Opened
             ELSE [Opened EXCEPT !.held = @ \cup {m}]
RecordFromAnyone(m, sender) ==
    inbox' = IF Cardinality(Opened.held) >= MaxLive
             THEN Opened
             ELSE [Opened EXCEPT !.held = @ \cup {m}]

RecordLiveMessage(m, sender) ==
    inbox' = IF \/ Opened.only \notin {Everyone, sender}
                \/ Cardinality(Opened.held) >= MaxLive
             THEN Opened
             ELSE [Opened EXCEPT !.held = @ \cup {m}]

\* True the first time in a turn.
WipeNoticeFree == ~Opened.noticed
ClaimForgotten == inbox' = Opened  \* fault: the claim is not recorded
ClaimWipeNotice == inbox' = [Opened EXCEPT !.noticed = TRUE]

\* The caller takes inbox.held; the inbox itself stays open.
DrainNothing == inbox' = inbox  \* fault: the messages stay
DrainLiveMessages == inbox' = [inbox EXCEPT !.held = {}]
====
