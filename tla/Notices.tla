---- MODULE Notices ----
(***************************************************************************)
(* The notices GemiX sends of itself: a release to the chats that asked    *)
(* for it, through an outbox in systemState.json (releaseMonitor.js,       *)
(* releaseNotify.js), the two notices of the first of the month            *)
(* (musicWrapMonitor.js, usageReportMonitor.js) and the alerts to the      *)
(* admin (adminNotifier.js).  The scheduler asks for each once a minute;   *)
(* only the release check shares one run between overlapping ticks.        *)
(*                                                                         *)
(* An update of the state file is one step, or throws and leaves it as it  *)
(* was.  GitHub and WhatsApp are external.                                 *)
(***************************************************************************)
EXTENDS Integers, Sequences, FiniteSets, Filtering

CONSTANTS
    NumChats,       \* chats that can subscribe, in the order they did
    Jids,           \* their WhatsApp numbers
    NoJid,
    LastRelease,    \* bound on the releases published
    Runs,           \* overlapping ticks of a monthly monitor
    NumMembers,     \* ACTIVE_MEMBERS
    LastStats,      \* bound on the updates of stats.json
    Alerts,         \* notifyAdmin calls under way at one time, for one source
    MaxRefusals,    \* bound on the messages WhatsApp refuses
    MaxFaults       \* bound on failed writes and crashes

ASSUME NoticeConstants ==
    /\ NumChats \in Nat /\ NumMembers \in Nat /\ LastRelease \in Nat \ {0} /\ LastStats \in Nat
    /\ MaxRefusals \in Nat /\ MaxFaults \in Nat /\ NoJid \notin Jids

Chats == 1..NumChats
Members == 1..NumMembers
Components == {"text", "media"}      \* a release with one image

VARIABLES
    latest,      \* the release GitHub shows
    cursor,      \* lastReleaseId
    box,         \* releaseOutbox
    subs,        \* subscriptions, on disk
    known,       \* subscribedChats, in memory
    change,      \* the subscription change under way
    check,       \* the release check under way
    got,         \* what the queued release's chats received
    repeats,     \* components WhatsApp accepted again
    wrap,        \* musicWrap in the state file: stats version, who was told, check, retry
    gate,        \* lastMusicWrapCheckDate is today
    wrapRun,     \* the music wrap runs
    stats,       \* the version of stats.json
    heard,       \* the members whom a music wrap message of today reached
    report,      \* lastSentMonth is this one, lines in the logs now, a report was accepted,
                 \* the directory of the logs could not be read
    lined,       \* the logs had lines of the month at its end
    reportRun,   \* the usage report runs
    alert,       \* notifyAdmin calls of one source in flight, cooldown, alerts in this window
    refusals, faults

releaseVars == <<latest, cursor, box, subs, known, change, check, got, repeats>>
wrapVars == <<wrap, gate, wrapRun, stats, heard>>
reportVars == <<report, lined, reportRun>>
mishapVars == <<refusals, faults>>
noticeVars == <<releaseVars, wrapVars, reportVars, alert, mishapVars>>

NoBox == [id |-> 0, to |-> [c \in Chats |-> NoJid], st |-> [c \in Chats |-> [k \in Components |-> "pending"]]]
NoCheck == [pc |-> "idle", box |-> NoBox, todo |-> <<>>, queued |-> FALSE, outcome |-> "none"]
NoChange == [pc |-> "idle", next |-> [c \in Chats |-> NoJid]]
NoWrap == [ts |-> 0, sent |-> {}, today |-> FALSE, deferred |-> FALSE]
NoWrapRun == [pc |-> "idle", copy |-> NoWrap, ts |-> 0, todo |-> {}, failed |-> FALSE]

Statuses == {"pending", "sending", "delivered"}
Boxes == [id : 0..LastRelease, to : [Chats -> Jids \cup {NoJid}], st : [Chats -> [Components -> Statuses]]]

Wraps == [ts : 0..LastStats, sent : SUBSET Members, today : BOOLEAN, deferred : BOOLEAN]

NoticeTypeOK ==
    /\ latest \in 1..LastRelease /\ cursor \in 0..LastRelease
    /\ box \in Boxes
    /\ {subs, known} \subseteq [Chats -> Jids \cup {NoJid}]
    /\ change \in [pc : {"idle", "save", "assign"}, next : [Chats -> Jids \cup {NoJid}]]
    /\ check.pc \in {"idle", "fetch", "drain", "send", "mark"} /\ check.box \in Boxes
    /\ check.queued \in BOOLEAN /\ check.outcome \in {"none", "pending", "delivered"}
    /\ \A i \in 1..Len(check.todo) : check.todo[i] \in Chats \X Components
    /\ got \subseteq Chats \X Components /\ repeats \in Nat
    /\ wrap \in Wraps /\ gate \in BOOLEAN
    /\ wrapRun \in [Runs -> [pc : {"idle", "stats", "send"}, copy : Wraps, ts : 0..LastStats,
                             todo : SUBSET Members, failed : BOOLEAN]]
    /\ stats \in 0..LastStats /\ heard \subseteq Members
    /\ lined \in BOOLEAN /\ report \in [mark : BOOLEAN, logs : BOOLEAN, accepted : BOOLEAN, unread : BOOLEAN]
    /\ reportRun \in [Runs -> {"idle", "send", "delete", "record"}]
    /\ alert \in [flying : SUBSET Alerts, cool : BOOLEAN, heard : Nat]
    /\ refusals \in 0..MaxRefusals /\ faults \in 0..MaxFaults

NoticeInit ==
    /\ latest = 1 /\ cursor = 0 /\ box = NoBox
    /\ subs = [c \in Chats |-> NoJid] /\ known = subs /\ change = NoChange
    /\ check = NoCheck /\ got = {} /\ repeats = 0
    /\ wrap = NoWrap /\ gate = FALSE
    /\ wrapRun = [r \in Runs |-> NoWrapRun] /\ stats = 0 /\ heard = {}
    /\ lined \in BOOLEAN /\ report = [mark |-> FALSE, logs |-> lined, accepted |-> FALSE, unread |-> FALSE]
    /\ reportRun = [r \in Runs |-> "idle"]
    /\ alert = [flying |-> {}, cool |-> FALSE, heard |-> 0]
    /\ refusals = 0 /\ faults = 0

(* A step that fails takes one from its bound.                             *)
Refused(ok) == UNCHANGED faults /\ IF ok THEN UNCHANGED refusals ELSE refusals < MaxRefusals /\ refusals' = refusals + 1
Faulted(ok) == UNCHANGED refusals /\ IF ok THEN UNCHANGED faults ELSE faults < MaxFaults /\ faults' = faults + 1

(***************************************************************************)
(* Subscriptions: one change at a time, written before it is known.        *)
(***************************************************************************)
SubscriptionChange(c, jid, enabled) ==
    LET others == [d \in Chats |-> IF d = c \/ known[d] = jid THEN NoJid ELSE known[d]]
        next == IF enabled THEN [others EXCEPT ![c] = jid] ELSE others
    IN  /\ change.pc = "idle" /\ next # known
        /\ change' = [pc |-> "save", next |-> next]
        /\ UNCHANGED <<latest, cursor, box, subs, known, check, got, repeats, mishapVars>>

SubscriptionSaved(ok) ==
    /\ change.pc = "save" /\ Faulted(ok)
    /\ IF ok THEN subs' = change.next /\ change' = [change EXCEPT !.pc = "assign"]
             ELSE change' = NoChange /\ UNCHANGED subs
    /\ UNCHANGED <<latest, cursor, box, known, check, got, repeats>>

SubscriptionKnown ==
    /\ change.pc = "assign"
    /\ known' = change.next /\ change' = NoChange
    /\ UNCHANGED <<latest, cursor, box, subs, check, got, repeats, mishapVars>>

(***************************************************************************)
(* The release check.                                                      *)
(***************************************************************************)
Publish ==
    /\ latest < LastRelease /\ latest' = latest + 1
    /\ UNCHANGED <<cursor, box, subs, known, change, check, got, repeats, mishapVars>>

(* What is still to be sent of an outbox, in its order.                    *)
Places == [i \in 1..2 * NumChats |-> <<(i + 1) \div 2, IF i % 2 = 1 THEN "text" ELSE "media">>]

\* Fault: what was being sent when the process died is taken as sent.
ToSendPending(b) == Filtered(Places, {s \in Chats \X Components : b.to[s[1]] # NoJid /\ b.st[s[1]][s[2]] = "pending"})

ToSend(b) == Filtered(Places, {s \in Chats \X Components : b.to[s[1]] # NoJid /\ b.st[s[1]][s[2]] # "delivered"})
Drain(b, queued) == [pc |-> "drain", box |-> b, todo |-> ToSend(b), queued |-> queued, outcome |-> "none"]

ReleaseTick ==
    /\ check.pc = "idle"
    /\ check' = IF box # NoBox THEN Drain(box, FALSE) ELSE [NoCheck EXCEPT !.pc = "fetch"]
    /\ UNCHANGED <<latest, cursor, box, subs, known, change, got, repeats, mishapVars>>

(* _persistOutbox of the component at the head; a failure ends the check.  *)
Persist(b, ok, next) ==
    /\ Faulted(ok)
    /\ box' = IF ok THEN b ELSE box
    /\ check' = IF ok THEN [next EXCEPT !.box = b] ELSE NoCheck

Component == Head(check.todo)
Marked(st) == [check.box EXCEPT !.st[Component[1]][Component[2]] = st]

MarkSending(ok) ==
    /\ check.pc = "drain" /\ check.todo # <<>>
    /\ Persist(Marked("sending"), ok, [check EXCEPT !.pc = "send"])
    /\ UNCHANGED <<latest, cursor, subs, known, change, got, repeats>>

(* A medium that cannot be fetched or sent goes as a link, if that can.    *)
SendComponent(ok) ==
    /\ check.pc = "send" /\ Refused(ok)
    /\ check' = [check EXCEPT !.pc = "mark", !.outcome = IF ok THEN "delivered" ELSE "pending"]
    /\ got' = IF ok THEN got \cup {Component} ELSE got
    /\ repeats' = IF ok /\ Component \in got THEN repeats + 1 ELSE repeats
    /\ UNCHANGED <<latest, cursor, box, subs, known, change>>

(* _markOutcome.  A text that failed takes the rest of its chat with it;   *)
(* one whose record failed is recorded as pending.                         *)
MarkOutcome(ok) ==
    LET rest == IF check.outcome = "pending" /\ Component[2] = "text"
                THEN Filtered(check.todo, {s \in Chats \X Components : s[1] # Component[1]}) ELSE Tail(check.todo)
    IN  /\ check.pc = "mark"
        /\ IF ~ok /\ Component[2] = "text" /\ check.outcome = "delivered"
           THEN check' = [check EXCEPT !.outcome = "pending"] /\ Faulted(ok) /\ UNCHANGED box
           ELSE Persist(Marked(check.outcome), ok, [check EXCEPT !.pc = "drain", !.todo = rest, !.outcome = "none"])
        /\ UNCHANGED <<latest, cursor, subs, known, change, got, repeats>>

\* Fault: a chat that has the text is done.
CompleteText(b) ==
    \A c \in Chats : b.to[c] # NoJid => b.st[c]["text"] = "delivered"

Complete(b) ==
    \A c \in Chats : b.to[c] # NoJid => \A k \in Components : b.st[c][k] = "delivered"

(* _completeOutbox, then the release that may have come out meanwhile.     *)
OutboxDrained(ok) ==
    /\ check.pc = "drain" /\ check.todo = <<>>
    /\ IF Complete(check.box)
       THEN /\ Faulted(ok)
            /\ IF ok THEN /\ cursor' = IF box.id = check.box.id THEN check.box.id ELSE cursor
                          /\ box' = IF box.id = check.box.id THEN NoBox ELSE box
                     ELSE UNCHANGED <<cursor, box>>
            /\ check' = IF ok /\ ~check.queued THEN [NoCheck EXCEPT !.pc = "fetch"] ELSE NoCheck
       ELSE ok /\ check' = NoCheck /\ UNCHANGED <<cursor, box, mishapVars>>
    /\ UNCHANGED <<latest, subs, known, change, got, repeats>>

FetchFails ==
    /\ check.pc = "fetch" /\ Refused(FALSE)
    /\ check' = NoCheck
    /\ UNCHANGED <<latest, cursor, box, subs, known, change, got, repeats>>

(* The first release ever seen is only recorded, and so is one nobody      *)
(* subscribed to; any other is queued before a word of it is sent.         *)
FetchLatest(ok) ==
    /\ check.pc = "fetch" /\ UNCHANGED <<latest, subs, known, change, repeats>>
    /\ IF cursor = latest THEN ok /\ check' = NoCheck /\ UNCHANGED <<cursor, box, got, mishapVars>>
       ELSE IF cursor = 0 \/ \A c \in Chats : known[c] = NoJid
       THEN /\ Faulted(ok) /\ check' = NoCheck
            /\ cursor' = IF ok THEN latest ELSE cursor
            /\ UNCHANGED <<box, got>>
       ELSE LET b == [NoBox EXCEPT !.id = latest, !.to = known]
            IN  /\ Persist(b, ok, Drain(b, TRUE))
                /\ got' = IF ok THEN {} ELSE got
                /\ UNCHANGED cursor

ReleaseCrash ==
    /\ check # NoCheck \/ change # NoChange
    /\ Faulted(FALSE)
    /\ check' = NoCheck /\ change' = NoChange /\ known' = subs
    /\ UNCHANGED <<latest, cursor, box, subs, got, repeats>>

CheckGoesOn(ok) == MarkSending(ok) \/ SendComponent(ok) \/ MarkOutcome(ok) \/ OutboxDrained(ok) \/ FetchLatest(ok)

ReleaseNext ==
    \/ \E c \in Chats, jid \in Jids, b \in BOOLEAN : SubscriptionChange(c, jid, b)
    \/ \E ok \in BOOLEAN : SubscriptionSaved(ok) \/ CheckGoesOn(ok)
    \/ SubscriptionKnown \/ Publish \/ ReleaseTick \/ FetchFails \/ ReleaseCrash

(***************************************************************************)
(* The music wrap, on the first of the month.  A run works on its own copy *)
(* of the state, and the day gate stays open until one is done.            *)
(***************************************************************************)
StatsPublished ==
    /\ stats < LastStats /\ stats' = stats + 1
    /\ UNCHANGED <<wrap, gate, wrapRun, heard, mishapVars>>

WrapTick(r) ==
    /\ wrapRun[r].pc = "idle" /\ ~gate /\ ~wrap.deferred
    /\ wrapRun' = [wrapRun EXCEPT ![r] = [NoWrapRun EXCEPT !.pc = "stats", !.copy = wrap]]
    /\ UNCHANGED <<wrap, gate, stats, heard, mishapVars>>

StatsFail(r) ==
    /\ wrapRun[r].pc = "stats" /\ Refused(FALSE)
    /\ wrapRun' = [wrapRun EXCEPT ![r] = NoWrapRun]
    /\ UNCHANGED <<wrap, gate, stats, heard>>

SaveWrap(copy, ok) == Faulted(ok) /\ wrap' = IF ok THEN copy ELSE wrap

(* Done today already, nothing new (try again in two hours), or a wrap.    *)
StatsRead(r) ==
    LET run == wrapRun[r]
        doneToday == run.copy.today /\ run.copy.ts = stats /\ run.copy.sent = Members
    IN  /\ run.pc = "stats" /\ UNCHANGED <<stats, heard>>
        /\ \/ /\ doneToday /\ gate' = TRUE
              /\ wrapRun' = [wrapRun EXCEPT ![r] = NoWrapRun]
              /\ UNCHANGED <<wrap, mishapVars>>
           \/ /\ ~doneToday /\ run.copy.ts = stats
              /\ \E ok \in BOOLEAN : SaveWrap([run.copy EXCEPT !.deferred = TRUE], ok)
              /\ wrapRun' = [wrapRun EXCEPT ![r] = NoWrapRun] /\ UNCHANGED gate
           \/ /\ run.copy.ts # stats
              /\ wrapRun' = [wrapRun EXCEPT ![r].pc = "send", ![r].ts = stats,
                                            ![r].todo = Members \ run.copy.sent]
              /\ UNCHANGED <<wrap, gate, mishapVars>>

WrapSend(r, ok) ==
    LET m == CHOOSE n \in wrapRun[r].todo : \A o \in wrapRun[r].todo : n <= o
    IN  /\ wrapRun[r].pc = "send" /\ wrapRun[r].todo # {} /\ Refused(ok)
        /\ wrapRun' = [wrapRun EXCEPT ![r].todo = @ \ {m}, ![r].failed = @ \/ ~ok,
                                      ![r].copy.sent = IF ok THEN @ \cup {m} ELSE @]
        /\ heard' = IF ok THEN heard \cup {m} ELSE heard
        /\ UNCHANGED <<wrap, gate, stats>>

(* The progress is kept in any case, the gates only when all were told.    *)
WrapSave(r, ok) ==
    LET run == wrapRun[r]
    IN  /\ run.pc = "send" /\ run.todo = {}
        /\ SaveWrap(IF run.failed THEN run.copy
                    ELSE [run.copy EXCEPT !.ts = run.ts, !.today = TRUE, !.deferred = FALSE], ok)
        /\ gate' = (gate \/ (ok /\ ~run.failed))
        /\ wrapRun' = [wrapRun EXCEPT ![r] = NoWrapRun]
        /\ UNCHANGED <<stats, heard>>

RetryDue ==
    /\ wrap.deferred /\ wrap' = [wrap EXCEPT !.deferred = FALSE]
    /\ UNCHANGED <<gate, wrapRun, stats, heard, mishapVars>>

WrapCrash ==
    /\ Faulted(FALSE)
    /\ wrapRun' = [r \in Runs |-> NoWrapRun] /\ gate' = FALSE
    /\ UNCHANGED <<wrap, stats, heard>>

WrapNext ==
    \/ StatsPublished \/ RetryDue \/ WrapCrash
    \/ \E r \in Runs : WrapTick(r) \/ StatsFail(r) \/ StatsRead(r)
                     \/ \E ok \in BOOLEAN : WrapSend(r, ok) \/ WrapSave(r, ok)

(***************************************************************************)
(* The usage report, on the first of the month: saved and sent, then the   *)
(* rotated logs go, then the month is marked.                              *)
(***************************************************************************)
Stage(r, pc) == reportRun' = [reportRun EXCEPT ![r] = pc]

(* Without a line in the logs there is no report, and the month is marked; *)
(* so it is when the directory of the logs cannot be read.                 *)
UsageTick(r) ==
    /\ reportRun[r] = "idle" /\ ~report.mark
    /\ \/ report.logs /\ Stage(r, "send") /\ UNCHANGED <<report, mishapVars>>
       \/ /\ report.logs /\ Faulted(FALSE)
          /\ report' = [report EXCEPT !.mark = TRUE, !.unread = TRUE] /\ UNCHANGED reportRun
       \/ \E ok \in BOOLEAN :
             ~report.logs /\ Faulted(ok) /\ report' = [report EXCEPT !.mark = ok] /\ UNCHANGED reportRun
    /\ UNCHANGED lined

UsageSend(r, ok) ==
    /\ reportRun[r] = "send" /\ Refused(ok)
    /\ Stage(r, IF ok THEN "delete" ELSE "idle")
    /\ report' = [report EXCEPT !.accepted = @ \/ ok]
    /\ UNCHANGED lined

UsageDelete(r, ok) ==
    /\ reportRun[r] = "delete" /\ Faulted(ok) /\ Stage(r, "record")
    /\ \/ report' = [report EXCEPT !.logs = @ /\ ~ok]
       \/ UNCHANGED report                          \* the live log still has lines of the month
    /\ UNCHANGED lined

UsageRecord(r, ok) ==
    /\ reportRun[r] = "record" /\ Faulted(ok) /\ Stage(r, "idle")
    /\ report' = [report EXCEPT !.mark = @ \/ ok]
    /\ UNCHANGED lined

UsageCrash ==
    /\ \E r \in Runs : reportRun[r] # "idle"
    /\ Faulted(FALSE) /\ reportRun' = [r \in Runs |-> "idle"] /\ UNCHANGED <<report, lined>>

ReportNext ==
    \/ UsageCrash
    \/ \E r \in Runs : UsageTick(r) \/ \E ok \in BOOLEAN : UsageSend(r, ok) \/ UsageDelete(r, ok) \/ UsageRecord(r, ok)

(***************************************************************************)
(* Alerts to the admin from one source.                                    *)
(***************************************************************************)
NotifyAdmin(n) ==
    /\ ~alert.cool /\ alert.flying = {}
    /\ alert' = [alert EXCEPT !.flying = {n}]
    /\ UNCHANGED mishapVars

AlertEnds(n, ok) ==
    /\ n \in alert.flying /\ Refused(ok)
    /\ alert' = [flying |-> alert.flying \ {n}, cool |-> alert.cool \/ ok, heard |-> alert.heard + IF ok THEN 1 ELSE 0]

CooldownOver ==
    /\ alert.cool /\ alert' = [alert EXCEPT !.cool = FALSE, !.heard = 0]
    /\ UNCHANGED mishapVars

AlertNext == CooldownOver \/ \E n \in Alerts : NotifyAdmin(n) \/ \E ok \in BOOLEAN : AlertEnds(n, ok)

NoticeNext ==
    \/ ReleaseNext /\ UNCHANGED <<wrapVars, reportVars, alert>>
    \/ WrapNext /\ UNCHANGED <<releaseVars, reportVars, alert>>
    \/ ReportNext /\ UNCHANGED <<releaseVars, wrapVars, alert>>
    \/ AlertNext /\ UNCHANGED <<releaseVars, wrapVars, reportVars>>

(* The scheduler ticks, and no step of a check waits for ever.             *)
OutboxGoesOn == ReleaseTick \/ FetchFails \/ \E ok \in BOOLEAN : CheckGoesOn(ok)
NoticeSpec == NoticeInit /\ [][NoticeNext]_noticeVars /\ WF_noticeVars(OutboxGoesOn /\ UNCHANGED <<wrapVars, reportVars, alert>>)

(***************************************************************************)
(* Properties.                                                             *)
(***************************************************************************)

(* A release leaves the outbox only when every chat it was queued for has  *)
(* all of it, over failures, crashes and overlapping ticks.                *)
ReleaseReachesAll ==
    [][box.id # 0 /\ box'.id # box.id =>
         \A c \in Chats : box.to[c] # NoJid => {c} \X Components \subseteq got]_noticeVars

(* Nothing of it is sent twice but when a write failed or the process died *)
(* between the sending and its record.                                     *)
RepeatsHaveACause == repeats <= faults

(* The two writers of the releases' record do not undo each other: what is *)
(* on disk is what the process knows, and one number is in one chat.       *)
SubscriptionsKept ==
    /\ change.pc # "assign" => known = subs
    /\ \A c, d \in Chats : known[c] = known[d] /\ known[c] # NoJid => c = d

(* The first of the month is marked as done only when every member was     *)
(* told of the wrap, and the admin had the report, if there was anything   *)
(* to report and the directory of the logs could be read (the code takes   *)
(* one it cannot read for one without lines, and the report of that month  *)
(* is not sent); the logs it is made of go only after it was accepted.     *)
MonthlyDone ==
    /\ wrap.today \/ gate => heard = Members
    /\ report.mark => report.accepted \/ ~lined \/ report.unread
    /\ report.logs # lined => report.accepted

(* One source tells the admin of itself once while its cooldown lasts,     *)
(* however many alerts it raises at a time.                                *)
AlertsSpaced == alert.heard <= 1

(* A queued release is delivered in the end.                               *)
OutboxDrains == box.id # 0 ~> box.id = 0
====
