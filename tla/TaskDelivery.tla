---- MODULE TaskDelivery ----
(***************************************************************************)
(* scheduler/engine.js over one task file (utils/taskStore.js): the cycle  *)
(* that claims due reminders, sends them and settles what happened, against*)
(* the tools that create and remove reminders, the wipe that deletes the   *)
(* file, failing reads and writes, and a process that may die anywhere.    *)
(*                                                                         *)
(* Every modifyTaskFile runs under the file's lock and replaces the file by*)
(* a rename, so each is one step: it happens or it throws and nothing has  *)
(* changed.  A send to WhatsApp is two steps, the acceptance and what the  *)
(* process learns of it.                                                   *)
(***************************************************************************)
EXTENDS Integers, FiniteSets

CONSTANTS
    Tasks,        \* reminders of the file
    Recurring,    \* those with a recurrence
    Dests,        \* destination keys: whatsapp, whatsappGroup
    DestsOf,      \* the destinations of each reminder
    MaxOcc,       \* occurrences of a series up to its UNTIL
    MaxAttempts,  \* TASK_DELIVERY_MAX_ATTEMPTS
    ClaimTTL,     \* TASK_DELIVERY_CLAIM_TTL_MS
    LostAcks,     \* whether a send that was accepted may still throw
    MaxCrashes,   \* bound on process deaths
    MaxFaults     \* bound on failed reads and writes

ASSUME TaskConstants ==
    /\ Recurring \subseteq Tasks
    /\ DestsOf \in [Tasks -> SUBSET Dests]
    /\ MaxOcc \in Nat \ {0}
    /\ MaxAttempts \in Nat \ {0}
    /\ ClaimTTL \in Nat \ {0}
    /\ LostAcks \in BOOLEAN
    /\ MaxCrashes \in Nat
    /\ MaxFaults \in Nat

NoClaim == 0
Statuses == {"none", "pending", "sending", "delivered", "failed", "unknown"}
Final == {"delivered", "failed", "unknown"}
Lives == {"new", "stored", "done", "ended", "removed", "wiped"}

VARIABLES
    \* the file
    life,      \* whether the task is in the file, and why it no longer is
    occ,       \* the occurrence scheduledAt names
    due,       \* scheduledAt has passed
    failure,   \* deliveryFailure.status is failed
    claim,     \* deliveryClaim.id
    owner,     \* deliveryClaim.ownerId
    left,      \* time until updatedAt is ClaimTTL old
    status,    \* deliveryClaim.destinations[d].status
    attempts,  \* deliveryClaim.destinations[d].attempts
    \* the process
    me,        \* SCHEDULER_INSTANCE_ID
    pc,        \* where the cycle stands
    resume,    \* tasks of existingClaims still to process
    fresh,     \* tasks of newDueTasks still to process
    snap,      \* claim id and states of each task as the cycle's snapshot has them
    cur,       \* the task being processed, with the claim it was taken under
    round,     \* round of _executeClaimedTask
    todo,      \* pendingKeys still to visit in this round
    dest,      \* the destination being sent to
    erred,     \* the send threw
    outcome,   \* outcome.delivered
    \* the world, and bounds
    accepted,  \* how often WhatsApp accepted the current occurrence
    lastClaim, \* claim ids handed out
    crashes,
    faults

file == <<life, occ, due, failure, claim, owner, left, status, attempts>>
cycle == <<pc, resume, fresh, snap, cur, round, todo, dest, erred, outcome>>
world == <<accepted, lastClaim, crashes, faults>>
vars == <<file, me, cycle, world>>

Nobody == [task |-> "none", claim |-> NoClaim]
NoDest == "none"
NoStates == [d \in Dests |-> "none"]
NoSnap == [t \in Tasks |-> [claim |-> NoClaim, status |-> NoStates]]

FileOK ==
    /\ life \in [Tasks -> Lives]
    /\ occ \in [Tasks -> 1 .. MaxOcc]
    /\ due \in [Tasks -> BOOLEAN]
    /\ failure \in [Tasks -> BOOLEAN]
    /\ claim \in [Tasks -> Nat]
    /\ owner \in [Tasks -> Nat]
    /\ left \in [Tasks -> 0 .. ClaimTTL]
    /\ status \in [Tasks -> [Dests -> Statuses]]
    /\ attempts \in [Tasks -> [Dests -> 0 .. MaxAttempts]]

CycleOK ==
    /\ pc \in {"down", "idle", "pick", "round", "dispatch", "sending", "sent", "finalise"}
    /\ resume \subseteq Tasks
    /\ fresh \subseteq Tasks
    /\ snap \in [Tasks -> [claim : Nat, status : [Dests -> Statuses]]]
    /\ cur \in [task : Tasks \cup {"none"}, claim : Nat]
    /\ pc \in {"round", "dispatch", "sending", "sent", "finalise"} => cur.task \in Tasks
    /\ round \in 1 .. MaxAttempts
    /\ todo \subseteq Dests
    /\ dest \in Dests \cup {NoDest}
    /\ pc \in {"sending", "sent"} => dest \in Dests
    /\ erred \in BOOLEAN
    /\ outcome \in BOOLEAN

WorldOK ==
    /\ accepted \in [Tasks -> [Dests -> Nat]]
    /\ lastClaim \in Nat
    /\ crashes \in 0 .. MaxCrashes
    /\ faults \in 0 .. MaxFaults

\* Every variable has its type; in the task file no series is past its UNTIL
\* and no destination has had more than its attempts, also after restarts.
TypeOK == FileOK /\ CycleOK /\ WorldOK /\ me \in Nat

Init ==
    /\ life = [t \in Tasks |-> "new"]
    /\ occ = [t \in Tasks |-> 1]
    /\ due = [t \in Tasks |-> FALSE]
    /\ failure = [t \in Tasks |-> FALSE]
    /\ claim = [t \in Tasks |-> NoClaim]
    /\ owner = [t \in Tasks |-> 0]
    /\ left = [t \in Tasks |-> 0]
    /\ status = [t \in Tasks |-> NoStates]
    /\ attempts = [t \in Tasks |-> [d \in Dests |-> 0]]
    /\ me = 1
    /\ pc = "idle"
    /\ resume = {}
    /\ fresh = {}
    /\ snap = NoSnap
    /\ cur = Nobody
    /\ round = 1
    /\ todo = {}
    /\ dest = NoDest
    /\ erred = FALSE
    /\ outcome = FALSE
    /\ accepted = [t \in Tasks |-> [d \in Dests |-> 0]]
    /\ lastClaim = 0
    /\ crashes = 0
    /\ faults = 0

----
(* The file's side: claims. *)

DueNow(t) == life[t] = "stored" /\ due[t] /\ claim[t] = NoClaim /\ ~failure[t]

\* _taskFromData: the task is still there under the claim it was taken with.
Mine == claim[cur.task] = cur.claim /\ life[cur.task] = "stored"

Pending(st, at) == {d \in Dests : st[d] = "pending" /\ at[d] < MaxAttempts}

\* _outcomeFromClaim: every destination of the claim took the message.
AllDelivered(t, st) == DestsOf[t] # {} /\ \A d \in DestsOf[t] : st[d] = "delivered"

\* The file without the claim of t.
DropClaim(t) ==
    /\ claim' = [claim EXCEPT ![t] = NoClaim]
    /\ owner' = [owner EXCEPT ![t] = 0]
    /\ left' = [left EXCEPT ![t] = 0]
    /\ status' = [status EXCEPT ![t] = NoStates]
    /\ attempts' = [attempts EXCEPT ![t] = [d \in Dests |-> 0]]

\* Faults: a claim of another instance is stale at once; none ever is.
StaleAtOnce(t) == claim[t] # NoClaim /\ owner[t] # me
StaleNever(t) == FALSE
\* Nobody wrote to the claim for ClaimTTL.
Stale(t) == claim[t] # NoClaim /\ left[t] = 0

\* Faults: what was interrupted is sent again; all that was tried is unknown.
InterruptedRetried(s) == IF s = "sending" THEN "pending" ELSE s
InterruptedForgets(s) == IF s \in {"sending", "delivered"} THEN "unknown" ELSE s
\* A send that was under way when its process died has an unknown outcome.
Interrupted(s) == IF s = "sending" THEN "unknown" ELSE s

----
(* The scheduler's cycle. *)

\* The cycle has no task in hand.
Forget ==
    /\ cur' = Nobody
    /\ round' = 1
    /\ todo' = {}
    /\ dest' = NoDest
    /\ erred' = FALSE
    /\ outcome' = FALSE

\* The cycle reads the file: stale claims are taken over with what they were
\* sending made unknown, and the snapshot says what there is to do.
Prepare ==
    /\ pc = "idle"
    /\ status' = [t \in Tasks |->
                    IF Stale(t) THEN [d \in Dests |-> Interrupted(status[t][d])] ELSE status[t]]
    /\ owner' = [t \in Tasks |-> IF Stale(t) THEN me ELSE owner[t]]
    /\ left' = [t \in Tasks |-> IF Stale(t) THEN ClaimTTL ELSE left[t]]
    /\ resume' = {t \in Tasks : claim[t] # NoClaim /\ owner'[t] = me}
    /\ fresh' = {t \in Tasks : DueNow(t)}
    /\ snap' = [t \in Tasks |-> [claim |-> claim[t], status |-> status'[t]]]
    /\ pc' = "pick"
    /\ UNCHANGED <<life, occ, due, failure, claim, attempts, me, cur, round, todo, dest, erred, outcome, world>>

EndCycle ==
    /\ pc = "pick"
    /\ resume = {} /\ fresh = {}
    /\ pc' = "idle"
    /\ snap' = NoSnap
    /\ UNCHANGED <<file, me, resume, fresh, cur, round, todo, dest, erred, outcome, world>>

\* Where a claimed task goes next, by the states it was taken with.
Process(t, c, st) ==
    /\ cur' = [task |-> t, claim |-> c]
    /\ outcome' = AllDelivered(t, st)
    /\ pc' = IF \E d \in Dests : st[d] = "pending" THEN "round" ELSE "finalise"
    /\ UNCHANGED <<round, todo, dest, erred>>

\* A claim this instance already owns, as the snapshot shows it.
PickClaim(t) ==
    /\ pc = "pick"
    /\ t \in resume
    /\ resume' = resume \ {t}
    /\ Process(t, snap[t].claim, snap[t].status)
    /\ UNCHANGED <<file, me, fresh, snap, world>>

\* _claimDueTask on a task that is due no more.
PassBy(t) ==
    /\ pc = "pick"
    /\ resume = {}
    /\ t \in fresh
    /\ ~DueNow(t)
    /\ fresh' = fresh \ {t}
    /\ UNCHANGED <<file, me, pc, resume, snap, cur, round, todo, dest, erred, outcome, world>>

\* A new claim; updatedAt is the start of the cycle, any time back by now.
PickDue(t) ==
    /\ pc = "pick"
    /\ resume = {}
    /\ t \in fresh
    /\ DueNow(t)
    /\ fresh' = fresh \ {t}
    /\ LET states == [d \in Dests |-> IF d \in DestsOf[t] THEN "pending" ELSE "none"]
       IN /\ claim' = [claim EXCEPT ![t] = lastClaim + 1]
          /\ status' = [status EXCEPT ![t] = states]
          /\ Process(t, lastClaim + 1, states)
    /\ lastClaim' = lastClaim + 1
    /\ owner' = [owner EXCEPT ![t] = me]
    /\ \E age \in 0 .. ClaimTTL : left' = [left EXCEPT ![t] = ClaimTTL - age]
    /\ attempts' = [attempts EXCEPT ![t] = [d \in Dests |-> 0]]
    /\ UNCHANGED <<life, occ, due, failure, me, resume, snap, accepted, crashes, faults>>

\* The task was removed, or its claim is another's: nothing more is done for it.
Cancelled ==
    /\ ~Mine
    /\ pc' = "pick"
    /\ Forget

\* Start of a round: which destinations are still to be tried.
ReadRound ==
    /\ pc = "round"
    /\ \/ Cancelled
       \/ /\ Mine
          /\ todo' = Pending(status[cur.task], attempts[cur.task])
          /\ pc' = "dispatch"
          /\ UNCHANGED <<cur, round, dest, erred, outcome>>
    /\ UNCHANGED <<file, me, resume, fresh, snap, world>>

\* Fault: an attempt is not counted.
AttemptUncounted(n) == n
NextAttempt(n) == n + 1

\* _beginDestinationDelivery: the attempt is on disk before anything is sent.
Begin(d) ==
    /\ pc = "dispatch"
    /\ d \in todo
    /\ \/ Cancelled /\ UNCHANGED file
       \/ /\ Mine
          /\ todo' = todo \ {d}
          /\ IF owner[cur.task] = me /\ d \in Pending(status[cur.task], attempts[cur.task])
             THEN /\ status' = [status EXCEPT ![cur.task][d] = "sending"]
                  /\ attempts' = [attempts EXCEPT ![cur.task][d] = NextAttempt(@)]
                  /\ left' = [left EXCEPT ![cur.task] = ClaimTTL]
                  /\ dest' = d
                  /\ pc' = "sending"
             ELSE UNCHANGED <<status, attempts, left, dest, pc>>
          /\ UNCHANGED <<life, occ, due, failure, claim, owner, cur, round, erred, outcome>>
    /\ UNCHANGED <<me, resume, fresh, snap, world>>

\* WhatsApp takes the message; the page may still fail before it says so.
Accept ==
    /\ pc = "sending"
    /\ accepted' = [accepted EXCEPT ![cur.task][dest] = @ + 1]
    /\ erred' \in (IF LostAcks THEN {FALSE, TRUE} ELSE {FALSE})
    /\ pc' = "sent"
    /\ UNCHANGED <<file, me, resume, fresh, snap, cur, round, todo, dest, outcome, lastClaim, crashes, faults>>

\* The send throws, or there is no dedicated client.
Reject ==
    /\ pc = "sending"
    /\ erred' = TRUE
    /\ pc' = "sent"
    /\ UNCHANGED <<file, me, resume, fresh, snap, cur, round, todo, dest, outcome, world>>

\* What an attempt leaves in the claim.
SettledAs(threw, tries) ==
    IF ~threw THEN "delivered" ELSE IF tries >= MaxAttempts THEN "failed" ELSE "pending"

\* _settleDestinationDelivery throws when the claim is gone, and the task is
\* then left as it is.
Settle ==
    /\ pc = "sent"
    /\ IF Mine /\ status[cur.task][dest] = "sending"
       THEN /\ status' = [status EXCEPT ![cur.task][dest] = SettledAs(erred, attempts[cur.task][dest])]
            /\ left' = [left EXCEPT ![cur.task] = ClaimTTL]
            /\ pc' = "dispatch"
            /\ dest' = NoDest
            /\ erred' = FALSE
            /\ UNCHANGED <<life, occ, due, failure, claim, owner, attempts, cur, round, todo, outcome>>
       ELSE pc' = "pick" /\ Forget /\ UNCHANGED file
    /\ UNCHANGED <<me, resume, fresh, snap, world>>

\* Fault: the outcome is what it was when the task was taken.
OutcomeAsTaken == outcome
\* What the claim says when the last round is over.
OutcomeNow == AllDelivered(cur.task, status[cur.task])

\* End of a round: another one while a destination may be retried.
EndRound ==
    /\ pc = "dispatch"
    /\ todo = {}
    /\ \/ Cancelled
       \/ /\ Mine
          /\ IF Pending(status[cur.task], attempts[cur.task]) # {} /\ round < MaxAttempts
             THEN pc' = "round" /\ round' = round + 1 /\ outcome' = outcome
             ELSE pc' = "finalise" /\ round' = round /\ outcome' = OutcomeNow
          /\ UNCHANGED <<cur, todo, dest, erred>>
    /\ UNCHANGED <<file, me, resume, fresh, snap, world>>

\* Fault: the next occurrence is not compared with UNTIL.
ContinuesPastUntil(t) == t \in Recurring
\* advanceOccurrenceBeyond finds a next occurrence of the task.
Continues(t) == t \in Recurring /\ occ[t] < MaxOcc

\* _finalizeClaimedTask: only under the claim the task was taken with.
Finalise ==
    LET t == cur.task IN
    /\ pc = "finalise"
    /\ IF ~Mine THEN UNCHANGED <<file, accepted>>
       ELSE /\ DropClaim(t)
            /\ failure' = [failure EXCEPT ![t] = t \notin Recurring /\ ~outcome]
            /\ IF Continues(t)
               THEN /\ occ' = [occ EXCEPT ![t] = @ + 1]
                    /\ due' = [due EXCEPT ![t] = FALSE]
                    /\ accepted' = [accepted EXCEPT ![t] = [d \in Dests |-> 0]]
                    /\ life' = life
               ELSE /\ life' = [life EXCEPT ![t] = IF t \in Recurring THEN "ended"
                                                  ELSE IF outcome THEN "done" ELSE "stored"]
                    /\ UNCHANGED <<occ, due, accepted>>
    /\ pc' = "pick"
    /\ Forget
    /\ UNCHANGED <<me, resume, fresh, snap, lastClaim, crashes, faults>>

\* A read or a write throws: the cycle goes on to the next task of the file,
\* or leaves the file alone when it could not even prepare it.
IoFails ==
    /\ faults < MaxFaults
    /\ faults' = faults + 1
    /\ \/ pc = "idle" /\ UNCHANGED <<pc, resume, fresh>>
       \/ /\ pc = "pick" /\ resume = {}
          /\ \E t \in fresh : fresh' = fresh \ {t}
          /\ UNCHANGED <<pc, resume>>
       \/ /\ pc \in {"round", "dispatch", "sent", "finalise"}
          /\ pc' = "pick"
          /\ UNCHANGED <<resume, fresh>>
    /\ Forget
    /\ UNCHANGED <<file, me, snap, accepted, lastClaim, crashes>>

\* The process dies, wherever it is, and the next one has an id of its own.
Crash ==
    /\ pc # "down"
    /\ crashes < MaxCrashes
    /\ crashes' = crashes + 1
    /\ pc' = "down"
    /\ resume' = {} /\ fresh' = {} /\ snap' = NoSnap
    /\ Forget
    /\ UNCHANGED <<file, me, accepted, lastClaim, faults>>

Restart ==
    /\ pc = "down"
    /\ pc' = "idle"
    /\ me' = me + 1
    /\ UNCHANGED <<file, resume, fresh, snap, cur, round, todo, dest, erred, outcome, world>>

----
(* The tools, the wipe and the clock. *)

\* persistScheduledTaskGroups stores what scheduleTasks built.
Create(t) ==
    /\ pc # "down"
    /\ life[t] = "new"
    /\ life' = [life EXCEPT ![t] = "stored"]
    /\ UNCHANGED <<occ, due, failure, claim, owner, left, status, attempts, me, cycle, world>>

ComesDue(t) ==
    /\ life[t] = "stored"
    /\ ~due[t]
    /\ due' = [due EXCEPT ![t] = TRUE]
    /\ UNCHANGED <<life, occ, failure, claim, owner, left, status, attempts, me, cycle, world>>

\* Fault: removal does not look at what is being sent.
RemoveAnyway(t) ==
    /\ pc # "down"
    /\ life[t] = "stored"
    /\ life' = [life EXCEPT ![t] = "removed"]
    /\ DropClaim(t)
    /\ UNCHANGED <<occ, due, failure, me, cycle, world>>
\* removeTasks, refused while a destination of the task is being sent to.
Remove(t) ==
    /\ pc # "down"
    /\ life[t] = "stored"
    /\ \A d \in Dests : status[t][d] # "sending"
    /\ life' = [life EXCEPT ![t] = "removed"]
    /\ DropClaim(t)
    /\ UNCHANGED <<occ, due, failure, me, cycle, world>>

\* deleteTaskFile, called by the privacy wipe, asks nothing.
Wipe ==
    /\ pc # "down"
    /\ \E t \in Tasks : life[t] = "stored"
    /\ life' = [t \in Tasks |-> IF life[t] = "stored" THEN "wiped" ELSE life[t]]
    /\ claim' = [t \in Tasks |-> NoClaim]
    /\ owner' = [t \in Tasks |-> 0]
    /\ left' = [t \in Tasks |-> 0]
    /\ status' = [t \in Tasks |-> NoStates]
    /\ attempts' = [t \in Tasks |-> [d \in Dests |-> 0]]
    /\ UNCHANGED <<occ, due, failure, me, cycle, world>>

Down(x) == IF x > 0 THEN x - 1 ELSE 0

Tick ==
    /\ \E t \in Tasks : left[t] > 0
    /\ left' = [t \in Tasks |-> Down(left[t])]
    /\ UNCHANGED <<life, occ, due, failure, claim, owner, status, attempts, me, cycle, world>>

----
Delivery ==
    \/ Prepare \/ EndCycle
    \/ \E t \in Tasks : PickClaim(t) \/ PassBy(t) \/ PickDue(t)
    \/ ReadRound
    \/ \E d \in Dests : Begin(d)
    \/ Settle \/ EndRound \/ Finalise

Next ==
    \/ Delivery
    \/ Accept \/ Reject
    \/ IoFails
    \/ Crash \/ Restart
    \/ \E t \in Tasks : Create(t) \/ ComesDue(t) \/ Remove(t)
    \/ Wipe
    \/ Tick

Spec == Init /\ [][Next]_vars

\* The scheduler's interval and its promises keep running, a send returns (the
\* browser's protocolTimeout), the process supervisor restarts a dead process,
\* and time passes.  Nothing is assumed of users, crashes and failing disks.
FairSpec ==
    /\ Spec
    /\ WF_vars(Delivery)
    /\ WF_vars(Accept \/ Reject)
    /\ WF_vars(Restart)
    /\ WF_vars(Tick)

----
(* Properties. *)

\* While a send that threw was not accepted, WhatsApp accepts one occurrence of
\* a reminder at most once per destination, through retries, failed writes and
\* crashes between the send and its record (what the sending state is for).
AtMostOnce == ~LostAcks => \A t \in Tasks, d \in Dests : accepted[t][d] <= 1

\* A failure is only reported of a reminder that reached every destination when
\* the process died or the file could not be written in between.
FailureIsHonest ==
    \A t \in Tasks : failure[t] /\ (\A d \in DestsOf[t] : accepted[t][d] > 0) /\ DestsOf[t] # {}
                       => LostAcks \/ crashes + faults > 0

\* Even a send that throws after it was accepted is not repeated past
\* TASK_DELIVERY_MAX_ATTEMPTS, counted across crashes.
AttemptsBoundSends == \A t \in Tasks, d \in Dests : accepted[t][d] <= MaxAttempts

\* Within a claim, what a destination's delivery came to is never revised: no
\* recovery, retry or late settlement turns it into something to send again.
SettledStays ==
    [][\A t \in Tasks, d \in Dests :
          claim[t] # NoClaim /\ claim'[t] = claim[t] /\ status[t][d] \in Final
              => status'[t][d] = status[t][d]]_vars

\* A claim that another instance touched less than ClaimTTL ago is left to it:
\* nothing is sent, settled or finalised under it.
OthersClaimWaits ==
    [][\A t \in Tasks :
          claim[t] # NoClaim /\ owner[t] # me /\ left[t] > 0 /\ life'[t] = "stored"
              => claim'[t] = claim[t] /\ owner'[t] = owner[t] /\ status'[t] = status[t]]_vars

Promise == INSTANCE ReminderPromise WITH
    failed <- failure,
    got <- [t \in Tasks |-> {d \in Dests : accepted[t][d] > 0}]

\* The scheduler keeps the promise of ReminderPromise: nothing reaches a
\* destination after the reminder failed or was removed by its owner, and none
\* disappears as delivered that some destination did not get.
KeepsPromise == Promise!Spec

\* A reminder whose time came is delivered, reported as failed or moved to its
\* next occurrence in the end (or its owner removes it), although the process
\* that claimed it may have died and left the claim behind.
DueIsSettled ==
    \A t \in Tasks : (life[t] = "stored" /\ due[t] /\ ~failure[t])
                       ~> (life[t] # "stored" \/ ~due[t] \/ failure[t])
====
