---- MODULE MediaQuota ----
(***************************************************************************)
(* The generations of one user and the quota they draw on:                 *)
(* utils/mediaUsageLimits.js over utils/systemState.js, and the tools that *)
(* reserve a slot, tools/imagineGenerator.js (images over the backends of  *)
(* media/imageBackends.js, videos over media/xaiImagineClient.js) and      *)
(* tools/musicCreator.js with its executor.                                *)
(*                                                                         *)
(* A day is a number.  Videos and songs count by the week.  An update of   *)
(* the state file is one step: it runs under the file's lock and replaces  *)
(* the file by a rename, or throws and leaves it as it was.                *)
(***************************************************************************)
EXTENDS Integers, FiniteSets

CONSTANTS
    Jobs,       \* tool calls under way at one time
    Limit,      \* MEDIA_LIMITS, per kind
    Week,       \* days of a week
    LastDay,    \* bound on the clock
    Max429      \* MAX_CONSECUTIVE_429_POLLS

Media == {"image", "video", "song"}

ASSUME QuotaConstants ==
    /\ Limit \in [Media -> Nat \ {0}] /\ Week \in Nat \ {0} /\ LastDay \in Nat /\ Max429 \in Nat \ {0}
    /\ IsFiniteSet(Jobs)

VARIABLES
    day,      \* the clock, as the resets see it
    usage,    \* the user's record in systemState.json
    kept,     \* per kind: slots of this period used up, by a success or for want of a refund
    job,      \* the tool calls
    bound,    \* the image backend of the profile
    cool,     \* image backends in cooldown
    generating   \* the user is in pendingGenerations

quotaVars == <<day, usage, kept, job, bound, cool, generating>>

NoJob == [pc |-> "idle", kind |-> "none", period |-> -1, refs |-> FALSE, fallback |-> "none",
          backend |-> "none", polls |-> 0]

Backends == {"xai", "cloudflare"}

QuotaTypeOK ==
    /\ day \in 0..LastDay
    /\ usage \in [Media -> [period : -1..LastDay, used : Nat]]
    /\ kept \in [Media -> Nat]
    /\ job \in [Jobs -> [pc : {"idle", "reserve", "first", "again", "second", "refs", "submit", "poll",
                               "fetch", "song", "stage", "release"},
                         kind : Media \cup {"none"}, period : -1..LastDay, refs : BOOLEAN,
                         fallback : Backends \cup {"none"}, backend : Backends \cup {"none"},
                         polls : 0..Max429]]
    /\ bound \in Backends /\ cool \subseteq Backends /\ generating \in BOOLEAN

(* currentPeriodKey: the day of the last reset.                            *)
PeriodKey(kind, d) == IF kind = "image" THEN d ELSE (d \div Week) * Week
Period(kind) == PeriodKey(kind, day)

NoUse == [period |-> -1, used |-> 0]

UsedCount(kind) == IF usage[kind].period = Period(kind) THEN usage[kind].used ELSE 0

(* _prune: counters of past periods are dropped.                           *)
Prune == [kind \in Media |-> IF UsedCount(kind) > 0 THEN usage[kind] ELSE NoUse]

QuotaInit ==
    /\ day = 0
    /\ usage = [kind \in Media |-> NoUse]
    /\ kept = [kind \in Media |-> 0]
    /\ job = [j \in Jobs |-> NoJob]
    /\ bound \in Backends
    /\ cool = {}
    /\ generating = FALSE

StillHeld(kind) == {j \in Jobs : job[j].kind = kind /\ job[j].period = Period(kind)}

RollOver ==
    /\ day < LastDay
    /\ day' = day + 1
    /\ kept' = [kind \in Media |-> IF PeriodKey(kind, day + 1) = Period(kind) THEN kept[kind] ELSE 0]
    /\ UNCHANGED <<usage, job, bound, cool, generating>>

(* The process ends: its reservations stay counted, and nobody refunds     *)
(* them.                                                                   *)
QuotaCrash ==
    /\ job # [j \in Jobs |-> NoJob]
    /\ kept' = [kind \in Media |-> kept[kind] + Cardinality(StillHeld(kind))]
    /\ job' = [j \in Jobs |-> NoJob]
    /\ cool' = {} /\ generating' = FALSE
    /\ UNCHANGED <<day, usage, bound>>

(***************************************************************************)
(* Image backends.                                                         *)
(***************************************************************************)
FallbackOf(b) == IF b = "xai" THEN "cloudflare" ELSE "none"
Primary == IF bound \notin cool THEN bound ELSE IF FallbackOf(bound) \notin cool THEN FallbackOf(bound) ELSE "none"
Behind == IF bound \notin cool /\ FallbackOf(bound) \notin cool THEN FallbackOf(bound) ELSE "none"

(* An edit of reference images never moves from xAI to FLUX.               *)
CanUse(target, refs) == target = bound \/ (bound = "xai" /\ target = "cloudflare" /\ ~refs)

Codes == {"CONTENT_POLICY", "RATE_LIMIT", "BUDGET", "AUTH", "TRANSIENT", "MALFORMED"}
FallsBack(code) == code # "CONTENT_POLICY"
Retries(code) == code \in {"AUTH", "TRANSIENT"}
Cools(code) == code \in {"RATE_LIMIT", "BUDGET"}

(* What a backend answers.  xAI's failures are told apart by their words,  *)
(* and an answer without an image is malformed; Workers AI also says that  *)
(* its free allowance is spent.                                            *)
XaiImage == {"ok", "CONTENT_POLICY", "RATE_LIMIT", "AUTH", "TRANSIENT", "MALFORMED", "ABORT"}
FluxImage == {"ok", "ABORT"} \cup Codes
ImageAnswers(b) == IF b = "xai" THEN XaiImage ELSE FluxImage

CooldownEnds(b) ==
    /\ b \in cool /\ cool' = cool \ {b}
    /\ UNCHANGED <<day, usage, kept, job, bound, generating>>

(***************************************************************************)
(* The three tools up to their reservation.                                *)
(***************************************************************************)
GenerateImage(j, refs) ==
    /\ job[j].pc = "idle" /\ Primary # "none"
    /\ job' = [job EXCEPT ![j] = [NoJob EXCEPT !.pc = "reserve", !.kind = "image", !.refs = refs,
                                               !.backend = Primary, !.fallback = Behind]]
    /\ UNCHANGED <<day, usage, kept, bound, cool, generating>>

GenerateVideo(j) ==
    /\ job[j].pc = "idle"
    /\ job' = [job EXCEPT ![j] = [NoJob EXCEPT !.pc = "reserve", !.kind = "video"]]
    /\ UNCHANGED <<day, usage, kept, bound, cool, generating>>

(* The test on pendingGenerations comes before the reservation is awaited, *)
(* the addition after it.                                                  *)
MusicCreator(j) ==
    /\ job[j].pc = "idle" /\ ~generating
    /\ job' = [job EXCEPT ![j] = [NoJob EXCEPT !.pc = "reserve", !.kind = "song"]]
    /\ UNCHANGED <<day, usage, kept, bound, cool, generating>>

FirstStep(kind) == CASE kind = "image" -> "first" [] kind = "video" -> "refs" [] OTHER -> "song"

(* reserveMediaQuota.                                                      *)
Reserve(j) ==
    LET kind == job[j].kind IN
    /\ job[j].pc = "reserve"
    /\ UNCHANGED <<day, kept, bound, cool>>
    /\ IF UsedCount(kind) >= Limit[kind]
       THEN usage' = Prune /\ job' = [job EXCEPT ![j] = NoJob] /\ UNCHANGED generating
       ELSE /\ usage' = [Prune EXCEPT ![kind] = [period |-> Period(kind), used |-> UsedCount(kind) + 1]]
            /\ job' = [job EXCEPT ![j].pc = FirstStep(kind), ![j].period = Period(kind)]
            /\ generating' = (generating \/ kind = "song")

(* The state cannot be read or written: update throws.                     *)
ReserveThrows(j) ==
    /\ job[j].pc = "reserve"
    /\ job' = [job EXCEPT ![j] = NoJob]
    /\ UNCHANGED <<day, usage, kept, bound, cool, generating>>

Goes(j, pc) == job' = [job EXCEPT ![j].pc = pc]
Leaves(j, pc) == job' = [job EXCEPT ![j] = [NoJob EXCEPT !.pc = pc, !.kind = job[j].kind, !.period = job[j].period]]

(***************************************************************************)
(* _runImageChain: the primary, once more after a credential or transient  *)
(* failure, then the fallback.  "ABORT" is the end of the turn.            *)
(***************************************************************************)
TryFallback(j) ==
    IF job[j].fallback # "none" /\ CanUse(job[j].fallback, job[j].refs)
    THEN job' = [job EXCEPT ![j].pc = "second", ![j].backend = job[j].fallback]
    ELSE Leaves(j, "release")

ImageUnavailable(j) ==
    /\ job[j].pc = "first" /\ ~CanUse(job[j].backend, job[j].refs)
    /\ Leaves(j, "release")
    /\ UNCHANGED <<day, usage, kept, bound, cool, generating>>

ImageAttempt(j, outcome) ==
    /\ job[j].pc \in {"first", "again", "second"} /\ CanUse(job[j].backend, job[j].refs)
    /\ outcome \in ImageAnswers(job[j].backend)
    /\ UNCHANGED <<day, usage, kept, bound, generating>>
    /\ cool' = IF job[j].pc # "second" /\ Cools(outcome) THEN cool \cup {job[j].backend} ELSE cool
    /\ IF outcome = "ok" THEN Leaves(j, "stage")
       ELSE IF outcome = "ABORT" \/ job[j].pc = "second" THEN Leaves(j, "release")
       ELSE IF job[j].pc = "first" /\ Retries(outcome) THEN Goes(j, "again")
       ELSE IF FallsBack(outcome) THEN TryFallback(j)
       ELSE Leaves(j, "release")

(***************************************************************************)
(* A video is submitted, polled and downloaded; a song is streamed and     *)
(* transcoded.  Each may fail, and stops with the turn.                    *)
(***************************************************************************)
VideoSteps == [refs |-> "submit", submit |-> "poll", poll |-> "fetch", fetch |-> "stage"]

VideoStep(j, ok) ==
    /\ job[j].pc \in DOMAIN VideoSteps
    /\ Leaves(j, IF ok THEN VideoSteps[job[j].pc] ELSE "release")
    /\ UNCHANGED <<day, usage, kept, bound, cool, generating>>

(* A poll that says nothing yet.  A run of 429 answers ends the wait.      *)
PollAgain(j, limited) ==
    /\ job[j].pc = "poll"
    /\ IF limited /\ job[j].polls + 1 >= Max429 THEN Leaves(j, "release")
       ELSE job' = [job EXCEPT ![j].polls = IF limited THEN @ + 1 ELSE 0]
    /\ UNCHANGED <<day, usage, kept, bound, cool, generating>>

(* musicCreator hands its reservation to the executor, which stages; what  *)
(* fails before releases it here.  Either way the pending mark goes.       *)
SongStep(j, ok) ==
    /\ job[j].pc = "song"
    /\ Leaves(j, IF ok THEN "stage" ELSE "release")
    /\ generating' = FALSE
    /\ UNCHANGED <<day, usage, kept, bound, cool>>

(* Staged and committed, or not staged.                                    *)
StageAndCommit(j, ok) ==
    /\ job[j].pc = "stage"
    /\ IF ok
       THEN /\ job' = [job EXCEPT ![j] = NoJob]
            /\ kept' = IF job[j].period = Period(job[j].kind) THEN [kept EXCEPT ![job[j].kind] = @ + 1] ELSE kept
       ELSE Leaves(j, "release") /\ UNCHANGED kept
    /\ UNCHANGED <<day, usage, bound, cool, generating>>

\* Fault: the refund goes to whatever period it is.
RefundNow(j, written) ==
    LET kind == job[j].kind
        now == job[j].period = Period(kind)
    IN  /\ job[j].pc = "release"
        /\ job' = [job EXCEPT ![j] = NoJob]
        /\ usage' = IF written /\ UsedCount(kind) > 0 THEN [usage EXCEPT ![kind].used = @ - 1] ELSE usage
        /\ kept' = IF ~written /\ now THEN [kept EXCEPT ![kind] = @ + 1] ELSE kept
        /\ UNCHANGED <<day, bound, cool, generating>>

(* refundMediaQuota, in the finally of every tool.  A refund that cannot   *)
(* be written is only logged.                                              *)
ReleaseHandle(j, written) ==
    LET kind == job[j].kind
        now == job[j].period = Period(kind)
        mine == usage[kind].period = job[j].period
    IN  /\ job[j].pc = "release"
        /\ job' = [job EXCEPT ![j] = NoJob]
        /\ usage' = IF written /\ mine /\ UsedCount(kind) > 0
                    THEN [usage EXCEPT ![kind].used = @ - 1] ELSE usage
        /\ kept' = IF ~written /\ now THEN [kept EXCEPT ![kind] = @ + 1] ELSE kept
        /\ UNCHANGED <<day, bound, cool, generating>>

QuotaNext ==
    \/ RollOver \/ QuotaCrash
    \/ \E b \in Backends : CooldownEnds(b)
    \/ \E j \in Jobs :
         \/ GenerateVideo(j) \/ MusicCreator(j) \/ Reserve(j) \/ ReserveThrows(j) \/ ImageUnavailable(j)
         \/ \E outcome \in Codes \cup {"ok", "ABORT"} : ImageAttempt(j, outcome)
         \/ \E b \in BOOLEAN : \/ GenerateImage(j, b) \/ VideoStep(j, b) \/ PollAgain(j, b)
                               \/ SongStep(j, b) \/ StageAndCommit(j, b) \/ ReleaseHandle(j, b)

QuotaSpec == QuotaInit /\ [][QuotaNext]_quotaVars

(***************************************************************************)
(* Properties.                                                             *)
(***************************************************************************)

(* In every period the count on disk is what was really drawn in it: the   *)
(* generations that succeeded, those under way, and the slots whose refund *)
(* was lost.  So no limit is passed, and a refund that comes after the     *)
(* reset gives the new period nothing.                                     *)
QuotaExact ==
    \A kind \in Media :
        /\ UsedCount(kind) = kept[kind] + Cardinality(StillHeld(kind))
        /\ UsedCount(kind) <= Limit[kind]
====
