---- MODULE MCServices ----
(***************************************************************************)
(* Small instances of what serves a turn and of the services beside it.    *)
(* These components share no variable with one another, so a behaviour in  *)
(* which one of them moves shows all there is to see of it: part names the *)
(* one that does, and for the life of the process the account whose client *)
(* moves beside it.                                                        *)
(***************************************************************************)
EXTENDS AgentTurn, ModelCall, ServiceCall, MediaQuota, CredentialRing, Lifecycle, Notices,
        Recurrence, Minecraft, Preferences, TLC

CONSTANTS t1, t2, j1, j2, k1, k2, n1, n2

VARIABLE part

OneEach == [kind \in Media |-> 1]

(* A year of four short months of different lengths, and rules that go     *)
(* past each of them.                                                      *)
ShortMonths == <<5, 2, 4, 3>>
SomeRules == [freq : {"HOURLY", "DAILY", "WEEKLY", "MONTHLY"}, interval : {1, 3},
              byday : {{}, {0}, {1, 2}}, exdate : {{}, {6, 7}}, until : {NoTime, 12}]
SomeStarts == 4..30

MCInit ==
    /\ part \in {"turn", "call", "service", "quota", "ring", "release", "wrap", "report", "alert",
                 "schedule", "minecraft", "prefs"} \cup Accounts
    /\ TurnInit /\ CallInit /\ ServiceInit /\ QuotaInit /\ RingInit /\ LifeInit /\ NoticeInit
    /\ RecInit /\ MinecraftInit /\ PrefInit
    /\ part # "turn" => engine = "claude"
    /\ bound = "xai"
    /\ part # "ring" => service = "cartesia"
    /\ part # "report" => ~lined
    /\ part # "minecraft" => power = "off"

(* The second turn matters for the Claude slots alone, calls no tools and  *)
(* is not there during a longest round of the first; the second media job  *)
(* is an image without references; a transcription runs alone, and so do   *)
(* the calls to Workers AI once a write has failed and those of a second   *)
(* period; the second chat's subscription is changed by one number, and    *)
(* the second chat that waits for Minecraft stops no server.               *)
TurnBound ==
    /\ engine = "responses" => UNCHANGED <<turn[t2], batch[t2]>>
    /\ batch[t2]' = <<>>
    /\ Len(batch[t1]') = MaxBatch => turn'[t2].pc = "idle"
QuotaBound == job'[j2].kind \in {"none", "image"} /\ ~job'[j2].refs
RingBound ==
    /\ ~rcall'[k2].stt
    /\ rcall'[k1].stt \/ period' > 0 \/ (service = "cloudflare" /\ unsaved'.here) => rcall'[k2].pc = "idle"
MinecraftBound == handler'[k2] = "none"
ReleaseBound == change'.next[2] # n1 /\ (change'.next[1] # n2 \/ change'.next[2] = n2)

Moves(p, Next, vars) == IF part = p THEN Next ELSE UNCHANGED vars

MCNext ==
    /\ UNCHANGED part
    /\ Moves("turn", TurnNext /\ TurnBound, turnVars)
    /\ Moves("call", CallNext, callVars)
    /\ Moves("service", ServiceNext, serviceVars)
    /\ Moves("quota", QuotaNext /\ QuotaBound, quotaVars)
    /\ Moves("ring", RingNext /\ RingBound, ringVars)
    /\ Moves("schedule", RecNext, recVars)
    /\ Moves("minecraft", MinecraftNext /\ MinecraftBound, mcVars)
    /\ Moves("prefs", PrefNext, prefVars)
    /\ IF part \in Accounts THEN ProcessNext \/ \E a \in Accounts : a = part /\ ClientNext(a)
                            ELSE UNCHANGED lifeVars
    /\ CASE part = "release" -> ReleaseNext /\ ReleaseBound /\ UNCHANGED <<wrapVars, reportVars, alert>>
         [] part = "wrap" -> WrapNext /\ UNCHANGED <<releaseVars, reportVars, alert>>
         [] part = "report" -> ReportNext /\ UNCHANGED <<releaseVars, wrapVars, alert>>
         [] part = "alert" -> AlertNext /\ UNCHANGED <<releaseVars, wrapVars, reportVars>>
         [] OTHER -> UNCHANGED noticeVars

MCFairness ==
    /\ \A t \in Turns :
          /\ WF_turnVars(part = "turn" /\ WorkExpires(t)) /\ WF_turnVars(part = "turn" /\ RootExpires(t))
          /\ WF_turnVars(part = "turn" /\ TurnProceeds(t)) /\ WF_turnVars(part = "turn" /\ ModelAnswers(t))
          /\ WF_turnVars(part = "turn" /\ ToolStarts(t)) /\ WF_turnVars(part = "turn" /\ ToolEnds(t))
    /\ \A a \in Accounts :
          /\ WF_lifeVars(part = a /\ InitializeSettles(a)) /\ WF_lifeVars(part = a /\ ReconnectTimerFires(a))
          /\ WF_lifeVars(part = a /\ WatchdogFires(a)) /\ WF_lifeVars(part = a /\ LivenessCheckFails(a))
    /\ WF_lifeVars(part \in Accounts /\ StartClients) /\ WF_lifeVars(part \in Accounts /\ Recovers)
    /\ WF_lifeVars(part \in Accounts /\ Stops)
    /\ WF_noticeVars(part = "release" /\ OutboxGoesOn /\ UNCHANGED <<wrapVars, reportVars, alert>>)

MCSpec ==
    /\ MCInit
    /\ [][MCNext]_<<part, turnVars, callVars, serviceVars, quotaVars, ringVars, lifeVars, noticeVars,
                    recVars, mcVars, prefVars>>
    /\ MCFairness

(* The variables of the part that moves are of the shapes its code has     *)
(* branches for; the others never leave their initial states.              *)
TypeOK ==
    /\ part = "turn" => TurnTypeOK
    /\ part = "call" => CallTypeOK
    /\ part = "service" => ServiceTypeOK
    /\ part = "quota" => QuotaTypeOK
    /\ part = "ring" => RingTypeOK
    /\ part \in Accounts => LifeTypeOK
    /\ part \in {"release", "wrap", "report", "alert"} => NoticeTypeOK
    /\ part = "schedule" => RecTypeOK
    /\ part = "minecraft" => MinecraftTypeOK
    /\ part = "prefs" => PrefTypeOK

(* A call that changes something runs alone and after every call before    *)
(* it; reads overlap within their limit and a capped tool runs once a      *)
(* round; and the slots of the Claude runtime are those of the queries     *)
(* that run, none kept and none free with a turn waiting.                  *)
RoundsKept == part = "turn" => RoundContract /\ SlotsHeld

(* A model call gives the whole answer or none, replays no paid output, a  *)
(* media call stays within its retries and blames the account it used.     *)
CallIsHonest ==
    /\ [](part = "call" => AnswerIsWhole) /\ ReplaysNothing
    /\ RetriesBounded /\ BlameIsEarned

(* No allowance is given twice or lost, whatever fails in between.         *)
AllowancesKept ==
    /\ part = "quota" => QuotaExact
    /\ part = "ring" => RingRemembers

(* A WhatsApp client that failed comes back, or the process ends for its   *)
(* supervisor to start again.                                              *)
NeverGivenUp == part \in Accounts => ComesBack

(* Whoever is owed a notice gets it, and hears it again for a cause only;  *)
(* and the preferences the monthly one asks about are those that were set. *)
NoticesKept ==
    /\ ReleaseReachesAll
    /\ [](part = "release" => RepeatsHaveACause /\ SubscriptionsKept)
    /\ [](part \in {"wrap", "report"} => MonthlyDone)
    /\ [](part = "alert" => AlertsSpaced)
    /\ [](part = "prefs" => PreferencesKept) /\ ReviewedOnce

(* A series goes on at the dates of its rule.                              *)
ScheduleKept == part = "schedule" => OnSchedule

(* The server is started once at a time, whoever asked hears of the same   *)
(* start, and its world is saved before it goes.                           *)
MinecraftKept == part = "minecraft" => StartedOnce /\ SameProgress /\ WorldIsSaved
====
