# GemiX in TLA+

Specifications of the parts of GemiX whose correctness depends on the order of
steps: when a chat answers, what a reminder does across crashes, how two
processes share single-use OAuth tokens, how containers and files survive
concurrent tools, what a reply, a quota or a notice amounts to when one step of
it fails. Each part has a specification
translated from its source, instances checked by TLC, and theorems checked by
TLAPS for all values of the constants. Paths below are relative to `src/` of
the repository (`utils/responseLock.js` and so on).

To check an instance: `tlc -config MCChatTurn.cfg MCChatTurn`.
To check the proofs of a module: `tlapm ChatTurnProofs.tla`.
`PROJECT.json` lists the components, the runs with their properties, the
mutants, the source lines of every definition, the hazards of the code and the
theorems.

## 1. The system

GemiX is one Node.js process that answers on WhatsApp (a dedicated account, and
optionally the owner's) and on Discord, runs an agent loop against a model
provider, delivers scheduled reminders and gives the model a container per
user. A second process, the auth CLI (`scripts/gemix-auth.js`), edits the
credential pools beside it. Inside a process everything between two awaits is
atomic; the interesting orders come from awaits, timers, the other process and
process deaths.

| Component | State it keeps | Operations | Talks to | Hard behaviour | What makes it correct |
|---|---|---|---|---|---|
| Turn ingress: `utils/responseLock.js`, `liveInbox.js`, `turnPipeline.js`, `batchIngress.js`, `messageBatcher.js` | `locks` (lease, expiry and renewal timers), `_batches`, `_inboxes`, phase of each turn | tryLock, refresh, startAutoRenew, unlock; push, fire; open, record, drain, clear; runTurnPipeline | adapters call it, it calls the agent loop and delivery | four timers, messages during a turn, turns that hang past the renewal ceiling | one turn per chat; no message lost in a lease or shown twice; the chat answers again |
| Privacy gate, consent, wipe: `platforms/whatsapp/privacyGate.js`, `utils/privacyConsent.js`, `privacyWipe.js` | consent registry; everything a wipe deletes | interceptTurn, markInformed, wipeWhatsAppUserData | runs inside a turn; deletes the task file under the scheduler | steps that fail alone, a wipe beside other work | what is wiped is not shown or sent again |
| Reminders: `scheduler/engine.js`, `utils/taskStore.js`, `tools/scheduler.js`, `taskRemover.js`, `whatsappSender.js` | one JSON file per user with claims, attempts, destination states; `_cycleInFlight` | prepare, claim, begin, settle, finalise; create, remove, delete file | sends through the WhatsApp client | death between a send and its record, sends that throw after acceptance, stale claims, removal in mid-send | no occurrence twice, none forgotten, failures reported truthfully |
| OAuth credentials: `ai/credentials/*`, `utils/keyedLock.js`, `scripts/gemix-auth.js` | pool file, lock directory, refreshes in flight, job chain | get, refresh, markStatus, rotation; login, import, remove | token endpoint; the CLI edits the same file | single-use refresh tokens, two processes, stale locks, lost answers | no change lost, the token on disk is usable, only the refused account is blamed |
| Workspace containers: `sandbox/workspaceRuntime.js` | pool of container generations, boots, idle timer | getOrCreate, exec, reap, shutdown, shutdownAll, cleanupOrphanContainers | Docker, workspace tools | every await may replace the pool entry | at most one live container per workspace, the cap holds, no command loses its container to the reaper |
| Workspace files, lock, sweep: `tools/workspace/*`, `sandbox/workspaceFs.js`, `hostFileGateway.js`, `utils/workspaceState.js`, `ai/turnMaintenance.js` | the files, rollback copies, pending outputs, lock file, activity file | write, edit, shell, produced files, rollback, sweep, wipe | containers; the maintenance timer; the wipe | a lock that expires under its holder, a container replaced in mid-write, a full root | an edit loses nothing it did not mean to; a tool that reports failure left the files as they were; a batch is there in full or not at all |
| Quota guard: `sandbox/quota_guard.py` beside `src/` | sizes of the writable roots | poll, stop the processes | every writer in the container and the API | a poll now and then beside two kinds of writers | the overshoot is bounded |
| History and attachments: `utils/historySync.js`, `attachments/*` | history directory and metadata, projection, recent voice texts | sync, fetch, project, sweep, wipe; cache and claim a voice text | adapters, the sweep, the wipe | most files have the same name; failed metadata writes; deaths between two stores | a tag in the prompt names the bytes it was made for; a voice text belongs to one file |
| File reading and transcripts: `tools/workspace/readFile.js`, `parsers/*`, `attachments/voiceProjection.js`, `media/speechToText.js` | parser cache, transcripts | read_file, sweep; projection of voice notes | STT services | a file that changes between hash and parse, transient failures | a cached text is the text of those bytes |
| Media quota, system state: `utils/mediaUsageLimits.js`, `systemState.js`, `tools/imagineGenerator.js`, `musicCreator.js` | counts and reservations per period, cooldowns | reserve, commit, refund; backends and fallback | media services | a period that rolls over between reserve and refund | the limit holds per period |
| Free-tier key ring: `utils/credentialRing.js`, `media/cloudflareClient.js`, `cartesiaKeyRing.js` | current key, exhausted keys | next, markWorking, markExhausted, roll over | media clients | a state write that fails, concurrent calls | no spent key is used in its period, no good one is skipped |
| Agent loop: `handler.js`, `ai/engines/*`, `ai/toolRoundController.js`, `ai/claudeAgent/claudeTurnControl.js`, `utils/turnBudget.js`, `concurrency.js` | messages and tool results of a turn, deadlines, Claude slots | rounds, tool calls, wrap-up, final answer | providers, tools, live inbox | two deadlines, calls that outlive their turn, queued turns | effects alone and in order; nothing queued starts after the deadline; the turn ends |
| Provider transport: `ai/transport/*`, `ai/apiClient.js`, `ai/credentials/xaiServiceCredentials.js` | one request, its stream | send, read, retry, refresh, classify | provider APIs, credentials | a retry after a partial stream, an account rotated away meanwhile | no paid output is replayed, retries are bounded, blame is earned |
| WhatsApp clients, shutdown: `platforms/whatsapp/client.js`, `index.js`, `utils/processLifecycle.js`, `platforms/discord/client.js` | client handles, watchdogs, `shutdownStarted` | initialize, reconnect, recover, login, shutdown | everything | recovery racing a shutdown, a cut-off cleanup | no client left unwatched or given up; a recovery in order, and none after a shutdown began |
| Delivery: `platforms/whatsapp/responseDelivery.js`, `platforms/discord/*`, `utils/attachmentDelivery.js`, `deliveryReceipt.js`, `tools/whatsappSender.js`, `utils/sentMessagesStore.js` | receipt of a reply, audit of messages sent to others | send parts, fall back to links; reserve, send, record, prune | clients, temp files, the wipe | some parts accepted, others not | the receipt says what was accepted |
| Temp file server: `utils/tempFileServer.js` | tokens, staging directory | register, serve, expire, clean up | delivery, the tunnel | a sweep by age beside live links | a link handed out has its file until it is due |
| Monitors and notices: `scheduler/releaseMonitor.js`, `musicWrapMonitor.js`, `usageReportMonitor.js`, `utils/adminNotifier.js`, `tools/releaseNotify.js` | outbox, cursor, subscriptions, months | check, queue, send, record; subscribe; alert | clients, state file | a crash between a send and its record, overlapping ticks | each subscriber gets each release, the admin is neither flooded nor left out |
| Preferences: `utils/settingsStore.js`, `tools/preferences.js` | one settings file per user | edit, review notice, delete | turns, the wipe | a mark between an edit's read and its write | what was set stays set, a review is asked once |
| Recurrence: `utils/recurrence.js` | none | next occurrence, advance | scheduler, its tools | clock changes, short months, down-times | the dates are those of the rule |
| Minecraft: `minecraft/controller.js`, `pcAgent.js` | the operation under way, waiters, agent handlers | start, stop, shutdown | PC, script, server | three machines that answer late or not at all | one start at a time, every asker hears how it ended, the world is saved |
| Prompts, schemas, catalogues, web search, logs, egress proxy and skills | tables, or nothing across requests | | | pure data or I/O | not modelled |

`PROJECT.json` lists every component with its files and what is modelled of it,
and the hazards of the code, each with the properties that cover it or the
reason why none does.

## 2. Modules

```
ResponseLock   LiveInbox            ReminderPromise          StoreLock
        \        /                        ^ refines              |
         ChatTurn  --refines--> ChatSlot  TaskDelivery      CredentialStore
          |      \                         |       \          |         \
    MCChatTurn  ChatTurnProofs  MCTaskDelivery  TaskDeliveryProofs  MCCredentialStore  CredentialStoreProofs

MCWorkspace = WorkspacePool + WorkspaceTools + QuotaGuard + Attachments
            + FileReading + GemixVoice + Delivery + TempLinks
MCServices  = AgentTurn + ModelCall + ServiceCall + MediaQuota + CredentialRing
            + Lifecycle + Notices + Recurrence + Minecraft + Preferences

WorkspacePoolProofs, AgentTurnProofs   extend their components
WorkspaceProofs   extends MCWorkspace and WorkspacePoolProofs: the other components, and the composition
ServicesProofs    extends MCServices and AgentTurnProofs: likewise
FilteringProofs   about Filtering, the filter of a list that components and proofs share
```

The components of `MCWorkspace` share no variables, nor do those of
`MCServices`: in the code they meet only through values they hand to one another
(a path, a receipt, a credential), which each module receives as a
nondeterministic input. The run composes them by a variable `part`, fixed at the
start, that names the component which moves. A property of one component reads
its own variables only, so an interleaving with another's steps could show it
nothing new, and the run checks what as many separate runs would.

Definitions commented "Fault:" are not used by any specification: each is a
definition of the code with a plausible bug, and replacing the definition after
it by the fault must break a property (`mutants` in `PROJECT.json`).

### ResponseLock, LiveInbox, ChatTurn: one chat

All Maps involved are keyed by the chat, so the model has one chat of any
platform. Messages are numbered in order of arrival; a batch, its lease and its
turn are named by the message that opened them, as `lockId` names them in the
code.

* `ResponseLock`: `owner`/`left` is the entry of `locks` and the time to its
  `expiresAt`; `renewing`, `renewIn`, `renewUntil` are the interval of
  `startAutoRenew` and its `MAX_AUTO_RENEW_MS` ceiling. `Acquire`, `Refresh`,
  `Unlock`, `RenewTimer`, `ExpiryTimer` are the functions and timer callbacks.
* `LiveInbox`: the entry of `_inboxes`, with its sender restriction, capacity
  and notice flag.
* `ChatTurn`: `ArriveAny` is `enqueueBatchedTurn` for one message, whole up to
  where it returns: join the batch (which fires at the size cap), start one, or
  become a note. `FireBatch` is `_fire` with `_wrapBatchHandler` and
  `runTurnPipeline` up to the first await. `Wipe`, `NoticeDelivered`,
  `LoadHistory`, `Round`, `Answer`, `EndTurn` are the turn between its awaits;
  `EndTurn` is the `finally` block and possible anywhere, since every step may
  throw. `Tick` is time: countdowns go down together, a due timer runs at most
  `MaxLag` late.
* `ChatSlot`: what this promises. A chat is one slot that is free, collects,
  answers, and serves each message at most once and in order.

Time is counted in units in which the settings keep their order
(`RenewEvery < TTL`, both below `MaxAutoRenew`; `MaxWait` below the ceiling). A
turn leaves the phases outside `MayHang` before its renewal reaches the
ceiling: the rounds end with the turn budget, while nothing bounds a delivery.

Left out: the count of messages past the inbox cap (it only words the note);
mention and album rules (they decide whether a message reaches `ArriveAny`); a
speaker without an id, for which the filter of the batch keeps everything; the
wipe's steps over stores other than the chat, the consent and the reminders. A
wipe is one step here, its failures two independent choices.

### ReminderPromise, TaskDelivery: reminders

One task file. `life` ... `attempts` are the file: the task and its
`deliveryClaim`. `me`, `pc`, `resume`, `fresh`, `snap`, `cur`, `round`, `todo`,
`dest`, `erred`, `outcome` are the process: the instance id, the place in
`checkAndExecuteTasks` and its local variables, in particular the snapshot
(`existingClaims`) that the cycle keeps working from while the file changes
below it. `accepted` is what WhatsApp did.

`Prepare` is `_prepareDueTasks` with `recoverStaleDeliveryClaims`; `PickDue`
`_claimDueTask`; `Begin` `_beginDestinationDelivery`; `Accept`/`Reject` the two
ends of a send; `Settle`, `EndRound`, `Finalise` the rest of
`_executeClaimedTask` and `_finalizeClaimedTask`; `IoFails` a read or write
that throws in any of them; `Crash`/`Restart` a death anywhere and a new
instance id; `Create`, `Remove`, `Wipe` the tools and `deleteTaskFile`.

A `modifyTaskFile` is one step: it runs under the file's lock and replaces the
file by a rename. A send is two steps.

Left out: the dates of a series (an occurrence counter up to its UNTIL); the
branch of the engine for an excluded start date, which `scheduledTaskBuilder.js`
refuses and `advanceOccurrence` skips; malformed entries and their quarantine;
the retry of a send with fewer mentions inside `sendWhatsAppDirect` (part of
the send); texts. The order of tasks within a cycle is any order.

`ReminderPromise` is the same reminder as its owner sees it: a destination
receives an occurrence at most once, a one-time reminder disappears as
delivered only when every destination has it, one that failed or was removed
sends nothing more, a series only moves forward.

### StoreLock, CredentialStore: OAuth pools

* `StoreLock` is `_withFileLock` and `_reclaimStaleLock`, one action per system
  call, because the other process may run between any two: `MakeDir`,
  `WriteOwner`, `SeeStale`, `Reclaim`, the two halves of the `finally` block.
  `misfired` records that a reclaim has moved a directory that was not stale.
* `CredentialStore`: `pool` is the file; a token pair is a number and its refresh
  token is accepted once. `queue` is the chain of `withKeyedLock` per process,
  whose first job is at the lock; `Read`, `Accepted`, `AnswerLost`, `Refused`,
  `Write`, `WriteFails` are a job under the lock, with the exchange in the
  middle; `Release` ends it and resumes the requests that wait for it. `Get`,
  `Refresh`, `AfterRefused`, `Rotate`, `MarkStatus` are the provider's methods
  between their awaits, on the entries they read before them; `Upsert` and
  `Remove` are the CLI. `Crash` kills either process anywhere, and a token
  request it had sent may still be accepted.

Left out: accounts without a refresh token; the kinds of failure in
`lastStatus` (ok or not, though one failure may follow another); priorities
(among equally healthy accounts any may be first); a store file that cannot be
parsed; `isDescriptorConfigured`; the interactive login up to its first pair;
an import of a pair the pool has had before, which the CLI warns against. A
token handed over without a refresh changes nothing and is no step. Removing
the lock directory is one step. A lock directory grows old only when nobody
works under it: a holder's only wait is `TOKEN_TIMEOUT_MS`, a tenth of
`LOCK_STALE_MS`.

### WorkspacePool: the containers

`_pool` maps a workspace to a promise, a "generation": a boot that resolves to an
entry or a closing that resolves to null. `pool` is that map, `gen` every promise
with its kind, phase, the promise it waits for and the container it is to remove,
`box` the container a boot made, `age` the time since the entry's `lastUsedAt`,
`call` where each caller of `execInWorkspace` stands. The actions are the pieces
of `getOrCreate` between its awaits (a settled promise resumes each waiter in a
step of its own), the docker commands of boots and closings, which succeed or
fail, the end of a command, the reaper, `shutdown`, `shutdownAll` and the two
halves of `cleanupOrphanContainers`. Left out: the arguments of docker run.

### WorkspaceTools, QuotaGuard: the files of a workspace

`WorkspaceTools` has the lock with its expiry, one text file as the set of texts
in it, the rollback copies in the container, the pending directory and the files
published from it. A text write is a probe, an upload and a rename in the
container with the undoing of a write that failed; a produced batch is written to
the pending directory, published by one rename and counted. Commands may fail,
outlive their container (`mishaps`) or leave a background process that writes
(`spill`). The wipe stands for the sweep and for the privacy command, both of
which take the lock. The reaping of an expired lock by another process, three
system calls with an inode check between them, is one step here.

`QuotaGuard` has the sizes of the writable roots, the guard's last poll and the
time to the next (shorter, the less headroom), the commands that write at most
`WriteRate` a tick, and an API write, admitted against the size it measured
before.

### Attachments, GemixVoice, FileReading: what a prompt shows

`Attachments`: `disk` and `meta` are the history directory and
`history_meta.json`, `proj` the read-only projection, as maps from names to whose
bytes they hold. A turn syncs, fetches and projects each attachment in the code's
order under the history lock, may find any metadata read or write fail, and
shows tags when its request is built; the two hourly sweeps and the wipe run
between its steps; a death ends it anywhere.

`GemixVoice` is the cache of the texts of GemiX's own voice replies: a text is
cached when its audio is sent, its file claims the entry nearest in time when the
history is read, and the wipe drops those of a chat. Writes of the cache may fail.

`FileReading`: a read copies the file, hashes the copy, looks in the cache and
parses; the file may be replaced between any two. Recordings are used, so that a
parse has outcomes that must not be kept. The other half is the projection of
the user's voice notes with its bound per turn, its workers and its records.

### Delivery, TempLinks: what leaves GemiX

`Delivery` has the reply to the current chat piece by piece on either platform
with the counters of its receipt, and the calls of `send_whatsapp` and
`send_email` with the destinations reserved per turn, the audit log, its retained
files, wipe and pruning. `TempLinks` has the tokens of `tempFileServer.js`, the
files they name (staged copies or the conversation's own), requests, expiry, the
sweep by age, and a server that is off, starting or listening.

Several links of a WhatsApp reply become one bundle, for which an attachment in
memory is written out first. `StagingThrows` is that write failing: it leaves the
whole delivery of the attachments, whose receipt then lists all of them, those the
chat took before included.

### AgentTurn, ModelCall, ServiceCall: a turn at work

`AgentTurn` is a turn on either engine. On `responses` it is the loop of
`responsesEngine.js`; on `claude` a turn takes one of `Slots` slots or waits,
and Claude Code drives it through `gemixMcpServer.js`'s tools and hooks. `batch`
holds the calls of the current round; an effect runs alone, reads overlap up to
`ReadLimit`, a capped tool runs once. The work deadline tells the turn to wrap
up, the root deadline ends it; a tool that runs then is left behind unawaited and
may end later. A Claude query may end among its tools, when the provider reports a
limit or the process dies (`QueryEnds`); the calls that run go on, and a read that
waits for its slot keeps waiting until the root deadline. Timers, model answers and
tool ends come in any order.

`ModelCall` is one call of the Responses runtime: attempts with their credential
refresh, and one event stream whose items are added, finished, repeated in the
final array, cut or malformed. `ServiceCall` is `_runXaiServiceRequest` for
several calls on one pool of accounts: which account is in use may change
between any two of their steps.

### MediaQuota, CredentialRing: allowances

`MediaQuota` follows each generation from its reservation over the chain of image
backends, the polling of a video or the stages of a song to its commit or refund,
over the roll-over of the period, failing state writes and deaths. `kept` counts
what was really used of the period, which the code does not have. `CredentialRing`
is one ring under concurrent calls of either service, with `unsaved` marks after
failed writes; `proved` is what the process has marked spent in this period.

### Lifecycle, Notices, Recurrence, Minecraft, Preferences

`Lifecycle` has the closures of the two WhatsApp clients (reconnect timer,
watchdog, liveness check, fatal recovery) over a browser that may settle an
`initialize` late. A reconnection calls `initialize` again on the same client
and destroys nothing, so `left` keeps whether a Chromium of an earlier call may
still be open, whose events the client hears too; that two are then on one
session is what the code does, and no property says otherwise. It also has
startup with the Discord login, and the shutdown with its deadline. `Notices`
has the release outbox with its two components per chat, subscriptions, the two
monthly notices with overlapping ticks (the report's may find the directory of
the logs unreadable), and the admin's alerts. `Recurrence` transcribes the
search for the next occurrence onto a small calendar with two clock changes,
short months and weeks; a state is a reminder and the scheduler's present.
`Minecraft` is the controller's one operation with its waiters and the agent's
handlers between their awaits, and the PC, scripts and server behind them.
`Preferences` is the settings file under its lock, the tool's edits, the review
mark of a turn, and the wipe.

## 3. What is checked

| Run | Instance | Shows |
|---|---|---|
| `chat_turn` | 4 messages, 2 speakers (symmetric), three platforms, no hanging turns, inbox of 2, batch of 3 | a chat is one slot (`ChatIsOneSlot`), the lease is always renewed in time (`LeaseInForce`), a Discord turn sees its own speaker only, nothing wiped is shown again, one busy notice per turn |
| `chat_turn_hang` | 3 messages, every phase may hang, timers up to 2 late (as late as the TTL), ceiling 2 | leases never stray from their turns, no message enters two prompts, the chat answers again |
| `chat_notes_repeat_history` | as `chat_turn`, 3 messages | violates `NotesAreNew` (finding 1) |
| `chat_stale_inbox` | deliveries may hang, Discord | violates `OwnSpeakerOnly` (finding 2) |
| `task_delivery` | a one-time reminder with 2 destinations and a series of 2, 2 attempts, 1 crash, 1 I/O failure, a claim TTL of 1 | the cycle implements `ReminderPromise`; `AtMostOnce`, `FailureIsHonest` |
| `task_delivery_live` | one reminder, sends that throw after acceptance, 3 attempts, 2 crashes, 1 I/O failure, a TTL of 2 | `AttemptsBoundSends`; every due reminder is settled |
| `credential_store` | bot and CLI, 2 accounts, 1 request, 3 pairs, 1 CLI change, 1 crash or lock left behind | `NothingClobbered`, `StoreIsCurrent`, `OnlyRefusedMarked` |
| `credential_live` | 1 account, 2 requests that share a refresh, 1 fault | requests share a refresh and wait for one that is in the chain (`NobodyForgotten`); each ends in a credential or an error |
| `credential_race` | as `credential_store` | violates `NeitherClobbers` (finding 3) |
| `workspace` | ten parts; see below | containers and roots stay bounded, the reaper spares commands, edits and rollbacks lose nothing, tags and links have their files, what is read is what is there, receipts are honest but for a staging that throws |
| `services` | fourteen parts; see below | rounds keep their contract and turns end, calls are honest, allowances exact, clients never unwatched and never given up, notices delivered, schedules right, Minecraft started once |
| `voice_cache_wipe` | 2 chats, 3 voice messages, 1 lost write | violates `ReportedGoneIsGone` (finding 4) |

The properties of the last two passing runs are conjunctions, one conjunct per
part; the modules say of each what it means and `PROJECT.json` which hazard it
is for.

| Part of `workspace` | Instance | Properties |
|---|---|---|
| pool | 2 workspaces, 2 callers, 3 generations, cap 1, one `shutdown` besides `shutdownAll` | `OneContainer`, `CapHolds`, `ReaperSparesCommands` |
| tools | 2 calls of any kind and the wipe, a batch of 2, quota 2, 1 mishap or 1 spill | `EditLosesNothing`, `RolledBackMeansUndone`, `BatchIsWhole` |
| guard | 2 roots of 2, rate 1, polls up to 2 apart, API writes of 2 | `OvershootBounded` |
| attachments | 2 attachments of one name, 3 names, 2 turns, 2 faults or deaths | `NoAlias`, `TagsBacked` |
| reading | 2 contents, 1 reader, with and without a service, a cache of 1 | `CacheIsTrue`, `SweepIsFair` |
| voices | 4 notes, 2 per turn, 2 workers | `VoicesAreTrue` |
| gemix | 2 chats, 3 audios, 2 entries, 1 lost write or death | `TextIsShownOnce`, `WipedStaysWiped` |
| reply, sends | 3 files; 3 sends of 2 turns to one destination, a log of 1 | `DeliveryHonest` |
| links | 2 tokens, a TTL of 1, 1 request each, 5 moments | `LinkBacked` |

| Part of `services` | Instance | Properties |
|---|---|---|
| turn | 2 turns, 1 slot, 2 rounds, 3 calls a round, 2 reads at a time | `RoundContract`, `SlotsHeld`, `StartsInTurn`, `TurnAnswers` |
| call, service | 2 items, 2 attempts; 2 calls on 2 accounts, 2 tries | `ReplaysNothing`, `AnswerIsWhole`, `RetriesBounded`, `BlameIsEarned` |
| quota, ring | 2 jobs, limits of 1, 2 periods; 2 calls, 2 credentials, 2 periods | `QuotaExact`, `RingRemembers` |
| dedicated, personal | 1 reconnect, 2 logins, 2 initialize calls under way | `RecoveryInOrder`, `AlwaysWatched`, `ComesBack` |
| release, wrap, report, alert | 2 chats with 2 numbers, 2 releases; 2 ticks, 2 members; 2 alerts; 1 refusal, 1 fault | `ReleaseReachesAll`, `RepeatsHaveACause`, `SubscriptionsKept`, `MonthlyDone`, `AlertsSpaced`, `OutboxDrains` |
| schedule | a year of 14 days of 4 hours, 96 rules, 27 starts, 3 down-times | `OnSchedule` |
| minecraft | 2 chats, 2 start scripts, 1 shutdown, scripts within their grace | `StartedOnce`, `SameProgress`, `WorldIsSaved` |
| prefs | 2 edits, 2 voices, a memory of 2 lines | `PreferencesKept`, `ReviewedOnce` |

Why the bounds are enough. A chat's conflicts need a turn, its successor and a
message for each of them while both are at work; four messages make a batch of
two, a note, and a next turn. A reminder's conflicts need two destinations in
different states, a second attempt, a claim of a dead instance and a task beside
it in the file; a series needs one advance and one end. The store's conflicts
need an account under refresh, another to rotate to, two processes at the lock
and one death; three pairs allow a rotation and a login on top of the first. A
pool entry is replaced by a second generation while a third waits for it; two
callers contend for it, a second workspace for the cap. Of tools, calls, jobs and
ticks two contend, and one fault between them tells apart what the first left
from what the second found. A calendar whose months differ and whose year has
two clock changes has every relation of rule, month end and change that the
real one has. What the runs show on these instances the theorems below show for
all, except where noted.

Beyond the constants, `MCServices` and `MCWorkspace` leave out combinations that
multiply states without a new conflict, each in an operator of its own with a
comment. `TurnBound`: the second turn calls no tools and is not there during a
longest round (it matters for the slots only). `QuotaBound`: the second job is an
image without references. `RingBound`: a transcription runs alone, and the second
call is not there in a second period or after a failed write of Workers AI's
ring. `MinecraftBound`: the second chat stops no server. `ReleaseBound`: the
second chat's number is changed once. `PoolBound`: the third container comes with
one caller at a time, and while the start-up clean-up removes what it listed only
two containers of one workspace exist. `ToolBound`: no mishap where a background
process writes. `AttBound`: faults and deaths together, not each, within their
bound. `CacheBound`: two entries, one when it is a broken one.

The credential runs have no deadlock check: when every account has been removed
or its last token has expired and the bounds are used up, nothing is left to do.
Neither have `workspace` and `services`: turns, clocks and down-times are
bounded, and a process that has stopped stays so.

**Fairness.** `ChatAnswersAgain` assumes only that time passes and due timers
run (the event loop), and nothing of turns: they wait for models, platforms and
people. `DueIsSettled` assumes that the scheduler's interval and its promises
run on, that a send returns (`protocolTimeout` of the browser,
`platforms/whatsapp/client.js`), that the supervisor restarts a dead process
and that time passes; nothing of users, disks and crashes. `CallEnds` assumes
that jobs and requests go on: every await in them has a timeout or ends with
another job (`LOCK_WAIT_MS`, `TOKEN_TIMEOUT_MS`). `TurnAnswers` assumes the two
deadlines of `turnBudget.js`, that an engine goes on when it can, and that model
calls and tools end (each has a timeout of its own). `NeverGivenUp` assumes that
timers fire and that an `initialize` settles or is timed out; not that it
succeeds. `OutboxDrains` assumes the scheduler's minute tick with GitHub and
WhatsApp answering either way, refusals being bounded.

### Findings

1. `utils/turnPipeline.js:125` opens the inbox before the privacy gate and the
   history load, so a message in between is in the history and is shown again
   as a note; the comment above it says that what lands in the inbox "is
   genuinely new".
2. `utils/turnPipeline.js:167` clears the inbox of the chat even when the turn
   no longer owns the lease. A turn that hung past the ceiling and ends beside
   its successor removes the successor's inbox; the next message opens one
   without the speaker restriction.
3. `ai/credentials/credentialStore.js:56` decides that a lock is stale, and
   line 59 then moves whatever has its name. Two processes that both see the
   lock of a dead one stale can both get in, and one write undoes the other.
   (`workspaceState.js` compares the inode before it reaps; this lock does not.)
4. `utils/historySync.js:154` returns true when memory holds no text of the chat.
   After a wipe whose write failed memory is clean and the file is not, so the
   repeated wipe reports success without a write, and the texts are back at the
   next start; the comment below the line says that entries are re-read "to
   confirm the entries are really gone from disk".

Four more definitions state what a comment of the code says and the model does
not satisfy. No run checks them; each can be added to the run of its module as it
stands:

* `WorkspacePool!CallerGetsContainer`: a caller that waits for a closing of its
  workspace may be answered with its null (`sandbox/workspaceRuntime.js:374-376`).
* `Attachments!NoThirdState`: a tag without its file after a wipe of the whole
  projection in mid-turn, or a file the history could not take
  (`attachments/ingress.js:20-23`).
* `FileReading!FailuresAreForgotten`: a video whose sound track ffmpeg could not
  take out is kept as one that says nothing (`parsers/parserRegistry.js`).
* `Minecraft!ShutdownOverlapsNoStart`: a start asked for within the shutdown's
  delay runs its script on a PC about to go off (`minecraft/controller.js`).

Known of the code, below the grain of the models: `musicCreator.js` tests
`pendingGenerations` before an await and adds to it after; `markExhausted` stamps
the period of the moment it runs, not of the answer it heeds; the root deadline
of a Claude turn leaves a running tool call unawaited; startup in `index.js`
never looks at `shutdownStarted`; a recovery's shutdown has no deadline; the
release outbox is sent in order, so that one chat's refusals delay the others; an
image request that timed out after the service took it is paid for twice.

Known of the code and in the models, where the properties say so as an exception:

* A staging that throws after the chat took some attachments makes the receipt list
  all of them as failed (`utils/attachmentFallback.js:199`, outside its try, and
  `platforms/whatsapp/responseDelivery.js:190,204-210`): `ReceiptIsHonest`.
* A read left queued by a Claude query that ended among its tools starts after the
  reply if its slot comes before the root deadline
  (`ai/engines/claudeAgentEngine.js:198-203,216-217`): `StartsInTurn`.
* A WhatsApp client is initialized again without being destroyed, which may leave an
  earlier Chromium on its session (`platforms/whatsapp/client.js:184-185,256-258`).
  `RecoveryInOrder` is about clients, not about browsers.
* A directory of logs that cannot be read marks the month without a report
  (`scheduler/usageReportMonitor.js:62-66`): `MonthlyDone`.

## 4. What is proved

For any number of messages, speakers, reminders, destinations, processes,
accounts, requests, workspaces, containers, turns, slots, crashes and failures;
by TLAPS, from the assumptions on constants named in the modules.

**ChatTurnProofs.** `ChatInv` is inductive: types, the naming of turns and
batches (`Names`: an opener is the oldest of its batch and arrived before
every later one), `NoStrayLease`, `InboxNeedsTurn`, `PromptOnce`. It gives
`TypeCorrect`, `LeaseNeverStray`, `InboxOfATurn`, `NoMessageTwice` and
`OwnersRelease`, hanging turns included. With `RenewalsInTime` (`RenewEvery + MaxLag
< TTL`, `MaxWait + MaxLag < MaxAutoRenew`, true of the code's settings)
`LeaseInv` is inductive: a countdown of the renewal is always ahead of the
lease's; hence `LeaseHeld`. If moreover no turn hangs (`MayHang = {}`), turns end
before the ceiling (`InTime`), so all who claim the chat hold its one lease
(`AllHeld`), which gives `NeverTwoAtOnce` and the refinement `ChatImplementsSlot`.

Its second part is about what a turn is shown, which rests on the chat having one
claim: `TalkInv` is inductive on top of `ChatInv` and `AllHeld`. Its parts: the inbox is
that of the turn at work and holds notes of its speaker only (`InboxOfTurn`,
`OwnSpeakerOnly`); a busy notice was sent only if the inbox has recorded it
(`NoticeOfTurn`); what is wiped is in no prompt, note or history of a turn at work
(`WipedIsOver`), because a wipe holds the chat's one lease and so runs beside no
turn and no open batch. It gives `SpeakerAlone`, `NothingWipedShown` and
`OneNotice` under `RenewalsInTime` and `MayHang = {}`; finding 2 shows what a
turn that hangs past the ceiling does to them.

**TaskDeliveryProofs.** `DeliveryInv` is the conjunction of what a claim may say
(`ClaimInv`), that the task in hand is worked on under a claim of this instance
or not at all (`HandInv`), that a destination with something accepted is
`sending` or settled and never pending (`SendInv`), where the one send under
way stands (`FlightInv`), that the outcome agrees with the claim
(`OutcomeInv`), and that acceptances are bounded by attempts (`BoundInv`). None
of these is inductive without the others: that nothing is sent twice needs that
`sending` is never made pending, which needs that only the instance that owns a
claim, or recovery, writes to it. It gives `NoSecondSend`, `SendsBounded`,
`NothingReopened`, `OthersLeftAlone` and `DeliveryKeepsPromise`, the refinement
of `ReminderPromise`. `HonestInv` strengthens it by what a failed destination
left behind, as long as nothing crashed, and gives `FailuresHonest`.

**CredentialStoreProofs.** `StoreInv` is inductive. Its parts: `Busy` (who is
past `mkdir` has a job, who has read the pool is in the lock); `Exclusive` (as
long as no reclaim misfired, who is past `mkdir` has made the directory that is
there, and is alone); `Current` (what a job has read is still so); `UpsertFirst`
(only the first job of a process is an upsert); `OnePlace` (a token pair is with
one account or owed by one process, and a pair that is owed is not spent);
`StoreIsCurrent`. `OnePlace` is why the last is inductive: a write can only
replace a spent pair by one nobody has had. It gives
`NoChangeLost`, `TokenOnDiskUsable` and `BlameHitsRefused`. The condition
`~misfired` is finding 3: without it they do not hold. `RefreshShared`
(`NobodyForgotten`) rests on the types alone (`TypeCorrect`): a refresh joins the chain
only when its account has none there, and a job leaves it in the step that resumes
those who wait for it.

**WorkspacePoolProofs.** The reaper sees only `lastUsedAt`. `PoolInv` adds to the
types what the phases of promises and callers imply (`GenFine`, `CallFine`) and
`Fresh`: the age of an entry is at most the time its command has run. `Fresh` is
inductive because every path that starts a command writes `lastUsedAt` in the
same step, and with `CmdMax <= IdleTTL` it gives `ReaperSafe`.
`OneEachWithinCap` (`OneContainer`, `CapHolds`) needs the shape of the promises:
`ChainInv` says that the generations of one key form a chain. The pool points at the
newest, a closing that waits at the one it replaced, and so on to the one at the
end, which runs or has settled. Everything unsettled is in its key's chain, so a
key has one end, and a container that is up is that end or the victim of it. A
key is freed only at the end of its chain, by a closing that leaves no container.

**AgentTurnProofs.** `TurnInv`: `TurnsFine` (a turn in a round has not been told
to wrap up; only reads queue, and none is queued once the root deadline has come), `QueueOK` (the waiters
are exactly the turns that wait, each once) and `CountOK` (the count is that of
the turns whose query runs, and the queue is empty unless it is full). They need
one another: a slot that is released goes to a waiter, and what that turn then
is follows from the queue. It gives `NoLateStart`, with that
exception, and `SlotsExact`. `RoundsOrdered`
(`RoundContract`) adds `BatchFine`: a call that has started may still do so, all
before an effect being over; a capped call beyond the first is never queued; the
running ones are at most `ReadLimit`, since a freed place goes to one queued read.
`LimitsKept` gives the type invariant of the component, in the same theorem: a turn
stays within its rounds and its retries, and a Claude turn that may still ask for
tools has a round left, since the count and the wrap-up are one step.

**ServicesProofs**, one part per component and one for their composition.

* Lifecycle. `LifeInv`: no personal client is on while a recovery is under way, what
  is being destroyed is what the recovery waits for, no recovery timer is armed
  once the shutdown began, and every client is attended (`AllAttended`): if it listens,
  a reconnection, a watchdog or the check of its page is armed, and if a reconnection is
  due, no `initialize` is under way that would turn it away. The second half makes the
  first inductive, since a reconnection that is turned away arms nothing. It gives
  `ClientsWatched` and `LifeTyped`.
* Quota. `QuotaInv` adds to `QuotaExact` that no job and no record is ahead of the
  clock (`Dated`): a slot of a period gone by can then never be of the present
  one, so a refund after a reset, or after the death of the process that reserved,
  changes nothing it should not (`QuotaHonest`, `QuotaTyped`).
* Ring. `RingInv`: what this process has marked spent in this period is spent in
  the latest state, the file's or the one a failed write left in memory; and the
  list a call walks leaves those out (`SpentIsNotOffered`).
* Minecraft. `MinecraftInv`: between the agent's look at a stopped server and its
  script nothing else starts one, and after a shutdown has stopped it only a start
  under way brings one back, which is counted as an overlap. `ServerStartsOnce`
  assumes `~SlowScripts`: a start script ends within the agent's
  `SPAWN_GRACE_MS`, as in the run. A slower one makes a second script start, which
  is outside what the agent can see.
* Calls. The requests sent, and the one a call may be about to send, are paid for by
  the attempts used and by the one credential refresh (`SentOrDue(req) <=
  Allowed(req)`); a service call counts likewise, and while it waits for its
  answer it knows the account it used (`SvcFine`). They give `AnswersAreWhole` and
  `RetriesAreBounded`.
* Preferences. `PrefInv` has `PreferencesKept` and that the age kept in the file
  never runs ahead of the time since the notice, unless the last mark could not be
  written: that the notice does not loop (`NoticeCannotLoop`) rests on a clock
  that is not in the file.
* Notices. `NoticeInv` is a conjunction over the four notices. For releases: the
  check works on the box that is on disk, a place recorded as delivered was reached, and
  `repeats + Cardinality(Forgotten) <= faults`, where `Forgotten` are the places
  reached whose record was lost: each was paid for by a failed write or a crash
  before it can become a repeat. For the monthly wrap: each of two overlapping
  ticks works on a copy that tells of members who were told. For the report: its
  later stages are those of an accepted one. Hence `NoticesAreTrue`.
* Recurrence. `RecInv`: the task is at its start or at the first instant of its series
  after the time it was worked out, or has none left. Per frequency, one step of the code
  goes to the next day of the rule (`NextDayIs`); times that exist are in the order of
  their instants (`ConvertOrdered`); and `SearchFinds`, for all three loops, says that
  a search of such steps finds the first that will do or nothing lies within its
  bound, by the least number of candidates for which it would not. That the bounds
  reach as far as a reminder may run is the assumption `SearchesSuffice` (365 days
  against 370 tries, and their 8760 hours against 10000 steps). `MonthLengths`, the clock
  changes and the rules are any: the real calendar of a common year is one of them.
* Composition. A step of the run is a step of the part that moves and leaves the
  others (`ServicesMove`), so the parts' invariants hold together:
  `AllowancesStayKept`, `RoundsStayKept`, `MinecraftStaysKept`, `CallsStayHonest`,
  `NoticesStayKept`, `ScheduleStaysKept` and `TypesStay` are the properties and the
  types of the run for all constants; of these only `MinecraftStaysKept` assumes
  `~SlowScripts`.

**WorkspaceProofs**, likewise.

* Links. `LinkInv`: a link was registered within a tick of its file's staging, so it
  expires before the sweep by age takes the file (`LinksBacked`).
* The reply. `ReplyFine`: every component that was tried is accepted or named in the
  receipt, and the counters tell of what was accepted; once a staging threw, every
  attachment is named and those accepted are not counted. The messages to others
  (`SendInv`): a call that has not been recorded is in no record, so taking its copy
  back harms none, and it is recorded once because none that began is made again.
* Quota guard. `GuardInv`: the next poll comes before a root with headroom can have
  used it up at the assumed rate, and a root over its limit is polled every tick
  (`OvershootIsBounded`).
* Attachments. `AttInv`: the durable file behind a turn's tag was un-aged when it was
  synced and nothing ages during a turn, so the sweep leaves it, its name is not
  given away, and no other attachment is projected over it
  (`TagsNameTheirFiles`).
* GemiX's voice. `VoicesInv`: a text is in one place: a send that has not returned, the
  cache, one file, or wiped (`TextsStayTheirs`).
* Tools. `ToolInv`: a call between two of its commands owns the lock, which cannot
  expire under it since the ceilings of its commands add up to less than `LockTTL`;
  so what it read is there when it writes, and its rollback copy is of that
  (`ToolsKeepFiles`).
* Reading (`WhatIsReadIsTrue`). `CacheInv`: a reader keeps the copy it hashed, and an entry's
  age follows its last use up to the debounce, so that a sweep by age is one by
  use. `VoiceInv`: a turn takes the newest of the missing notes, so a note is taken by its
  rank, the number of missing notes that are newer.
* Composition: `ContainersStayBounded`, `TagsAlwaysResolve`, `AnswersAreDelivered`,
  `GemixTextsStay`, `FilesStayWhole`, `ReadingStaysTrue`, and `DataIsTyped`, the type
  invariant of the run.

Two proofs that would not go through showed faults of the model, since mended: the
cache's sweep broke ties of age more freely than the stable sort of the code, and the
alerts of `MCServices` could not fail.

**Only model-checked.**

* Liveness, which with fairness and ENABLED is beyond the prover: `ChatAnswersAgain`,
  `DueIsSettled`, `CallEnds`, `TurnAnswers`, `NeverGivenUp`, `OutboxDrains`.
* The violations of the four findings.

## 5. Not modelled

* Prompts, schemas, catalogues and feature tables: pure data.
* The web search, the contents that parsers extract, the RCON and wake-on-LAN
  packets, HTTP ranges and headers: one call each to something external, of
  which the models keep the outcomes a caller tells apart.
* The Claude SDK's own loop and the conversion of prompts for it.
* The egress proxy and the skills inside the container: no state across requests.
* Logs and their rotation, presence, the bug report store, the local
  notification server: each writes one file or sends one message.
* Mention and album rules of the adapters: they decide whether a message reaches
  `ArriveAny` at all, which the models leave to the message.
* The order of a privacy wipe across its stores. Each store's step is an action of
  that store's module and may fail or come at any moment.
* Two bots on one data directory, which the code does not support: where a lock
  file guards against it (`workspaceState.js`), its reaping is one step.
