---- MODULE Attachments ----
(***************************************************************************)
(* The files of one conversation: the durable history (utils/              *)
(* historySync.js), its read-only projection (attachments/projection.js),  *)
(* the tags a turn shows the model (attachments/ingress.js), and what ages *)
(* them out: the hourly sweeps and the privacy wipe.                       *)
(*                                                                         *)
(* Every attachment arrives under the same file name, so that names        *)
(* collide; Names lists that name and the ones a counter makes of it.      *)
(***************************************************************************)
EXTENDS Integers, FiniteSets

CONSTANTS
    AttIds,     \* attachment ids of the platform
    Names,      \* 1..n: the name all arrive with, then (1), (2), ...
    NoName,
    MaxTurns,   \* bound on turns
    MaxFaults,  \* bound on failed metadata reads and writes
    MaxDeaths   \* bound on process deaths

ASSUME AttachmentConstants ==
    /\ IsFiniteSet(Names) /\ Names = 1..Cardinality(Names) /\ Names # {}
    /\ NoName \notin AttIds \cup Names
    /\ MaxTurns \in Nat /\ MaxFaults \in Nat /\ MaxDeaths \in Nat

VARIABLES
    disk,    \* history/: whose bytes each file holds
    meta,    \* history_meta.json: the file of each attachment
    proj,    \* attachments/: whose bytes each file holds
    aged,    \* <<"disk" or "proj", name>> of the files past the retention
    stamp,   \* lastActivityAt: none, fresh or older than the TTL
    turn,    \* the turn under way
    syncing, \* the history lock: the attachment being synced
    sweep,   \* _sweepStaleWorkspaces on this workspace
    swept,   \* a wipe of the projection fell into this turn
    loose,   \* this turn projected a file the history could not take
    turns, faults, deaths

attVars == <<disk, meta, proj, aged, stamp, turn, syncing, sweep, swept, loose,
             turns, faults, deaths>>

NoTags == [i \in AttIds |-> NoName]
NoTurn == [pc |-> "off", todo |-> {}, cur |-> NoName, step |-> "none", got |-> NoName, tags |-> NoTags]

AttTypeOK ==
    /\ disk \in [Names -> AttIds \cup {NoName}]
    /\ meta \in [AttIds -> Names \cup {NoName}]
    /\ proj \in [Names -> AttIds \cup {NoName}]
    /\ aged \subseteq {"disk", "proj"} \X Names
    /\ stamp \in {"none", "fresh", "stale"}
    /\ turn \in [pc : {"off", "ingest", "prepared", "asked"}, todo : SUBSET AttIds,
                 cur : AttIds \cup {NoName}, step : {"none", "sync", "fetch", "project"},
                 got : Names \cup {NoName}, tags : [AttIds -> Names \cup {NoName}]]
    /\ syncing \in AttIds \cup {NoName}
    /\ sweep \in {"off", "closing"}
    /\ swept \in BOOLEAN /\ loose \in BOOLEAN
    /\ turns \in 0..MaxTurns /\ faults \in 0..MaxFaults /\ deaths \in 0..MaxDeaths

AttInit ==
    /\ disk = [n \in Names |-> NoName]
    /\ meta = NoTags
    /\ proj = [n \in Names |-> NoName]
    /\ aged = {}
    /\ stamp = "none"
    /\ turn = NoTurn
    /\ syncing = NoName
    /\ sweep = "off"
    /\ swept = FALSE /\ loose = FALSE
    /\ turns = 0 /\ faults = 0 /\ deaths = 0

Bytes == <<disk, meta>>
OnDisk(n) == n # NoName /\ disk[n] # NoName
AttRest == <<stamp, sweep, turns, deaths>>

(***************************************************************************)
(* syncFileToHistory, under the user's lock.                               *)
(***************************************************************************)

\* Fault: only the disk is looked at.
FreeOnDisk == {n \in Names : disk[n] = NoName}

(* The names neither the metadata nor the disk knows; the first is taken.  *)
FreeNames == {n \in Names : disk[n] = NoName /\ \A i \in AttIds : meta[i] # n}
FreshName == CHOOSE n \in FreeNames : \A m \in FreeNames : n <= m

(* The attachment is in the metadata and its file is there: use it again.  *)
SyncReuse(i) ==
    /\ turn.cur = i /\ turn.step = "sync" /\ syncing = NoName
    /\ OnDisk(meta[i])
    /\ aged' = aged \ {<<"disk", meta[i]>>}
    /\ turn' = [turn EXCEPT !.step = "project", !.got = meta[i]]
    /\ UNCHANGED <<Bytes, proj, syncing, swept, loose, faults, AttRest>>

(* An entry without its file is dropped and saved before the download.     *)
SyncFetch(i) ==
    /\ turn.cur = i /\ turn.step = "sync" /\ syncing = NoName
    /\ ~OnDisk(meta[i])
    /\ \/ /\ meta' = [meta EXCEPT ![i] = NoName]
          /\ syncing' = i
          /\ turn' = [turn EXCEPT !.step = "fetch"]
          /\ UNCHANGED faults
       \/ /\ meta[i] # NoName /\ faults < MaxFaults
          /\ faults' = faults + 1
          /\ turn' = [turn EXCEPT !.step = "project"]
          /\ UNCHANGED <<meta, syncing>>
    /\ UNCHANGED <<disk, proj, aged, swept, loose, AttRest>>

(* File, then metadata; a failed save takes the file back.                 *)
SyncStore(i) ==
    /\ turn.cur = i /\ turn.step = "fetch" /\ syncing = i
    /\ syncing' = NoName
    /\ \/ /\ FreeNames # {}
          /\ disk' = [disk EXCEPT ![FreshName] = i]
          /\ meta' = [meta EXCEPT ![i] = FreshName]
          /\ aged' = aged \ {<<"disk", FreshName>>}
          /\ turn' = [turn EXCEPT !.step = "project", !.got = FreshName]
          /\ UNCHANGED faults
       \/ /\ faults < MaxFaults
          /\ faults' = faults + 1
          /\ turn' = [turn EXCEPT !.step = "project"]
          /\ UNCHANGED <<Bytes, aged>>
    /\ UNCHANGED <<proj, swept, loose, AttRest>>

(* The download fails: nothing is stored, and the caller goes on.          *)
SyncGivesUp(i) ==
    /\ turn.cur = i /\ turn.step = "fetch" /\ syncing = i
    /\ syncing' = NoName
    /\ turn' = [turn EXCEPT !.step = "project"]
    /\ UNCHANGED <<Bytes, proj, aged, swept, loose, faults, AttRest>>

(***************************************************************************)
(* ingressWaMessageMedia and ingressDiscordAttachment: sync, then ingest.  *)
(***************************************************************************)
TurnStarts ==
    /\ turn.pc = "off" /\ turns < MaxTurns
    /\ \E wanted \in (SUBSET AttIds) \ {{}} : turn' = [NoTurn EXCEPT !.pc = "ingest", !.todo = wanted]
    /\ turns' = turns + 1
    /\ swept' = FALSE /\ loose' = FALSE
    /\ UNCHANGED <<Bytes, proj, aged, stamp, syncing, sweep, faults, deaths>>

IngestNext(i) ==
    /\ turn.pc = "ingest" /\ turn.cur = NoName /\ i \in turn.todo
    /\ turn' = [turn EXCEPT !.todo = @ \ {i}, !.cur = i, !.step = "sync", !.got = NoName]
    /\ UNCHANGED <<Bytes, proj, aged, syncing, swept, loose, faults, AttRest>>

Tagged(i, n) == [turn EXCEPT !.cur = NoName, !.step = "none", !.tags = [@ EXCEPT ![i] = n]]

\* Fault: a file projected again keeps its old date.
ProjectUndated(i, n) ==
    /\ proj' = [proj EXCEPT ![n] = i]
    /\ turn' = Tagged(i, n)
    /\ UNCHANGED aged

(* projectFile and projectBuffer: the file of that name now holds i.       *)
Project(i, n) ==
    /\ proj' = [proj EXCEPT ![n] = i]
    /\ aged' = aged \ {<<"proj", n>>}
    /\ turn' = Tagged(i, n)

(* _materialize from the durable copy.                                     *)
Materialize(i) ==
    /\ turn.cur = i /\ turn.step = "project"
    /\ OnDisk(turn.got)
    /\ Project(i, turn.got)
    /\ UNCHANGED <<Bytes, syncing, swept, loose, faults, AttRest>>

(* _materialize from the platform: into the history under a name of its    *)
(* own, or, when the history does not take it, straight into the           *)
(* projection under the name it came with.                                 *)
Rehydrate(i) ==
    /\ turn.cur = i /\ turn.step = "project"
    /\ ~OnDisk(turn.got)
    /\ syncing = NoName
    /\ \/ /\ FreeNames # {}
          /\ disk' = [disk EXCEPT ![FreshName] = i]
          /\ meta' = [meta EXCEPT ![i] = FreshName]
          /\ Project(i, FreshName)
          /\ UNCHANGED <<loose, faults>>
       \/ /\ faults < MaxFaults
          /\ faults' = faults + 1
          /\ Project(i, IF turn.got = NoName THEN 1 ELSE turn.got)
          /\ loose' = TRUE
          /\ UNCHANGED Bytes
    /\ UNCHANGED <<syncing, swept, AttRest>>

(* Neither has it: the tag is marked expired.                              *)
TagExpired(i) ==
    /\ turn.cur = i /\ turn.step = "project"
    /\ ~OnDisk(turn.got)
    /\ turn' = Tagged(i, NoName)
    /\ UNCHANGED <<Bytes, proj, aged, syncing, swept, loose, faults, AttRest>>

(***************************************************************************)
(* prepareTurn: touchActivity, then reconcileProjection with the visible   *)
(* tags; what follows up to the request may wait for a transcription.      *)
(***************************************************************************)
LiveNames == {turn.tags[i] : i \in AttIds} \ {NoName}

Prepare ==
    /\ turn.pc = "ingest" /\ turn.cur = NoName /\ turn.todo = {}
    /\ stamp' = "fresh"
    /\ proj' = [n \in Names |-> IF n \in LiveNames THEN proj[n] ELSE NoName]
    /\ aged' = {x \in aged : x[1] = "disk"}
    /\ turn' = [turn EXCEPT !.pc = "prepared"]
    /\ UNCHANGED <<Bytes, syncing, sweep, swept, loose, turns, faults, deaths>>

Ask ==
    /\ turn.pc = "prepared"
    /\ turn' = [turn EXCEPT !.pc = "asked"]
    /\ UNCHANGED <<Bytes, proj, aged, syncing, swept, loose, faults, AttRest>>

TurnEnds ==
    /\ turn.pc = "asked"
    /\ turn' = NoTurn
    /\ UNCHANGED <<Bytes, proj, aged, syncing, swept, loose, faults, AttRest>>

(***************************************************************************)
(* Ageing, the sweeps, the wipe, and the death of the process.             *)
(***************************************************************************)
(* No turn lasts as long as the retention.                                 *)
HoursPass ==
    /\ turn.pc = "off" /\ sweep = "off" /\ syncing = NoName
    /\ stamp' = IF stamp = "fresh" THEN "stale" ELSE stamp
    /\ aged' = ({"disk"} \X {n \in Names : disk[n] # NoName})
               \cup ({"proj"} \X {n \in Names : proj[n] # NoName})
    /\ <<stamp, aged>>' # <<stamp, aged>>
    /\ UNCHANGED <<Bytes, proj, turn, syncing, sweep, swept, loose, turns, faults, deaths>>

(* Under the workspace lock the sweep reads the activity once more, then   *)
(* waits for the container to stop.                                        *)
SweepJudges ==
    /\ sweep = "off" /\ stamp = "stale"
    /\ sweep' = "closing"
    /\ UNCHANGED <<Bytes, proj, aged, stamp, turn, syncing, swept, loose, turns, faults, deaths>>

ClearProjection ==
    /\ proj' = [n \in Names |-> NoName]
    /\ aged' = {x \in aged : x[1] = "disk"}
    /\ swept' = (turn.pc # "off")

(* The rest of _cleanupStaleWorkspace; any failure keeps the activity, so  *)
(* that the next pass tries again.                                         *)
SweepWipes ==
    /\ sweep = "closing"
    /\ sweep' = "off"
    /\ \/ ClearProjection /\ stamp' = "none"
       \/ ClearProjection /\ UNCHANGED stamp
       \/ UNCHANGED <<proj, aged, swept, stamp>>
    /\ UNCHANGED <<Bytes, turn, syncing, loose, turns, faults, deaths>>

(* sweepExpiredAttachments                                                 *)
SweepProjection ==
    /\ \E n \in Names : <<"proj", n>> \in aged
    /\ proj' = [n \in Names |-> IF <<"proj", n>> \in aged THEN NoName ELSE proj[n]]
    /\ aged' = {x \in aged : x[1] = "disk"}
    /\ UNCHANGED <<Bytes, turn, syncing, swept, loose, faults, AttRest>>

(* sweepHistoryStore, under the history lock: the files, then the entries  *)
(* of those that are gone; the second save may fail.                       *)
SweepHistory ==
    LET old == {n \in Names : <<"disk", n>> \in aged /\ disk[n] # NoName}
    IN /\ syncing = NoName /\ old # {}
       /\ disk' = [n \in Names |-> IF n \in old THEN NoName ELSE disk[n]]
       /\ \/ /\ meta' = [i \in AttIds |-> IF meta[i] # NoName /\ disk'[meta[i]] = NoName
                                       THEN NoName ELSE meta[i]]
             /\ UNCHANGED faults
          \/ /\ faults < MaxFaults
             /\ faults' = faults + 1
             /\ UNCHANGED meta
       /\ aged' = {x \in aged : x[1] = "proj"}
       /\ UNCHANGED <<proj, turn, syncing, swept, loose, AttRest>>

(* The privacy command is answered in a turn of its own, before anything   *)
(* is ingested: the response lock keeps it apart from the other turns.     *)
PrivacyWipe ==
    /\ turn.pc = "off" /\ syncing = NoName /\ sweep = "off"
    /\ disk' = [n \in Names |-> NoName]
    /\ meta' = NoTags
    /\ proj' = [n \in Names |-> NoName]
    /\ aged' = {}
    /\ stamp' = "none"
    /\ UNCHANGED <<turn, syncing, sweep, swept, loose, turns, faults, deaths>>

(* The process dies, between the file and the metadata of a sync too, or   *)
(* finds a metadata file it cannot read, which _loadMeta takes for empty   *)
(* and the next save replaces.                                             *)
TurnDies ==
    /\ deaths < MaxDeaths
    /\ deaths' = deaths + 1
    /\ turn' = NoTurn /\ syncing' = NoName /\ sweep' = "off"
    /\ swept' = FALSE /\ loose' = FALSE
    /\ \/ UNCHANGED disk
       \/ /\ syncing # NoName /\ FreeNames # {}
          /\ disk' = [disk EXCEPT ![FreshName] = syncing]
    /\ UNCHANGED <<meta, proj, aged, stamp, turns, faults>>

MetaUnreadable ==
    /\ faults < MaxFaults /\ syncing = NoName
    /\ meta # NoTags
    /\ meta' = NoTags
    /\ faults' = faults + 1
    /\ UNCHANGED <<disk, proj, aged, turn, syncing, swept, loose, AttRest>>

AttNext ==
    \/ TurnStarts \/ Prepare \/ Ask \/ TurnEnds
    \/ \E i \in AttIds :
         \/ IngestNext(i) \/ SyncReuse(i) \/ SyncFetch(i) \/ SyncStore(i) \/ SyncGivesUp(i)
         \/ Materialize(i) \/ Rehydrate(i) \/ TagExpired(i)
    \/ HoursPass \/ SweepJudges \/ SweepWipes \/ SweepProjection \/ SweepHistory
    \/ PrivacyWipe \/ TurnDies \/ MetaUnreadable

AttSpec == AttInit /\ [][AttNext]_attVars

(***************************************************************************)
(* Properties.                                                             *)
(***************************************************************************)
Backed == \A i \in AttIds : turn.tags[i] # NoName => proj[turn.tags[i]] = i

(* Attachments share names, entries outlive files, files outlive entries:  *)
(* the entry of an attachment still never leads to another one's bytes.    *)
NoAlias ==
    \A i \in AttIds : meta[i] # NoName =>
        /\ disk[meta[i]] \in {i, NoName}
        /\ \A j \in AttIds \ {i} : meta[j] # meta[i]

(* Once the request is built, a live tag names a file that holds that very *)
(* attachment, unless a wipe of the whole projection fell into the turn or *)
(* the history could not take a file.                                      *)
TagsBacked == turn.pc = "asked" /\ ~swept /\ ~loose => Backed

(* attachments/ingress.js:20 without those exceptions: the tag and the     *)
(* file are one thing, and there is no third state.                        *)
NoThirdState == turn.pc = "asked" => Backed
====
