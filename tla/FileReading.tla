---- MODULE FileReading ----
(***************************************************************************)
(* What the model reads of a file: read_file and the cache of its parsers   *)
(* (readFile.js, parserRegistry.js, parserCache.js, documentParser.js,      *)
(* mediaParser.js), and the user's voice notes as text on their own turn    *)
(* (voiceProjection.js, speechToText.js).                                   *)
(*                                                                         *)
(* The files are recordings, so that a parse asks for a transcript; content *)
(* is what the bytes hold.  A cache entry has the size of one.              *)
(***************************************************************************)
EXTENDS Integers, Sequences, FiniteSets

CONSTANTS
    Contents,       \* what a file may hold
    Sound,          \* of each: "speech", "silent", "long" or "banned"
    Readers,        \* read_file calls under way
    Routes,         \* the transcription chains a deployment may have
    TTL,            \* WORKSPACE_TTL_MS
    Debounce,       \* TOUCH_DEBOUNCE_MS
    CacheCap,       \* PARSER_CACHE_CAP_MB
    NumClips,       \* voice notes
    PerTurn,        \* MAX_NEW_TRANSCRIPTIONS_PER_TURN
    Workers,        \* MAX_CONCURRENT_TRANSCRIPTIONS
    NoEntry

ASSUME ReadingConstants ==
    /\ {TTL, Debounce, CacheCap, NumClips, PerTurn} \subseteq Nat /\ Debounce <= TTL
    /\ Workers \in Nat \ {0}
    /\ Routes \subseteq {"none", "cloudflare", "xai", "xai>cloudflare"}
    /\ Sound \in [Contents -> {"speech", "silent", "long", "banned"}]
    /\ \E s, t \in Contents : Sound[s] = "speech" /\ Sound[t] = "silent"

Clips == 1..NumClips
clipContent == [c \in Clips |-> CHOOSE s \in Contents : Sound[s] = IF c % 3 = 0 THEN "silent" ELSE "speech"]
Statuses == {"ok", "no_speech", "too_long", "content_policy", "timeout", "unconfigured", "error"}

VARIABLES
    route,      \* sttRouteId() of this process
    file,       \* what the file holds now
    cache,      \* parser_cache: an entry for each key
    read,       \* the read_file calls
    spoken,     \* the voice notes of the chat so far
    records,    \* their transcripts, with the history
    projected   \* the projection of the voice notes of a turn

readingVars == <<file, cache, read>>
voiceVars == <<spoken, records, projected>>
fileVars == <<route, readingVars, voiceVars>>

Keys == [of : Contents, route : Routes]
Entries == [of : Contents, route : Routes, status : Statuses, lost : BOOLEAN, good : BOOLEAN,
            age : 0..TTL + 1, unused : 0..TTL + 1]
NoRead == [pc |-> "idle", of |-> NoEntry, key |-> NoEntry]
NoProjection == [pc |-> "idle", queue |-> <<>>, running |-> {}, shown |-> [c \in Clips |-> "plain"], started |-> {}, upto |-> 0]
Records == [status : Statuses, route : Routes]

ReadingTypeOK ==
    /\ route \in Routes /\ file \in Contents
    /\ cache \in [Keys -> Entries \cup {NoEntry}]
    /\ read \in [Readers -> [pc : {"idle", "look", "parse"}, of : Contents \cup {NoEntry}, key : Keys \cup {NoEntry}]]
    /\ spoken \in 0..NumClips /\ records \in [Clips -> Records \cup {NoEntry}]
    /\ projected.pc \in {"idle", "work"} /\ projected.running \cup projected.started \subseteq Clips
    /\ projected.shown \in [Clips -> Statuses \cup {"plain"}] /\ projected.upto \in 0..NumClips
    /\ \A i \in 1..Len(projected.queue) : projected.queue[i] \in Clips

ReadingInit ==
    /\ route \in Routes /\ file \in Contents
    /\ cache = [k \in Keys |-> NoEntry] /\ read = [r \in Readers |-> NoRead]
    /\ spoken = 0 /\ records = [c \in Clips |-> NoEntry] /\ projected = NoProjection

(***************************************************************************)
(* transcribeAudioFile.                                                    *)
(***************************************************************************)
Heard(sound) == CASE sound = "silent" -> "no_speech" [] sound = "long" -> "too_long" [] OTHER -> "ok"

(* A refused container is sent once more, as a wav, which changes no       *)
(* outcome but the chance of it.                                           *)
CloudflareResults(sound) == {Heard(sound), "error", "timeout"}

(* A refusal of the content is final, a failure is Cloudflare's to make    *)
(* good, and an aborted call is neither.                                   *)
XaiResults(sound, fallback) ==
    (IF sound = "banned" THEN {"content_policy"} ELSE {Heard(sound)})
        \cup {"error", "timeout"} \cup (IF fallback THEN CloudflareResults(sound) ELSE {})

Transcription(sound) ==
    CASE route = "none" -> {"unconfigured"}
      [] route # "none" /\ sound = "long" -> {"too_long"}
      [] route = "cloudflare" /\ sound # "long" -> CloudflareResults(sound)
      [] route = "xai" /\ sound # "long" -> XaiResults(sound, FALSE)
      [] route = "xai>cloudflare" /\ sound # "long" -> XaiResults(sound, TRUE)

(* isCacheableSttStatus                                                    *)
Deterministic(status) == status \in {"ok", "no_speech", "too_long", "content_policy"}

(***************************************************************************)
(* read_file.                                                              *)
(***************************************************************************)
Edit(s) ==
    /\ s # file /\ file' = s
    /\ UNCHANGED <<route, cache, read, voiceVars>>

(* A private copy of the file, then the hash of that copy; without a hash  *)
(* there is no cache.                                                      *)
ReadFile(r, hashed) ==
    /\ read[r].pc = "idle"
    /\ read' = [read EXCEPT ![r] = [pc |-> "look", of |-> file,
                                    key |-> IF hashed THEN [of |-> file, route |-> route] ELSE NoEntry]]
    /\ UNCHANGED <<route, file, cache, voiceVars>>

Ends(r) == read' = [read EXCEPT ![r] = NoRead]

(* readCache: an entry past its time is a miss, a broken one is dropped,   *)
(* and a hit is used again.                                                *)
LookUp(r) ==
    LET k == read[r].key
        hit == k # NoEntry /\ cache[k] # NoEntry /\ cache[k].age <= TTL
    IN  /\ read[r].pc = "look"
        /\ IF hit /\ cache[k].good
           THEN /\ Ends(r)
                /\ cache' = [cache EXCEPT ![k].age = IF @ > Debounce THEN 0 ELSE @, ![k].unused = 0]
           ELSE /\ read' = [read EXCEPT ![r].pc = "parse"]
                /\ cache' = IF hit THEN [cache EXCEPT ![k] = NoEntry] ELSE cache
        /\ UNCHANGED <<route, file, voiceVars>>

\* Fault: the file itself is parsed, not the copy whose hash was taken.
SourceNow(r) == file

Source(r) == read[r].of

(* parseAudio: a recording is transcribed as it is.                        *)
AudioResults(s) == [status : Transcription(Sound[s]), lost : {FALSE}]

(* parseVideo: the sound track is taken out and transcribed, then frames   *)
(* are taken.  A tool that fails loses a part of the result; without its   *)
(* track a clip counts as one that says nothing.                           *)
VideoResults(s) ==
    [status : Transcription(Sound[s]), lost : BOOLEAN] \cup {[status |-> "no_speech", lost |-> TRUE]}

(* A file of this kind or of the other.                                    *)
ParseResults(s) == AudioResults(s) \cup VideoResults(s)

(* writeCache, of a successful parse whose outcome will not change         *)
StoreParse(r, result, ok) ==
    IF ok /\ read[r].key # NoEntry /\ Deterministic(result.status)
    THEN cache' = [cache EXCEPT ![read[r].key] =
            [of |-> Source(r), route |-> route, status |-> result.status, lost |-> result.lost,
             good |-> TRUE, age |-> 0, unused |-> 0]]
    ELSE UNCHANGED cache

Parse(r, ok) ==
    /\ read[r].pc = "parse"
    /\ \E result \in ParseResults(Source(r)) : StoreParse(r, result, ok)
    /\ Ends(r) /\ UNCHANGED <<route, file, voiceVars>>

(* The file cannot be parsed, or the turn ends first.                      *)
ParseFails(r) ==
    /\ read[r].pc # "idle" /\ Ends(r)
    /\ UNCHANGED <<route, file, cache, voiceVars>>

(* sweepParserCache: newest first, an entry stays unless it is past its    *)
(* time or does not fit beside those that stay.                            *)
Stored == {k \in Keys : cache[k] # NoEntry}
PastTime(k) == cache[k].age > TTL
Sweep ==
    /\ \E kept \in SUBSET Stored :
          /\ Cardinality(kept) <= CacheCap /\ \A k \in kept : ~PastTime(k)
          /\ \A k \in Stored \ kept :
                \/ PastTime(k)
                \/ Cardinality(kept) = CacheCap /\ \A o \in kept : cache[o].age <= cache[k].age
          /\ cache' = [k \in Keys |-> IF k \in kept THEN cache[k] ELSE NoEntry]
    /\ UNCHANGED <<route, file, read, voiceVars>>

ClearParserCache ==
    /\ Stored # {} /\ cache' = [k \in Keys |-> NoEntry]
    /\ UNCHANGED <<route, file, read, voiceVars>>

Damage(k) ==
    /\ cache[k] # NoEntry /\ cache[k].good /\ cache' = [cache EXCEPT ![k].good = FALSE]
    /\ UNCHANGED <<route, file, read, voiceVars>>

Older(n) == IF n > TTL THEN n ELSE n + 1
TimePasses ==
    /\ Stored # {}
    /\ cache' = [k \in Keys |-> IF cache[k] = NoEntry THEN NoEntry
                                ELSE [cache[k] EXCEPT !.age = Older(@), !.unused = Older(@)]]
    /\ UNCHANGED <<route, file, read, voiceVars>>

(* The process starts again, with another deployment perhaps.              *)
RestartReading ==
    /\ route' \in Routes /\ read' = [r \in Readers |-> NoRead] /\ projected' = NoProjection
    /\ UNCHANGED <<file, cache, spoken, records>>

(***************************************************************************)
(* Voice notes.                                                            *)
(***************************************************************************)
Speak ==
    /\ spoken < NumClips /\ spoken' = spoken + 1
    /\ UNCHANGED <<route, readingVars, records, projected>>

Known(c) == records[c] # NoEntry /\ records[c].route = route

(* _resolveAll: what is stored for these bytes and this chain, and the     *)
(* newest of the rest, as many as fit into one turn.                       *)
Pending == {c \in 1..spoken : ~Known(c)}
Newest(n) == {c \in Pending : Cardinality({d \in Pending : d > c}) < n}
NewestFirst == [i \in 1..Cardinality(Newest(PerTurn)) |->
                   CHOOSE c \in Newest(PerTurn) : Cardinality({d \in Pending : d > c}) = i - 1]

ProjectVoices ==
    /\ projected.pc = "idle" /\ spoken > 0
    /\ LET shown == [c \in Clips |-> IF c > spoken THEN "plain"
                                     ELSE IF Known(c) THEN records[c].status
                                     ELSE IF route = "none" THEN "unconfigured" ELSE "plain"]
       IN  projected' = [pc |-> "work", queue |-> IF route = "none" THEN <<>> ELSE NewestFirst,
                    running |-> {}, shown |-> shown, started |-> {}, upto |-> spoken]
    /\ UNCHANGED <<route, readingVars, spoken, records>>

WorkerTakes ==
    /\ projected.queue # <<>> /\ Cardinality(projected.running) < Workers
    /\ projected' = [projected EXCEPT !.queue = Tail(@), !.running = @ \cup {Head(projected.queue)},
                            !.started = @ \cup {Head(projected.queue)}]
    /\ UNCHANGED <<route, readingVars, spoken, records>>

(* _transcribe: a record that cannot be written is made again.             *)
Transcribed(c, ok) ==
    /\ c \in projected.running
    /\ \E status \in Transcription(Sound[clipContent[c]]) :
          /\ projected' = [projected EXCEPT !.running = @ \ {c}, !.shown[c] = status]
          /\ records' = IF ok /\ Deterministic(status)
                        THEN [records EXCEPT ![c] = [status |-> status, route |-> route]] ELSE records
    /\ UNCHANGED <<route, readingVars, spoken>>

VoicesProjected ==
    /\ projected.pc = "work" /\ projected.queue = <<>> /\ projected.running = {}
    /\ projected' = NoProjection
    /\ UNCHANGED <<route, readingVars, spoken, records>>

ReadNext ==
    \/ \E s \in Contents : Edit(s)
    \/ \E r \in Readers : LookUp(r) \/ ParseFails(r) \/ \E b \in BOOLEAN : ReadFile(r, b) \/ Parse(r, b)
    \/ Sweep \/ ClearParserCache \/ TimePasses \/ \E k \in Keys : Damage(k)

VoiceNext ==
    \/ Speak \/ ProjectVoices \/ WorkerTakes \/ VoicesProjected
    \/ \E c \in Clips, ok \in BOOLEAN : Transcribed(c, ok)

FileNext == ReadNext \/ VoiceNext \/ RestartReading
FileSpec == ReadingInit /\ [][FileNext]_fileVars

(***************************************************************************)
(* Properties.                                                             *)
(***************************************************************************)

(* A cached parse is never stale: it is the parse of the bytes of its key, *)
(* whatever became of the file meanwhile, by the deployment of its key,    *)
(* and what was a failure of the service for a moment is not kept.         *)
CacheIsTrue ==
    \A k \in Stored :
        /\ cache[k].of = k.of /\ cache[k].route = k.route
        /\ cache[k].status \in {Heard(Sound[k.of]), "content_policy"} \/ cache[k].lost

(* The sweep spares an entry that was used lately, unless so many were     *)
(* used since that the cache is full, and leaves no more than fits.        *)
SweepIsFair ==
    [][Sweep => /\ Cardinality(Stored') <= CacheCap
                /\ \A k \in Stored \ Stored' :
                      \/ cache[k].unused + Debounce >= TTL
                      \/ Cardinality({o \in Stored : cache[o].age <= cache[k].age}) > CacheCap]_cache

(* A voice note is shown as what was said in it or why not, never as what  *)
(* an earlier deployment or a failure left; the ones that have to wait for *)
(* a later turn are older than every one that was transcribed in this.     *)
VoicesAreTrue ==
    /\ \A c \in Clips : records[c] # NoEntry => records[c].status = Heard(Sound[clipContent[c]])
    /\ projected.pc = "work" /\ projected.queue = <<>> /\ projected.running = {} =>
         \A c \in projected.started, d \in 1..projected.upto : projected.shown[d] = "plain" => d < c

(* "A transient failure must not be remembered as this file's content"     *)
(* (parserRegistry.js).                                                    *)
FailuresAreForgotten ==
    \A k \in Stored : cache[k].status \in {Heard(Sound[k.of]), "content_policy"}
====
