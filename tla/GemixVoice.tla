---- MODULE GemixVoice ----
(***************************************************************************)
(* The text of GemiX's own voice replies: the cache written when a reply   *)
(* is sent, claimed by its file when the history is read (historySync.js,  *)
(* whatsapp/responseDelivery.js, whatsapp/historyBuilder.js), dropped by   *)
(* the wipe of a chat (privacyWipe.js).                                    *)
(*                                                                         *)
(* A message is its place in gemixAudio and so is the text it was sent     *)
(* with.  The history of a chat is read in any order: its messages are     *)
(* ingested concurrently.                                                  *)
(***************************************************************************)
EXTENDS Filtering, Integers, Sequences, FiniteSets, SequencesExt

CONSTANTS
    VoiceChats,     \* the conversations
    MaxAudio,       \* audio messages of a behaviour
    MaxRecent,      \* RECENT_VOICE_MAX_ENTRIES
    MatchWithin,    \* RECENT_VOICE_MATCH_TOLERANCE_MS
    MaxAge,         \* RECENT_VOICE_MAX_AGE_MS
    LastMoment,     \* bound on the clock
    MaxLostWrites   \* bound on the writes and processes lost

ASSUME GemixVoiceConstants ==
    /\ {MaxAudio, MatchWithin, MaxAge, LastMoment, MaxLostWrites} \subseteq Nat
    /\ MaxRecent \in Nat \ {0}

VARIABLES
    moment,         \* the clock
    gemixAudio,     \* GemiX's audio messages, oldest first
    unstored,       \* voice messages whose send has not returned yet
    recentVoice,    \* recentVoiceEntries
    voiceFile,      \* gemixVoiceTextCache.json
    transcript,     \* voiceTranscription of each message's file, 0 if none
    wiped,          \* texts of a chat whose wipe was reported complete
    lostWrites      \* failed writes and deaths so far

gemixVars == <<moment, gemixAudio, unstored, recentVoice, voiceFile, transcript, wiped, lostWrites>>

Audio == 1..MaxAudio
Entry == [chat : VoiceChats, ts : 0..LastMoment, of : Audio]

GemixTypeOK ==
    /\ moment \in 0..LastMoment /\ lostWrites \in 0..MaxLostWrites
    /\ gemixAudio \in Seq([chat : VoiceChats, at : 0..LastMoment, voice : BOOLEAN])
    /\ Len(gemixAudio) <= MaxAudio /\ unstored \subseteq DOMAIN gemixAudio
    /\ \A entries \in {recentVoice, voiceFile} : entries \in Seq(Entry) /\ Len(entries) <= MaxRecent
    /\ transcript \in [Audio -> 0..Len(gemixAudio)] /\ wiped \subseteq DOMAIN gemixAudio

GemixInit ==
    /\ moment = 0 /\ gemixAudio = <<>> /\ unstored = {} /\ recentVoice = <<>> /\ voiceFile = <<>>
    /\ transcript = [m \in Audio |-> 0] /\ wiped = {} /\ lostWrites = 0

Time == moment < LastMoment /\ moment' = moment + 1
        /\ UNCHANGED <<gemixAudio, unstored, recentVoice, voiceFile, transcript, wiped, lostWrites>>

(* A voice reply, or an audio attachment, which has no text of its own.    *)
SendAudio(c, isVoice) ==
    /\ Len(gemixAudio) < MaxAudio /\ \A m \in unstored : gemixAudio[m].chat # c
    /\ gemixAudio' = Append(gemixAudio, [chat |-> c, at |-> moment, voice |-> isVoice])
    /\ unstored' = IF isVoice THEN unstored \cup {Len(gemixAudio')} ELSE unstored
    /\ UNCHANGED <<moment, recentVoice, voiceFile, transcript, wiped, lostWrites>>

(* _saveRecentVoiceEntries swallows the error of a write that fails.       *)
SavedRecent(kept) ==
    \/ voiceFile' = recentVoice' /\ UNCHANGED lostWrites
    \/ /\ lostWrites < MaxLostWrites /\ lostWrites' = lostWrites + 1
       /\ voiceFile' \in kept

NotTooOld(e) == e.ts >= moment - MaxAge

(* storeRecentVoiceText: the old entries leave first, with a write of      *)
(* their own, and the file may keep what either write left.                *)
StoreText(m) ==
    /\ m \in unstored /\ unstored' = unstored \ {m}
    /\ LET young == Filtered(recentVoice, {e \in Entry : NotTooOld(e)})
           all == Append(young, [chat |-> gemixAudio[m].chat, ts |-> moment, of |-> m])
       IN /\ recentVoice' = IF Len(all) > MaxRecent THEN SubSeq(all, Len(all) - MaxRecent + 1, Len(all)) ELSE all
          /\ SavedRecent({voiceFile} \cup (IF young # recentVoice THEN {young} ELSE {}))
    /\ UNCHANGED <<moment, gemixAudio, transcript, wiped>>

Distance(e, m) == IF e.ts >= gemixAudio[m].at THEN e.ts - gemixAudio[m].at ELSE gemixAudio[m].at - e.ts

\* Fault: the texts of every chat are looked through.
ClaimsOfAll(m) ==
    {i \in DOMAIN recentVoice :
        /\ Distance(recentVoice[i], m) <= MatchWithin
        /\ \A j \in DOMAIN recentVoice : j >= i \/ Distance(recentVoice[j], m) > Distance(recentVoice[i], m)}

(* _matchRecentVoiceText: the entries closest to the message, the first of *)
(* them when there are several, if it is close enough.                     *)
Claims(m) ==
    LET own == {i \in DOMAIN recentVoice : recentVoice[i].chat = gemixAudio[m].chat}
    IN {i \in own :
          /\ Distance(recentVoice[i], m) <= MatchWithin
          /\ \A j \in own : \/ Distance(recentVoice[j], m) > Distance(recentVoice[i], m)
                            \/ Distance(recentVoice[j], m) = Distance(recentVoice[i], m) /\ j >= i}

(* bindGemixVoiceTranscription for a file that has no text: the metadata   *)
(* is written, and the entry leaves the cache only once it is.             *)
BindVoice(m) ==
    /\ m \in DOMAIN gemixAudio /\ transcript[m] = 0
    /\ \E i \in Claims(m) :
          /\ transcript' = [transcript EXCEPT ![m] = recentVoice[i].of]
          /\ recentVoice' = RemoveAt(recentVoice, i)
          /\ SavedRecent({voiceFile})
    /\ UNCHANGED <<moment, gemixAudio, unstored, wiped>>

(* wipeWhatsAppUserData: the history of the chat, with the transcripts in  *)
(* it, then forgetRecentVoiceText.  The chat's turn is not running.        *)
OfChat(c) == {m \in DOMAIN gemixAudio : gemixAudio[m].chat = c}
Forgotten(c) == Filtered(recentVoice, {e \in Entry : e.chat # c})
WipeReports(c) == Forgotten(c) = recentVoice \/ \A i \in DOMAIN voiceFile' : voiceFile'[i].chat # c

WipeVoices(c) ==
    /\ unstored \cap OfChat(c) = {}
    /\ transcript' = [m \in Audio |-> IF m \in OfChat(c) THEN 0 ELSE transcript[m]]
    /\ recentVoice' = Forgotten(c)
    /\ IF Forgotten(c) = recentVoice THEN UNCHANGED <<voiceFile, lostWrites>> ELSE SavedRecent({voiceFile})
    /\ wiped' = IF WipeReports(c) THEN wiped \cup OfChat(c) ELSE wiped
    /\ UNCHANGED <<moment, gemixAudio, unstored>>

(* The process dies: the cache is read again, and a send under way leaves  *)
(* no text.                                                                *)
RestartVoices ==
    /\ lostWrites < MaxLostWrites /\ lostWrites' = lostWrites + 1
    /\ recentVoice' = voiceFile /\ unstored' = {}
    /\ UNCHANGED <<moment, gemixAudio, voiceFile, transcript, wiped>>

GemixNext ==
    \/ Time \/ RestartVoices
    \/ \E c \in VoiceChats : WipeVoices(c) \/ \E isVoice \in BOOLEAN : SendAudio(c, isVoice)
    \/ \E m \in Audio : StoreText(m) \/ BindVoice(m)

GemixSpec == GemixInit /\ [][GemixNext]_gemixVars

(***************************************************************************)
(* Properties.                                                             *)
(***************************************************************************)

(* A text is shown on one file of the chat it was spoken in.  Two files    *)
(* may show it only after a write of the cache failed or the process died. *)
TextIsShownOnce ==
    /\ \A m \in Audio : transcript[m] # 0 => gemixAudio[transcript[m]].chat = gemixAudio[m].chat
    /\ lostWrites = 0 => \A m, n \in Audio : transcript[m] = transcript[n] /\ m # n => transcript[m] = 0

(* What a wipe took away does not come back, whatever is sent, read or     *)
(* restarted afterwards, as long as no write of the cache has failed.      *)
WipedStaysWiped ==
    lostWrites = 0 =>
        /\ \A m \in Audio : transcript[m] \notin wiped
        /\ \A i \in DOMAIN recentVoice : recentVoice[i].of \notin wiped

(* "re-read to confirm the entries are really gone from disk before        *)
(* reporting the wipe as complete": after a wipe reported complete the     *)
(* file holds no text of the chat.                                         *)
ReportedGoneIsGone ==
    [][\A c \in VoiceChats : WipeVoices(c) /\ WipeReports(c) =>
          \A i \in DOMAIN voiceFile' : voiceFile'[i].chat # c]_gemixVars
====
