---- MODULE CredentialRing ----
(***************************************************************************)
(* The ring of free-tier credentials, utils/credentialRing.js, and the     *)
(* calls that go down it: Cloudflare Workers AI (media/cloudflareClient.js *)
(* for images and transcription, media/speechToText.js) and Cartesia       *)
(* (tools/voiceMessage.js).  Either service has a ring of its own; service *)
(* says which one this is.                                                 *)
(*                                                                         *)
(* Credentials are numbered in the order of .env, 0 is none.  A mutation   *)
(* of the ring runs under its lock, so it is one step.                     *)
(***************************************************************************)
EXTENDS Filtering, Integers, Sequences, FiniteSets

CONSTANTS
    Pool,         \* number of credentials
    Calls,        \* calls under way at one time
    LastPeriod    \* bound on the clock

ASSUME RingConstants == Pool \in Nat /\ LastPeriod \in Nat

Creds == 1..Pool

VARIABLES
    service,    \* "cloudflare" or "cartesia"
    period,     \* periodKey()
    saved,      \* the ring's state file
    unsaved,    \* volatileState: the state a failed write left in memory
    rcall,      \* the calls
    proved      \* credentials this process has marked spent in this period

ringVars == <<service, period, saved, unsaved, rcall, proved>>

NoState == [active |-> 0, stamp |-> [c \in Creds |-> -1], here |-> FALSE]
NoRingCall == [pc |-> "idle", todo |-> <<>>, tried |-> {}, recoded |-> FALSE, stt |-> FALSE]

RingTypeOK ==
    /\ service \in {"cloudflare", "cartesia"} /\ period \in 0..LastPeriod
    /\ {saved, unsaved} \subseteq [active : 0..Pool, stamp : [Creds -> -1..LastPeriod], here : BOOLEAN]
    /\ \A k \in Calls :
          /\ rcall[k].pc \in {"idle", "xai", "send", "works", "spent", "next", "edge"}
          /\ rcall[k].tried \subseteq Creds /\ rcall[k].recoded \in BOOLEAN /\ rcall[k].stt \in BOOLEAN
          /\ \A i \in 1..Len(rcall[k].todo) : rcall[k].todo[i] \in Creds
    /\ proved \subseteq Creds

RingInit ==
    /\ service \in {"cloudflare", "cartesia"}
    /\ period = 0
    /\ saved = NoState /\ unsaved = NoState
    /\ rcall = [k \in Calls |-> NoRingCall]
    /\ proved = {}

(* _load: what could not be written is still the latest.                   *)
Load == IF unsaved.here THEN unsaved ELSE saved

SpentNow(state) == {c \in Creds : state.stamp[c] = period}

(* usable: the eligible credentials, the one that last worked first.       *)
Usable ==
    LET eligible == Filtered([c \in Creds |-> c], Creds \ SpentNow(Load))
        a == Load.active
    IN  IF a \in Creds \ SpentNow(Load)
        THEN <<a>> \o Filtered(eligible, Creds \ {a})
        ELSE eligible

(* _save, which may fail.                                                  *)
Save(state, ok) ==
    IF ok THEN saved' = state /\ unsaved' = NoState
          ELSE saved' = saved /\ unsaved' = [state EXCEPT !.here = TRUE]

NewPeriod ==
    /\ period < LastPeriod /\ period' = period + 1
    /\ proved' = {}
    /\ UNCHANGED <<service, saved, unsaved, rcall>>

RingRestarts ==
    /\ rcall # [k \in Calls |-> NoRingCall] \/ unsaved.here
    /\ unsaved' = NoState /\ proved' = {}
    /\ rcall' = [k \in Calls |-> NoRingCall]
    /\ UNCHANGED <<service, period, saved>>

(***************************************************************************)
(* Calls.  Workers AI goes down the accounts usable when it began;         *)
(* Cartesia asks the ring again after each one, and stops at a key it has  *)
(* tried.                                                                  *)
(***************************************************************************)
FirstOf(list) == IF list = <<>> THEN <<>> ELSE <<Head(list)>>
Walk == IF service = "cloudflare" THEN Usable ELSE FirstOf(Usable)

(* Where a call is with these credentials before it.                       *)
At(call, todo) ==
    [call EXCEPT !.todo = todo,
                 !.pc = IF todo # <<>> THEN "send" ELSE IF service = "cartesia" THEN "edge" ELSE "idle"]

Ended(call) == IF call.pc = "idle" THEN NoRingCall ELSE call

(* A transcription whose profile has xAI begins there.                     *)
StartRingCall(k) ==
    /\ rcall[k].pc = "idle"
    /\ \/ rcall' = [rcall EXCEPT ![k] = Ended(At(NoRingCall, Walk))]
       \/ service = "cloudflare" /\ rcall' = [rcall EXCEPT ![k] = [NoRingCall EXCEPT !.pc = "xai", !.stt = TRUE]]
       \/ service = "cloudflare" /\ rcall' = [rcall EXCEPT ![k] = Ended([At(NoRingCall, Walk) EXCEPT !.stt = TRUE])]
    /\ UNCHANGED <<service, period, saved, unsaved, proved>>

(* A failure of xAI falls back; a transcript, a refusal of the content and *)
(* the end of the turn do not.                                             *)
XaiTranscribes(k, falls) ==
    /\ rcall[k].pc = "xai"
    /\ rcall' = [rcall EXCEPT ![k] = IF falls THEN Ended(At(@, Walk)) ELSE NoRingCall]
    /\ UNCHANGED <<service, period, saved, unsaved, proved>>

(* Workers AI: a credential it refuses is done for the day like one whose  *)
(* neurons are spent, a burst limit is not.                                *)
AccountAnswer(code) ==
    CASE code = "OK" -> "works"
      [] code \in {"AUTH", "BUDGET"} -> "spent"
      [] code = "MALFORMED" -> "malformed"
      [] code \in {"RATE_LIMIT", "CONTENT_POLICY", "TRANSIENT"} -> "other"

(* Cartesia: 401, 402, 403 and quota_exceeded end the key's month.         *)
KeyAnswer(code) ==
    CASE code = "OK" -> "works"
      [] code \in {"AUTH", "BUDGET"} -> "spent"
      [] code \in {"MALFORMED", "RATE_LIMIT", "CONTENT_POLICY", "TRANSIENT"} -> "other"

AnswerCodes == {"OK", "AUTH", "BUDGET", "RATE_LIMIT", "CONTENT_POLICY", "TRANSIENT", "MALFORMED"}
AnswerOf(code) == IF service = "cloudflare" THEN AccountAnswer(code) ELSE KeyAnswer(code)

(* The answer on the credential at the head.                               *)
Answered(k, answer) ==
    /\ rcall[k].pc = "send"
    /\ \/ answer \in {"works", "spent"} /\ rcall' = [rcall EXCEPT ![k].pc = answer, ![k].tried = 
               IF service = "cartesia" THEN @ \cup {Head(rcall[k].todo)} ELSE @]
       \/ answer = "malformed" /\ rcall[k].stt /\ ~rcall[k].recoded       \* one re-encode
          /\ rcall' = [rcall EXCEPT ![k] = Ended([At(@, Walk) EXCEPT !.recoded = TRUE])]
       \/ /\ \/ answer = "other"
             \/ answer = "malformed" /\ (rcall[k].stt => rcall[k].recoded)
          /\ rcall' = [rcall EXCEPT ![k] = IF service = "cartesia" THEN [NoRingCall EXCEPT !.pc = "edge"] ELSE NoRingCall]
    /\ UNCHANGED <<service, period, saved, unsaved, proved>>

MarkWorking(k, ok) ==
    LET c == Head(rcall[k].todo) IN
    /\ rcall[k].pc = "works"
    /\ IF Load.active = c THEN UNCHANGED <<saved, unsaved>> ELSE Save([Load EXCEPT !.active = c], ok)
    /\ rcall' = [rcall EXCEPT ![k] = NoRingCall]
    /\ UNCHANGED <<service, period, proved>>

(* markExhausted: stamps of earlier periods are dropped on the way.        *)
Exhausted(c) ==
    [Load EXCEPT !.active = IF @ = c THEN 0 ELSE @,
                 !.stamp = [d \in Creds |-> IF d = c \/ d \in SpentNow(Load) THEN period ELSE -1]]

MarkExhausted(k, ok) ==
    LET c == Head(rcall[k].todo) IN
    /\ rcall[k].pc = "spent"
    /\ Save(Exhausted(c), ok)
    /\ proved' = proved \cup {c}
    /\ rcall' = [rcall EXCEPT ![k].pc = "next"]
    /\ UNCHANGED <<service, period>>

(* What is left of the walk of Workers AI, and what the ring gives for     *)
(* another key.                                                            *)
NextAccount(k) == Tail(rcall[k].todo)
NextKey(k) == Filtered(FirstOf(Usable), Creds \ rcall[k].tried)

NextCredential(k) ==
    /\ rcall[k].pc = "next"
    /\ rcall' = [rcall EXCEPT ![k] = Ended(At(@, IF service = "cloudflare" THEN NextAccount(k) ELSE NextKey(k)))]
    /\ UNCHANGED <<service, period, saved, unsaved, proved>>

(* Microsoft Edge speaks, or fails.                                        *)
EdgeSpeaks(k) ==
    /\ rcall[k].pc = "edge"
    /\ rcall' = [rcall EXCEPT ![k] = NoRingCall]
    /\ UNCHANGED <<service, period, saved, unsaved, proved>>

RingNext ==
    \/ NewPeriod \/ RingRestarts
    \/ \E k \in Calls :
         \/ StartRingCall(k) \/ NextCredential(k) \/ EdgeSpeaks(k)
         \/ \E code \in AnswerCodes : Answered(k, AnswerOf(code))
         \/ \E b \in BOOLEAN : XaiTranscribes(k, b) \/ MarkWorking(k, b) \/ MarkExhausted(k, b)

RingSpec == RingInit /\ [][RingNext]_ringVars

(***************************************************************************)
(* Properties.                                                             *)
(***************************************************************************)

(* A credential this process has marked spent in this period is not        *)
(* offered again in it, whether or not the state file could be written     *)
(* then or since.                                                          *)
RingRemembers == \A i \in 1..Len(Usable) : Usable[i] \notin proved
====
