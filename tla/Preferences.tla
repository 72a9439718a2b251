---- MODULE Preferences ----
(***************************************************************************)
(* The preferences of one chat: the manage_preferences tool, the file they *)
(* are kept in and the monthly notice that asks whether they still hold    *)
(* (tools/preferences.js, settingsStore.js, prepareTurn).  The file is     *)
(* changed under the lock of its key, in the order it was owed for.       *)
(*                                                                         *)
(* Each call has a line of its own to write; "guide" is the default        *)
(* memory, and the memory is the set of its lines.                         *)
(***************************************************************************)
EXTENDS Integers, Sequences, FiniteSets

CONSTANTS
    Edits,          \* calls of manage_preferences
    Voices, DefaultVoice, NoVoice,
    MaxMemory,      \* MAX_MEMORY_CHARS, in lines
    ReviewAfter     \* SETTINGS_REVIEW_INTERVAL_MS

ASSUME PreferenceConstants ==
    /\ DefaultVoice \in Voices /\ NoVoice \notin Voices /\ "guide" \notin Edits
    /\ MaxMemory \in Nat \ {0} /\ ReviewAfter \in Nat \ {0}

VARIABLES
    prefs,      \* the settings file
    edit,       \* the calls of manage_preferences
    prefQueue,    \* who holds the lock of the file, then who waits for it
    review,     \* the turn under preparation, the time since the last notice, a mark that failed since
    owed       \* what the calls that succeeded asked for

prefVars == <<prefs, edit, prefQueue, review, owed>>

Memories == SUBSET (Edits \cup {"guide"})
MemoryEdits == {"none", "append", "replace", "clear"}
Defaults == [here |-> FALSE, voice |-> DefaultVoice, memory |-> {"guide"}, age |-> 0]
NoEdit == [pc |-> "idle", voice |-> NoVoice, memory |-> "none"]

PrefTypeOK ==
    /\ prefs \in [here : BOOLEAN, voice : Voices, memory : Memories, age : 0..ReviewAfter]
    /\ edit \in [Edits -> [pc : {"idle", "waits", "saved", "refused"}, voice : Voices \cup {NoVoice}, memory : MemoryEdits]]
    /\ \A i \in 1..Len(prefQueue) : prefQueue[i] \in Edits \cup {"mark", "wipe"}
    /\ review \in [pc : {"idle", "marks"}, since : 0..ReviewAfter, excused : BOOLEAN]
    /\ owed \in [voice : Voices, memory : Memories]

PrefInit ==
    /\ prefs = Defaults /\ edit = [e \in Edits |-> NoEdit] /\ prefQueue = <<>>
    /\ review = [pc |-> "idle", since |-> ReviewAfter, excused |-> FALSE]
    /\ owed = [voice |-> DefaultVoice, memory |-> {"guide"}]

(* readSettings; a file that cannot be read counts as none.                *)
Stored(readable) == IF readable THEN prefs ELSE Defaults
Custom(p) == p.here /\ (p.voice # DefaultVoice \/ p.memory # {"guide"})
IsReviewDue(p) == Custom(p) /\ p.age = ReviewAfter

(* resolveMemoryContent                                                    *)
Memory(e, existing, how) ==
    CASE how = "none" -> existing
      [] how = "append" -> existing \cup {e}
      [] how = "replace" -> {e}
      [] how = "clear" -> {"guide"}

(* managePreferences: a call that changes nothing is not written.          *)
ManagePreferences(e, voice, how, readable) ==
    LET same == how = "none" /\ voice = Stored(readable).voice IN
    /\ edit[e].pc = "idle" /\ (voice # NoVoice \/ how # "none")
    /\ edit' = [edit EXCEPT ![e] = IF same THEN [NoEdit EXCEPT !.pc = "saved"]
                                   ELSE [pc |-> "waits", voice |-> voice, memory |-> how]]
    /\ prefQueue' = IF same THEN prefQueue ELSE Append(prefQueue, e)
    /\ UNCHANGED <<prefs, review, owed>>

Turn(who) == prefQueue # <<>> /\ Head(prefQueue) = who /\ prefQueue' = Tail(prefQueue)

\* Fault: a call without a voice writes the default one.
EditedWhole(e, old) ==
    [voice |-> IF edit[e].voice = NoVoice THEN DefaultVoice ELSE edit[e].voice,
     memory |-> Memory(e, old.memory, edit[e].memory)]

(* The preferences that a call asks for, where these were before it.       *)
Edited(e, old) ==
    [voice |-> IF edit[e].voice = NoVoice THEN old.voice ELSE edit[e].voice,
     memory |-> Memory(e, old.memory, edit[e].memory)]

(* updateSettings.  The patch is made from the file as it is now.          *)
UpdateSettings(e, readable, written) ==
    LET old == Stored(readable)
        next == Edited(e, old)
        same == next.memory = old.memory /\ next.voice = old.voice
        fits == Cardinality(next.memory) <= MaxMemory
    IN  /\ Turn(e)
        /\ edit' = [edit EXCEPT ![e] = [NoEdit EXCEPT !.pc = IF fits /\ (same \/ written) THEN "saved" ELSE "refused"]]
        /\ IF fits /\ ~same /\ written
           THEN /\ prefs' = [here |-> TRUE, voice |-> next.voice, memory |-> next.memory, age |-> 0]
                /\ owed' = Edited(e, IF readable THEN owed ELSE Defaults)
           ELSE UNCHANGED <<prefs, owed>>
        /\ UNCHANGED review

(* prepareTurn, which waits for the mark before it asks the model.         *)
PrepareTurn ==
    /\ review.pc = "idle" /\ IsReviewDue(prefs)
    /\ review' = [review EXCEPT !.pc = "marks"]
    /\ prefQueue' = Append(prefQueue, "mark")
    /\ UNCHANGED <<prefs, edit, owed>>

(* markReviewed; the notice is in the prompt whether or not the mark could *)
(* be written.                                                             *)
MarkReviewed(written) ==
    /\ Turn("mark")
    /\ prefs' = IF prefs.here /\ written THEN [prefs EXCEPT !.age = 0] ELSE prefs
    /\ review' = [pc |-> "idle", since |-> 0, excused |-> ~written]
    /\ UNCHANGED <<edit, owed>>

(* A wipe of the chat removes the file, or says that it could not.         *)
WipeAsked ==
    /\ \A i \in 1..Len(prefQueue) : prefQueue[i] # "wipe"
    /\ prefs.here /\ prefQueue' = Append(prefQueue, "wipe")
    /\ UNCHANGED <<prefs, edit, review, owed>>

DeleteSettings(removed) ==
    /\ Turn("wipe")
    /\ IF removed THEN prefs' = Defaults /\ owed' = [voice |-> DefaultVoice, memory |-> {"guide"}]
                  ELSE UNCHANGED <<prefs, owed>>
    /\ UNCHANGED <<edit, review>>

TimeGoesOn ==
    /\ prefQueue = <<>>
    /\ prefs' = [prefs EXCEPT !.age = IF prefs.here /\ @ < ReviewAfter THEN @ + 1 ELSE @]
    /\ review' = [review EXCEPT !.since = IF @ < ReviewAfter THEN @ + 1 ELSE @]
    /\ UNCHANGED <<edit, prefQueue, owed>>

(* The process ends: what waited for the lock is forgotten.                *)
PrefCrash ==
    /\ prefQueue # <<>> /\ prefQueue' = <<>>
    /\ edit' = [e \in Edits |-> IF edit[e].pc = "waits" THEN [NoEdit EXCEPT !.pc = "refused"] ELSE edit[e]]
    /\ review' = [review EXCEPT !.pc = "idle"]
    /\ UNCHANGED <<prefs, owed>>

PrefNext ==
    \/ PrepareTurn \/ WipeAsked \/ TimeGoesOn \/ PrefCrash
    \/ \E e \in Edits : \/ \E voice \in Voices \cup {NoVoice}, how \in MemoryEdits, readable \in BOOLEAN :
                              ManagePreferences(e, voice, how, readable)
                        \/ \E readable, written \in BOOLEAN : UpdateSettings(e, readable, written)
    \/ \E ok \in BOOLEAN : MarkReviewed(ok) \/ DeleteSettings(ok)

PrefSpec == PrefInit /\ [][PrefNext]_prefVars

(***************************************************************************)
(* Properties.                                                             *)
(***************************************************************************)

(* The file holds what the calls that succeeded asked for, in the order    *)
(* they got its lock: two calls that each add a line leave both.           *)
PreferencesKept == owed = [voice |-> prefs.voice, memory |-> prefs.memory]

(* settingsStore.js: the notice "cannot loop".  It comes again only after  *)
(* the whole interval, or when the last one could not be recorded.         *)
ReviewedOnce ==
    [][review.pc = "marks" /\ review'.since = 0 /\ review'.pc = "idle"
         => review.since = ReviewAfter \/ review.excused]_prefVars
====
