---- MODULE MCWorkspace ----
(***************************************************************************)
(* Small instances of what keeps, delivers and reads the data of a chat.   *)
(* These components share no variable with one another, so a behaviour in  *)
(* which one of them moves shows all there is to see of it: part names the *)
(* one that does.                                                          *)
(***************************************************************************)
EXTENDS WorkspacePool, WorkspaceTools, QuotaGuard, Attachments, FileReading, GemixVoice,
        Delivery, TempLinks, TLC

CONSTANTS s1, s2, s3, f1, f2

VARIABLE part

(* Two calls of one turn to one destination, and one of a later turn.      *)
TwoTurns == s1 :> [turn |-> 1, to |-> 1] @@ s2 :> [turn |-> 1, to |-> 1] @@ s3 :> [turn |-> 2, to |-> 1]

SpeechAndSilence == f1 :> "speech" @@ f2 :> "silent"

(* A third container comes to be with one caller at a time; while the      *)
(* clean-up at start removes what it listed there are at most two, of one  *)
(* workspace.                                                              *)
PoolBound ==
    /\ Unused' = {} => Cardinality({c \in Callers : call'[c].pc # "idle"}) <= 1
    /\ cleanup'.boxes # {} =>
          Unused' # {} /\ Cardinality({gen'[g].ws : g \in Gens} \ {NoGen}) <= 1

(* A container is replaced, or something goes wrong in the process, where  *)
(* no background process writes.                                           *)
ToolBound == mishaps' = 0 \/ spill' = 0

AttBound == faults' + deaths' <= MaxFaults

(* At most two entries beside one that a lost service damaged.             *)
CacheBound ==
    /\ Cardinality(Stored') <= 2
    /\ (\E k \in Stored' : ~cache'[k].good) => Cardinality(Stored') = 1

Moves(p, Next, vars) == IF part = p THEN Next ELSE UNCHANGED vars

MCInit ==
    /\ part \in {"pool", "tools", "guard", "attachments", "reading", "voices", "gemix",
                 "reply", "sends", "links"}
    /\ PoolInit /\ ToolInit /\ GuardInit /\ AttInit /\ ReadingInit /\ GemixInit
    /\ DeliveryInit /\ LinkInit
    /\ part # "guard" => size = [r \in Roots |-> 0]
    /\ part \notin {"reading", "voices"} => route = "none" /\ file = f1
    /\ part # "links" => owned = {}

MCNext ==
    /\ UNCHANGED part
    /\ Moves("pool", PoolNext /\ PoolBound, poolVars)
    /\ Moves("tools", ToolNext /\ ToolBound, toolVars)
    /\ Moves("guard", GuardNext, guardVars)
    /\ Moves("attachments", AttNext /\ AttBound, attVars)
    /\ IF part = "reading" THEN (ReadNext \/ RestartReading) /\ UNCHANGED voiceVars /\ CacheBound
       ELSE IF part = "voices" THEN (VoiceNext \/ RestartReading) /\ UNCHANGED readingVars
       ELSE UNCHANGED fileVars
    /\ Moves("gemix", GemixNext, gemixVars)
    /\ Moves("reply", ReplyNext, replyVars)
    /\ Moves("sends", SendNext, sendVars)
    /\ Moves("links", LinkNext, linkVars)

mcVars == <<part, poolVars, toolVars, guardVars, attVars, fileVars, gemixVars, deliveryVars, linkVars>>

MCSpec == MCInit /\ [][MCNext]_mcVars

(* The variables of the part that moves are of the shapes its code has     *)
(* branches for; the others never leave their initial states.              *)
TypeOK ==
    /\ part = "pool" => PoolTypeOK
    /\ part = "tools" => ToolTypeOK
    /\ part = "guard" => GuardTypeOK
    /\ part = "attachments" => AttTypeOK
    /\ part \in {"reading", "voices"} => ReadingTypeOK
    /\ part = "gemix" => GemixTypeOK
    /\ part \in {"reply", "sends"} => DeliveryTypeOK
    /\ part = "links" => LinkTypeOK

(* What one conversation's containers and roots may grow to.               *)
ContainersBounded ==
    /\ part = "pool" => OneContainer /\ CapHolds
    /\ part = "guard" => OvershootBounded

(* What a file tag or a temporary link says is there.                      *)
TagsResolve == part = "attachments" => NoAlias /\ TagsBacked

(* A tool that did not do its work leaves the files as they were, and a    *)
(* batch is there in full or not at all.                                   *)
FilesKept == [](part = "tools" => BatchIsWhole) /\ EditLosesNothing /\ RolledBackMeansUndone

(* What is read of a file or heard in a voice message is what is in it.    *)
FilesReadTrue == [](part \in {"reading", "voices"} => CacheIsTrue /\ VoicesAreTrue) /\ SweepIsFair

(* The text of a voice reply stays with one file, until it is wiped.       *)
GemixTextsKept == part = "gemix" => TextIsShownOnce /\ WipedStaysWiped

(* A receipt says what was accepted, a message to another is recorded once *)
(* with its files, and a link handed out has its file until it is due.     *)
AnswersDelivered ==
    /\ part \in {"reply", "sends"} => DeliveryHonest
    /\ part = "links" => LinkBacked
====
