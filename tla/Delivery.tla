---- MODULE Delivery ----
(***************************************************************************)
(* What leaves GemiX: the reply to the current chat, with the receipt of   *)
(* what the platform accepted (whatsapp/responseDelivery.js, discord's     *)
(* deliverDiscordResponse, attachmentFallback.js, deliveryReceipt.js), and *)
(* the two tools that write to someone else, with the audit of what was    *)
(* sent (sendWhatsApp.js, sendEmail.js, outboundDelivery.js,               *)
(* sentMessagesStore.js).                                                  *)
(*                                                                         *)
(* The platforms are external: they accept a piece or throw.               *)
(***************************************************************************)
EXTENDS Integers, Sequences, FiniteSets

CONSTANTS
    Files,        \* attachments a reply can carry
    Sends,        \* calls of the two tools, all for one sender
    Dest,         \* per call: the turn and the destination it writes to
    MaxSent       \* MAX_SENT_MESSAGES

Parts == {"voice", "transcript", "footer", "text"}
Groups == {"bundle", "attachments"}      \* failures that stand for several files

ASSUME DeliveryConstants ==
    /\ MaxSent \in Nat \ {0} /\ IsFiniteSet(Files) /\ IsFiniteSet(Sends)
    /\ Files \cap (Sends \cup Parts \cup Groups \cup (Parts \X {1, 2})) = {}

VARIABLES
    reply,        \* the reply being delivered, and the counters of its receipt
    reached,      \* the pieces of it the platform accepted
    send,         \* per tool call: how far it is, and whether its audit was recorded
    contacted,    \* the destinations reserved in each turn: deliveryCtx
    accepted,     \* per destination and turn: texts the platform accepted
    audit,        \* messages.json: the calls recorded, oldest first
    copies,       \* the retained files beside it, each of one call
    damaged       \* a wipe failed half way

deliveryVars == <<reply, reached, send, contacted, accepted, audit, copies, damaged>>
replyVars == <<reply, reached>>
sendVars == <<send, contacted, accepted, audit, copies, damaged>>

(* The pieces of a reply.  A text of more than one chunk can stop in the   *)
(* middle.                                                                 *)
Whole(part) == {<<part, 1>>, <<part, 2>>}
Pieces == Whole("transcript") \cup Whole("footer") \cup Whole("text") \cup {<<"voice", 1>>} \cup Files

NoReply == [pc |-> "idle", platform |-> "whatsapp", wants |-> {}, route |-> [f \in Files |-> "none"],
            text |-> FALSE, direct |-> 0, linked |-> 0, failed |-> {}, links |-> {}]

DeliveryTypeOK ==
    /\ reply \in [pc : {"idle", "voice", "footer", "text", "files", "links", "done"},
                  platform : {"whatsapp", "discord"}, wants : SUBSET {"voice", "footer", "text"},
                  route : [Files -> {"none", "direct", "link"}], text : BOOLEAN,
                  direct : 0..7 + Cardinality(Files), linked : 0..Cardinality(Files),
                  failed : SUBSET (Parts \cup Groups \cup Files),
                  links : SUBSET Files]
    /\ reached \subseteq Pieces
    /\ send \in [Sends -> {"new", "attaching", "audit", "retain", "save", "prune",
                           "refused", "failed", "gone", "ok", "degraded"}]
    /\ contacted \subseteq {Dest[s] : s \in Sends}
    /\ \A d \in DOMAIN accepted : accepted[d] \in 0..Cardinality(Sends)
    /\ \A i \in 1..Len(audit) : audit[i] \in [of : Sends, file : BOOLEAN]
    /\ copies \subseteq Sends
    /\ damaged \in BOOLEAN

DeliveryInit ==
    /\ reply = NoReply /\ reached = {}
    /\ send = [s \in Sends |-> "new"]
    /\ contacted = {} /\ accepted = [d \in {Dest[s] : s \in Sends} |-> 0]
    /\ audit = <<>> /\ copies = {} /\ damaged = FALSE

(***************************************************************************)
(* The reply.  One action per component, in the order of the code.         *)
(***************************************************************************)
Order == <<"voice", "footer", "text", "files">>
NextOf(component, wants) ==     \* the next one the response has; a delivery ends with the files
    LET at == IF component = "idle" THEN 0 ELSE CHOOSE i \in 1..4 : Order[i] = component
        left == {i \in 1..4 : i > at /\ (i = 4 \/ Order[i] \in wants)}
    IN  Order[CHOOSE i \in left : \A j \in left : i <= j]

(* A response has some content, and a research badge follows a voice note. *)
Deliver(platform, wants, route) ==
    /\ reply.pc = "idle"
    /\ wants # {} \/ \E f \in Files : route[f] # "none"
    /\ "footer" \in wants => "voice" \in wants
    /\ "voice" \in wants => platform = "whatsapp"
    /\ reply' = [NoReply EXCEPT !.pc = NextOf("idle", wants), !.platform = platform,
                                !.wants = wants, !.route = route]
    /\ reached' = {}
    /\ UNCHANGED sendVars

Sent(component, fields) ==
    /\ reply.pc = component
    /\ reply' = [fields EXCEPT !.pc = NextOf(component, reply.wants)]
    /\ UNCHANGED sendVars

(* A voice note WhatsApp Web refuses before sending it goes as its         *)
(* transcript: the chunks of one that stops half way are not counted.      *)
SendVoice ==
    \/ /\ Sent("voice", [reply EXCEPT !.direct = @ + 1])
       /\ reached' = reached \cup {<<"voice", 1>>}
    \/ /\ Sent("voice", [reply EXCEPT !.failed = @ \cup {"voice"}])
       /\ UNCHANGED reached
    \/ /\ Sent("voice", [reply EXCEPT !.failed = @ \cup {"voice"}, !.text = TRUE])
       /\ reached' = reached \cup Whole("transcript")
    \/ \E n \in 0..1 :
          /\ Sent("voice", [reply EXCEPT !.failed = @ \cup {"voice", "transcript"}])
          /\ reached' = reached \cup {<<"transcript", i>> : i \in 1..n}

SendFooter ==
    \E n \in 0..2 :
        /\ Sent("footer", [reply EXCEPT !.direct = @ + n, !.failed = IF n = 2 THEN @ ELSE @ \cup {"footer"}])
        /\ reached' = reached \cup {<<"footer", i>> : i \in 1..n}

SendText ==
    \E n \in 0..2 :
        /\ Sent("text", IF n = 2 THEN [reply EXCEPT !.text = TRUE]
                        ELSE [reply EXCEPT !.direct = @ + n, !.failed = @ \cup {"text"}])
        /\ reached' = reached \cup {<<"text", i>> : i \in 1..n}

Routed(r) == {f \in Files : r.route[f] # "none"}

(* The files that can go directly: Discord tries them in one message, then *)
(* one by one; what fails joins the files that were routed to a link.      *)
SendFiles ==
    LET direct == {f \in Files : reply.route[f] = "direct"}
    IN  /\ reply.pc = "files"
        /\ \E sent \in SUBSET direct :
              /\ reached' = reached \cup sent
              /\ reply' = [reply EXCEPT !.direct = @ + Cardinality(sent), !.pc = "links",
                                        !.links = Routed(reply) \ sent]
        /\ UNCHANGED sendVars

(* On WhatsApp several links become one bundle, and an attachment held in  *)
(* memory is written out for it, outside the try of the links: when that   *)
(* throws, the receipt lists every attachment of the reply, and does not   *)
(* count those the chat took before.                                       *)
StagingThrows ==
    /\ reply.pc = "files" /\ reply.platform = "whatsapp"
    /\ \E sent \in SUBSET {f \in Files : reply.route[f] = "direct"} :
          /\ \E f, g \in Routed(reply) \ sent : f # g
          /\ reached' = reached \cup sent
    /\ reply' = [reply EXCEPT !.failed = @ \cup {"attachments"}, !.pc = "done"]
    /\ UNCHANGED sendVars

(* Discord hosts the failed ones and the routed ones in two messages,      *)
(* WhatsApp all of them in one, zipped when more than one can be read.     *)
Artefacts(files) ==
    {{{f} : f \in files}}
    \cup IF reply.platform = "whatsapp"
         THEN {{zip} \cup {{f} : f \in files \ zip} : zip \in {z \in SUBSET files : Cardinality(z) > 1}}
         ELSE {}
Messages ==
    LET failed == {f \in reply.links : reply.route[f] = "direct"}
    IN  (IF reply.platform = "discord" THEN {failed, reply.links \ failed} ELSE {reply.links}) \ {{}}
NameOf(artefact) == IF Cardinality(artefact) > 1 THEN "bundle" ELSE CHOOSE f \in artefact : TRUE

SendLinks ==
    /\ reply.pc = "links"
    /\ IF Messages = {}
       THEN reply' = [reply EXCEPT !.pc = "done"] /\ UNCHANGED reached
       ELSE \E files \in Messages : \E all \in Artefacts(files) :
            \E hosted \in SUBSET all : \E posted \in BOOLEAN :
               LET linked == IF posted THEN UNION hosted ELSE {}
                   missing == IF posted THEN all \ hosted ELSE all
               IN  /\ reached' = reached \cup linked
                   /\ reply' = [reply EXCEPT !.linked = @ + Cardinality(linked), !.links = @ \ files,
                                             !.failed = @ \cup {NameOf(a) : a \in missing}]
    /\ UNCHANGED sendVars

ReplyDone ==      \* the receipt is returned and the chat's turn is over
    /\ reply.pc = "done"
    /\ reply' = NoReply /\ reached' = {}
    /\ UNCHANGED sendVars

\* Fault: a link does not count as delivered.
StatusWithoutLinks ==
    IF ~(reply.text \/ reply.direct > 0) THEN "failed"
    ELSE IF reply.failed # {} THEN "degraded" ELSE "complete"

(* createDeliveryReceipt.                                                  *)
Status ==
    IF ~(reply.text \/ reply.direct > 0 \/ reply.linked > 0) THEN "failed"
    ELSE IF reply.failed # {} THEN "degraded" ELSE "complete"

(***************************************************************************)
(* A message to someone else: one per destination and turn.                *)
(***************************************************************************)
Stands(s, st) == send' = [send EXCEPT ![s] = st]

(* A turn runs its effects one at a time.                                  *)
Alone(s) ==
    \A t \in Sends \ {s} : Dest[t].turn = Dest[s].turn =>
        send[t] \notin {"attaching", "audit", "retain", "save", "prune"}

WriteTo(s) ==
    /\ send[s] = "new" /\ Alone(s)
    /\ IF Dest[s] \in contacted
       THEN Stands(s, "refused") /\ UNCHANGED <<contacted, accepted>>
       ELSE \/ Stands(s, "failed") /\ UNCHANGED <<contacted, accepted>>
            \/ /\ Stands(s, "attaching")
               /\ contacted' = contacted \cup {Dest[s]}
               /\ accepted' = [accepted EXCEPT ![Dest[s]] = @ + 1]
    /\ UNCHANGED <<replyVars, audit, copies, damaged>>

(* A call that was refused or that failed can be made again.               *)
CallAgain(s) ==
    /\ send[s] \in {"refused", "failed"} /\ accepted[Dest[s]] < Cardinality(Sends)
    /\ Stands(s, "new")
    /\ UNCHANGED <<replyVars, contacted, accepted, audit, copies, damaged>>

SendAttachments(s) ==
    /\ send[s] = "attaching" /\ Stands(s, "audit")
    /\ UNCHANGED <<replyVars, contacted, accepted, audit, copies, damaged>>

(***************************************************************************)
(* recordSentMessage, one at a time under the sender's lock.               *)
(***************************************************************************)
LogFree == \A t \in Sends : send[t] \notin {"retain", "save", "prune"}
Finished == {"ok", "degraded"}     \* degraded when an attachment or the record was lost

LoadLog(s) ==
    /\ send[s] = "audit" /\ LogFree
    /\ Stands(s, "retain") \/ Stands(s, "degraded")
    /\ UNCHANGED <<replyVars, contacted, accepted, audit, copies, damaged>>

Retain(s) ==
    /\ send[s] = "retain"
    /\ Stands(s, "save")
    /\ copies' \in {copies, copies \cup {s}}
    /\ UNCHANGED <<replyVars, contacted, accepted, audit, damaged>>

Kept(records) == SubSeq(records, IF Len(records) > MaxSent THEN Len(records) - MaxSent + 1 ELSE 1, Len(records))

SaveLog(s) ==
    /\ send[s] = "save"
    /\ \/ /\ audit' = Kept(Append(audit, [of |-> s, file |-> s \in copies]))
          /\ Stands(s, "prune") /\ UNCHANGED copies
       \/ /\ copies' = copies \ {s}
          /\ Stands(s, "degraded") /\ UNCHANGED audit
    /\ UNCHANGED <<replyVars, contacted, accepted, damaged>>

Referenced == {audit[i].of : i \in {j \in 1..Len(audit) : audit[j].file}}

PruneCopies(s) ==
    /\ send[s] = "prune"
    /\ copies' = copies \cap Referenced
    /\ \E result \in Finished : Stands(s, result)
    /\ UNCHANGED <<replyVars, contacted, accepted, audit, damaged>>

(* deleteSentMessages, of a user's wipe: it can fail on the way.           *)
WipeSent ==
    /\ LogFree
    /\ \/ audit' = <<>> /\ copies' = {} /\ UNCHANGED damaged
       \/ copies' \in SUBSET copies /\ damaged' = TRUE /\ UNCHANGED audit
    /\ UNCHANGED <<replyVars, send, contacted, accepted>>

(* The process dies, and with it the turns that had begun.                 *)
Begun(s) == \E t \in Sends : Dest[t].turn = Dest[s].turn /\ send[t] # "new"
DeliveryCrash ==
    /\ send' = [s \in Sends |-> IF send[s] \in Finished \/ ~Begun(s) THEN send[s] ELSE "gone"]
    /\ UNCHANGED <<replyVars, contacted, accepted, audit, copies, damaged>>

ReplyNext ==
    \/ \E platform \in {"whatsapp", "discord"}, wants \in SUBSET {"voice", "footer", "text"},
          route \in [Files -> {"none", "direct", "link"}] : Deliver(platform, wants, route)
    \/ SendVoice \/ SendFooter \/ SendText \/ SendFiles \/ StagingThrows \/ SendLinks \/ ReplyDone

SendNext ==
    \/ \E s \in Sends : \/ WriteTo(s) \/ CallAgain(s) \/ SendAttachments(s) \/ LoadLog(s) \/ Retain(s)
                        \/ SaveLog(s) \/ PruneCopies(s)
    \/ WipeSent \/ DeliveryCrash

DeliveryNext == ReplyNext \/ SendNext
DeliverySpec == DeliveryInit /\ [][DeliveryNext]_deliveryVars

(***************************************************************************)
(* Properties.                                                             *)
(***************************************************************************)

Wanted ==
    (IF "voice" \in reply.wants THEN {<<"voice", 1>>} ELSE {})
    \cup (UNION {Whole(part) : part \in reply.wants \cap {"footer", "text"}})
    \cup Routed(reply)

(* The files the receipt lists as failed.                                  *)
Listed == IF "attachments" \in reply.failed THEN Routed(reply) ELSE reply.failed \cap Files

(* The receipt says "complete" exactly when every piece of the response    *)
(* was accepted; a file that did not arrive is listed in it, or was in a   *)
(* bundle that is.  When it says "failed", which makes the turn report an  *)
(* error and the chat hear of it, nothing was accepted but for the first   *)
(* chunks of a transcript that stood in for a voice note, and a file that  *)
(* arrived is not listed.  There is one exception to these two, which the  *)
(* code has: a staging that throws hides the files that went before it.    *)
ReceiptIsHonest ==
    reply.pc = "done" =>
        /\ Status = "complete" <=> Wanted \subseteq reached
        /\ Status = "failed" => \/ reached \subseteq {<<"transcript", 1>>}
                                \/ "attachments" \in reply.failed /\ reached \subseteq {<<"transcript", 1>>} \cup Files
        /\ \A f \in Routed(reply) :
              IF f \in reached THEN f \in Listed => "attachments" \in reply.failed
              ELSE f \in Listed \/ "bundle" \in reply.failed

(* A destination gets one text a turn, however often the model calls the   *)
(* tool again after a failure or a partial success.                        *)
OneTextEach == \A d \in DOMAIN accepted : accepted[d] <= 1

(* A recorded attachment can be shown again, across failed writes, crashes *)
(* between the write and the prune, and other turns of the same sender;    *)
(* only a wipe that fails half way leaves a record without its file.       *)
AuditBacked == ~damaged => Referenced \subseteq copies

DeliveryHonest == ReceiptIsHonest /\ OneTextEach /\ AuditBacked
====
