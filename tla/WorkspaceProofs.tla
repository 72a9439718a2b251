---- MODULE WorkspaceProofs ----
(***************************************************************************)
(* Proofs about what keeps, delivers and reads the data of a chat, one     *)
(* part per component of MCWorkspace, for every value of the constants.    *)
(* Each part proves its component's properties of the component's own      *)
(* specification; the last one composes them.                              *)
(***************************************************************************)
EXTENDS MCWorkspace, FilteringProofs, WorkspacePoolProofs, FiniteSetTheorems, SequenceTheorems,
        WellFoundedInduction, TLAPS

(***************************************************************************)
(* TempLinks.  LinkBacked is not inductive: that the sweep of old staging  *)
(* passes over a file whose link still works rests on the link having been *)
(* registered within a tick of the staging, so that it expires before the  *)
(* file is an orphan.                                                      *)
(***************************************************************************)
LinkEntry == [expires : {Absent} \cup 0..LastTick + LinkTTL, requests : 0..MaxRequests + 1]

BackedInTime(t) ==
    Registered(t) /\ entry[t].expires > clock =>
        staged[t] # Absent /\ entry[t].expires <= staged[t] + 1 + LinkTTL

LinkInv == LinkTypeOK /\ \A t \in Tokens \ owned : BackedInTime(t)

LEMMA LinkInitInv == LinkInit => LinkInv
<1> SUFFICES ASSUME LinkInit PROVE LinkInv
  OBVIOUS
<1>1. 0 \in 0..LastTick /\ 0 \in 0..MaxRequests + 1
  BY LinkConstants
<1> QED
  BY <1>1 DEF LinkInit, LinkInv, LinkTypeOK, BackedInTime, Registered, NoLink, Absent

LEMMA NoLinkTyped == NoLink \in LinkEntry /\ NoLink.expires = Absent
<1>1. 0 \in 0..MaxRequests + 1
  BY LinkConstants
<1> QED
  BY <1>1 DEF NoLink, LinkEntry

\* A step that only takes links and files away, the files with their links.
LEMMA TakenAway ==
    ASSUME LinkInv, NEW gone \in SUBSET Tokens, NEW files \in SUBSET Tokens,
           entry' = [t \in Tokens |-> IF t \in gone THEN NoLink ELSE entry[t]],
           staged' = [t \in Tokens |-> IF t \in files THEN Absent ELSE staged[t]],
           \A t \in (files \ gone) \ owned : ~(Registered(t) /\ entry[t].expires > clock),
           server' \in {"off", "starting", "listening"},
           UNCHANGED <<clock, owned, pruned, handed>>
    PROVE  LinkInv'
<1>1. LinkTypeOK'
  BY NoLinkTyped DEF LinkInv, LinkTypeOK, LinkEntry
<1>2. ASSUME NEW t \in Tokens \ owned PROVE BackedInTime(t)'
  <2>1. BackedInTime(t)
    BY DEF LinkInv
  <2>2. CASE t \in gone
    BY <2>2, NoLinkTyped DEF BackedInTime, Registered
  <2>3. CASE t \notin gone
    BY <2>1, <2>3 DEF BackedInTime, Registered
  <2> QED
    BY <2>2, <2>3
<1> QED
  BY <1>1, <1>2 DEF LinkInv

\* No file whose link still works is old enough for the sweep.
LEMMA NoOrphanLinked ==
    ASSUME LinkInv, NEW t \in Orphans \ owned
    PROVE  ~(Registered(t) /\ entry[t].expires > clock)
<1>1. clock \in Nat /\ staged[t] \in {Absent} \cup 0..LastTick /\ entry[t] \in LinkEntry /\ t \in Tokens
  BY LinkConstants DEF LinkInv, LinkTypeOK, Orphans, LinkEntry
<1>2. staged[t] \in Int /\ entry[t].expires \in Int
  BY <1>1, LinkConstants DEF LinkEntry, Absent
<1>3. clock - staged[t] > OrphanAge /\ BackedInTime(t)
  BY <1>1 DEF Orphans, LinkInv
<1> QED
  BY <1>1, <1>2, <1>3, LinkConstants DEF BackedInTime

LEMMA CleanUpKeeps ==
    ASSUME LinkInv, CleanUp, server' \in {"off", "starting", "listening"},
           UNCHANGED <<clock, owned, pruned, handed>>
    PROVE  LinkInv'
<1>1. \A t \in ((Expired \cup Orphans) \ Expired) \ owned : ~(Registered(t) /\ entry[t].expires > clock)
  BY NoOrphanLinked
<1>2. Expired \in SUBSET Tokens /\ Expired \cup Orphans \in SUBSET Tokens
  BY DEF Expired, Orphans
<1> HIDE DEF LinkInv
<1> QED
  BY <1>1, <1>2, TakenAway DEF CleanUp

LEMMA RequestKeeps ==
    ASSUME LinkInv, NEW t \in Tokens, Request(t)
    PROVE  LinkInv'
<1>1. UNCHANGED <<clock, owned, pruned, handed, server>>
  BY DEF Request
<1>2. server' \in {"off", "starting", "listening"}
  BY <1>1 DEF LinkInv, LinkTypeOK
<1>3. CASE Expire({t})
  <2> HIDE DEF LinkInv
  <2> QED
    BY <1>1, <1>2, <1>3, TakenAway DEF Expire
<1>4. CASE /\ UNCHANGED staged
           /\ \E n \in 0..MaxRequests + 1 : entry' = [entry EXCEPT ![t].requests = n]
  <2>1. PICK n \in 0..MaxRequests + 1 : entry' = [entry EXCEPT ![t].requests = n]
    BY <1>4
  <2>2. entry \in [Tokens -> LinkEntry]
    BY DEF LinkInv, LinkTypeOK, LinkEntry
  <2>3. entry' \in [Tokens -> LinkEntry] /\ \A u \in Tokens : entry'[u].expires = entry[u].expires
    BY <2>1, <2>2 DEF LinkEntry
  <2> QED
    BY <1>1, <1>4, <2>3 DEF LinkInv, LinkTypeOK, LinkEntry, BackedInTime, Registered
<1>5. CASE UNCHANGED <<entry, staged>>
  BY <1>1, <1>5 DEF LinkInv, LinkTypeOK, BackedInTime, Registered
<1>6. entry[t].requests \in 0..MaxRequests + 1 /\ MaxRequests + 1 \in 0..MaxRequests + 1
  BY LinkConstants DEF LinkInv, LinkTypeOK
<1>7. CASE entry[t].requests < MaxRequests /\ entry' = [entry EXCEPT ![t].requests = @ + 1] /\ UNCHANGED staged
  <2>1. entry[t].requests + 1 \in 0..MaxRequests + 1
    BY <1>6, <1>7, LinkConstants
  <2> QED
    BY <1>4, <1>7, <2>1
<1>8. CASE entry' = [entry EXCEPT ![t].requests = MaxRequests + 1] /\ UNCHANGED staged
  BY <1>4, <1>6, <1>8
<1>9. \/ UNCHANGED <<entry, staged>> \/ Expire({t})
      \/ entry' = [entry EXCEPT ![t].requests = MaxRequests + 1] /\ UNCHANGED staged
      \/ entry[t].requests < MaxRequests /\ entry' = [entry EXCEPT ![t].requests = @ + 1] /\ UNCHANGED staged
  BY <1>6, LinkConstants DEF Request
<1> QED
  BY <1>3, <1>5, <1>7, <1>8, <1>9

LEMMA LinkNextInv == LinkInv /\ [LinkNext]_linkVars => LinkInv'
<1> SUFFICES ASSUME LinkInv, [LinkNext]_linkVars PROVE LinkInv'
  OBVIOUS
<1>1. ASSUME NEW t \in Tokens, Stage(t) PROVE LinkInv'
  <2>1. clock \in 0..LastTick /\ staged \in [Tokens -> {Absent} \cup 0..LastTick]
    BY DEF LinkInv, LinkTypeOK
  <2>2. staged' \in [Tokens -> {Absent} \cup 0..LastTick] /\ \A u \in Tokens \ {t} : staged'[u] = staged[u]
    BY <1>1, <2>1 DEF Stage
  <2> QED
    BY <1>1, <2>2 DEF LinkInv, LinkTypeOK, Stage, BackedInTime, Registered
<1>2. ASSUME NEW t \in Tokens, Register(t) PROVE LinkInv'
  <2> DEFINE e == [expires |-> clock + LinkTTL, requests |-> 0]
  <2>1. clock \in 0..LastTick /\ entry \in [Tokens -> LinkEntry] /\ staged[t] \in {Absent} \cup 0..LastTick
    BY DEF LinkInv, LinkTypeOK, LinkEntry
  <2>2. e \in LinkEntry
    BY <2>1, LinkConstants DEF LinkEntry
  <2>3. entry' \in [Tokens -> LinkEntry] /\ \A u \in Tokens : entry'[u] = IF u = t THEN e ELSE entry[u]
    BY <1>2, <2>1, <2>2 DEF Register
  <2>4. t \notin owned => staged[t] # Absent /\ e.expires <= staged[t] + 1 + LinkTTL
    BY <1>2, <2>1, LinkConstants DEF Register, Servable, Absent
  <2> HIDE DEF e
  <2>5. UNCHANGED <<clock, staged, owned, pruned, server>> /\ handed' \subseteq Tokens
    BY <1>2 DEF Register, LinkInv, LinkTypeOK
  <2>6. LinkTypeOK'
    BY <2>3, <2>5 DEF LinkInv, LinkTypeOK, LinkEntry
  <2>7. ASSUME NEW u \in Tokens \ owned PROVE BackedInTime(u)'
    <3>1. CASE u = t
      BY <2>3, <2>4, <2>5, <3>1 DEF BackedInTime
    <3>2. CASE u # t
      BY <2>3, <2>5, <3>2 DEF LinkInv, BackedInTime, Registered
    <3> QED
      BY <3>1, <3>2
  <2> QED
    BY <2>5, <2>6, <2>7 DEF LinkInv
<1>3. ASSUME NEW t \in Tokens, OwnFileGoes(t) PROVE LinkInv'
  BY <1>3 DEF OwnFileGoes, LinkInv, LinkTypeOK, BackedInTime, Registered
<1>4. CASE CleanUpTimer
  <2>1. server' \in {"off", "starting", "listening"}
    BY <1>4 DEF CleanUpTimer
  <2> HIDE DEF LinkInv
  <2> QED
    BY <1>4, <2>1, CleanUpKeeps DEF CleanUpTimer
<1>5. CASE StartServer \/ ServerFails \/ UNCHANGED linkVars
  BY <1>5 DEF StartServer, ServerFails, linkVars, LinkInv, LinkTypeOK, BackedInTime, Registered
<1>6. CASE Listening
  <2>1. CASE CleanUp /\ server' = "listening"
    BY <1>6, <2>1, CleanUpKeeps DEF Listening
  <2>2. CASE server' = "off" /\ UNCHANGED <<entry, staged>>
    BY <1>6, <2>2 DEF Listening, LinkInv, LinkTypeOK, BackedInTime, Registered
  <2> QED
    BY <1>6, <2>1, <2>2 DEF Listening
<1>7. CASE NewProcess
  BY <1>7, NoLinkTyped DEF NewProcess, LinkInv, LinkTypeOK, BackedInTime, Registered, LinkEntry
<1>8. CASE LinkTick
  <2>1. clock \in 0..LastTick /\ clock' \in 0..LastTick /\ clock' > clock
    BY <1>8, LinkConstants DEF LinkTick, LinkInv, LinkTypeOK
  <2>2. LinkTypeOK'
    BY <1>8, <2>1 DEF LinkTick, LinkInv, LinkTypeOK
  <2>3. ASSUME NEW t \in Tokens \ owned PROVE BackedInTime(t)'
    <3>1. BackedInTime(t) /\ entry[t].expires \in Int
      BY LinkConstants DEF LinkInv, LinkTypeOK, Absent
    <3> QED
      BY <1>8, <2>1, <3>1 DEF LinkTick, BackedInTime, Registered
  <2> QED
    BY <1>8, <2>2, <2>3 DEF LinkInv, LinkTick
<1> QED
  BY <1>1, <1>2, <1>3, <1>4, <1>5, <1>6, <1>7, <1>8, RequestKeeps DEF LinkNext

LEMMA LinkInvariant == LinkInit /\ [][LinkNext]_linkVars => []LinkInv
  BY LinkInitInv, LinkNextInv, PTL

LEMMA LinkInvHolds == LinkInv => LinkBacked
BY DEF LinkInv, LinkBacked, BackedInTime

(* Neither the sweep of old staging nor another link's end takes the file  *)
(* of a link that still works, whatever the lifetimes, as long as a link's *)
(* is shorter than the age at which staging is swept.                      *)
THEOREM LinksBacked == LinkSpec => []LinkBacked
BY LinkInvHolds, LinkInvariant, PTL DEF LinkSpec

(***************************************************************************)
(* Delivery, the reply.  ReplyFine says of every component of a response,  *)
(* once it was tried, that it is accepted or named in the receipt, and of  *)
(* what was accepted that the counters tell of it.                         *)
(***************************************************************************)
ReplyRecord ==
    [pc : {"idle", "voice", "footer", "text", "files", "links", "done"},
     platform : {"whatsapp", "discord"}, wants : SUBSET {"voice", "footer", "text"},
     route : [Files -> {"none", "direct", "link"}], text : BOOLEAN, direct : Nat, linked : Nat,
     failed : SUBSET (Parts \cup Groups \cup Files), links : SUBSET Files]

\* The components a delivery at this one has still to try.
ToTry(c) ==
    CASE c = "voice" -> {"idle", "voice"}
      [] c = "footer" -> {"idle", "voice", "footer"}
      [] c = "text" -> {"idle", "voice", "footer", "text"}
      [] c = "files" -> {"idle", "voice", "footer", "text", "files"}

VoiceFine(r, got) ==
    /\ <<"voice", 1>> \in got => r.direct > 0
    /\ <<"transcript", 2>> \in got => r.text
    /\ "transcript" \in r.failed => "voice" \in r.failed
    /\ "voice" \in r.failed => "voice" \in r.wants /\ <<"voice", 1>> \notin got
    /\ r.pc \in ToTry("voice") => <<"voice", 1>> \notin got /\ "voice" \notin r.failed
    /\ "voice" \in r.wants /\ r.pc \notin ToTry("voice") /\ "voice" \notin r.failed => <<"voice", 1>> \in got

TextFine(c, r, got) ==
    /\ Whole(c) \cap got # {} => r.direct > 0 \/ r.text
    /\ c \in r.failed => c \in r.wants /\ ~(Whole(c) \subseteq got)
    /\ r.pc \in ToTry(c) => Whole(c) \cap got = {} /\ c \notin r.failed
    /\ c \in r.wants /\ r.pc \notin ToTry(c) /\ c \notin r.failed => Whole(c) \subseteq got

FilesFine(r, got) ==
    /\ got \cap Files \subseteq Routed(r) \ r.links
    /\ r.links \subseteq Routed(r)
    /\ r.failed \cap Files \subseteq Routed(r) \ (got \cup r.links)
    /\ \A g \in Groups : g \in r.failed => \E f \in Routed(r) : f \notin got \cup r.links
    /\ "attachments" \in r.failed => r.pc = "done"
    /\ r.pc \in ToTry("files") =>
          got \cap Files = {} /\ r.failed \cap Groups = {} /\ r.failed \cap Files = {} /\ r.links = {} /\ r.linked = 0
    /\ r.pc \notin ToTry("files") =>
          \A f \in Routed(r) : f \in got \cup r.links \/ r.failed \cap ({f} \cup Groups) # {}
    /\ got \cap Files # {} => r.direct > 0 \/ r.linked > 0 \/ "attachments" \in r.failed
    /\ r.pc = "done" => r.links = {}

\* How far the counters can have come.
CountsFine(r) ==
    /\ r.pc \in ToTry("voice") => r.direct = 0
    /\ r.pc = "footer" => r.direct <= 1
    /\ r.pc = "text" => r.direct <= 3
    /\ r.pc = "files" => r.direct <= 5
    /\ r.direct <= 5 + Cardinality(Files)
    /\ r.linked + Cardinality(r.links) <= Cardinality(Files)

ReplyFine(r, got) ==
    /\ r \in ReplyRecord /\ got \subseteq Pieces
    /\ r.pc \in {"voice", "footer", "text"} => r.pc \in r.wants
    /\ r.pc # "idle" => r.wants # {} \/ Routed(r) # {}
    /\ VoiceFine(r, got) /\ TextFine("footer", r, got) /\ TextFine("text", r, got)
    /\ FilesFine(r, got) /\ CountsFine(r)

LEMMA FileNames ==
    /\ IsFiniteSet(Files) /\ Cardinality(Files) \in Nat
    /\ Files \cap (Parts \cup Groups) = {}
    /\ Groups = {"bundle", "attachments"} /\ Groups \cap Parts = {}
    /\ \A c \in Parts, i \in {1, 2} : <<c, i>> \notin Files
    /\ \A g : g \cap Files # {} => \E f \in Files : f \in g
<1>1. IsFiniteSet(Files) /\ Cardinality(Files) \in Nat
  BY DeliveryConstants, FS_CardinalityType
<1>2. \A c \in Parts, i \in {1, 2} : <<c, i>> \in Parts \X {1, 2}
  OBVIOUS
<1>3. Groups = {"bundle", "attachments"} /\ Groups \cap Parts = {}
  BY DEF Groups, Parts
<1> QED
  BY <1>1, <1>2, <1>3, DeliveryConstants

\* The order of the components.
LEMMA NextOfIs ==
    ASSUME NEW wants
    PROVE  /\ NextOf("idle", wants) = IF "voice" \in wants THEN "voice" ELSE IF "footer" \in wants THEN "footer"
                                      ELSE IF "text" \in wants THEN "text" ELSE "files"
           /\ NextOf("voice", wants) = IF "footer" \in wants THEN "footer"
                                       ELSE IF "text" \in wants THEN "text" ELSE "files"
           /\ NextOf("footer", wants) = IF "text" \in wants THEN "text" ELSE "files"
           /\ NextOf("text", wants) = "files"
<1>1. Order[1] = "voice" /\ Order[2] = "footer" /\ Order[3] = "text" /\ Order[4] = "files"
  BY DEF Order
<1>2. 1..4 = {1, 2, 3, 4}
  OBVIOUS
<1> DEFINE left(at) == {i \in 1..4 : i > at /\ (i = 4 \/ Order[i] \in wants)}
           first(at) == CHOOSE i \in left(at) : \A j \in left(at) : i <= j
<1>3. ASSUME NEW at \in 0..3, NEW m \in left(at), \A j \in left(at) : m <= j
      PROVE  first(at) = m
  <2>1. \A i \in left(at) : i \in Int
    OBVIOUS
  <2>2. first(at) \in left(at) /\ \A j \in left(at) : first(at) <= j
    BY <1>3
  <2> QED
    BY <1>3, <2>1, <2>2
<1>4. first(0) = IF "voice" \in wants THEN 1 ELSE IF "footer" \in wants THEN 2 ELSE IF "text" \in wants THEN 3 ELSE 4
  <2> DEFINE m == IF "voice" \in wants THEN 1 ELSE IF "footer" \in wants THEN 2 ELSE IF "text" \in wants THEN 3 ELSE 4
  <2>1. m \in left(0) /\ \A j \in left(0) : m <= j
    BY <1>1, <1>2
  <2> HIDE DEF left, first
  <2> QED
    BY <1>3, <2>1
<1>5. first(1) = IF "footer" \in wants THEN 2 ELSE IF "text" \in wants THEN 3 ELSE 4
  <2> DEFINE m == IF "footer" \in wants THEN 2 ELSE IF "text" \in wants THEN 3 ELSE 4
  <2>1. m \in left(1) /\ \A j \in left(1) : m <= j
    BY <1>1, <1>2
  <2> HIDE DEF left, first
  <2> QED
    BY <1>3, <2>1
<1>6. first(2) = IF "text" \in wants THEN 3 ELSE 4
  <2> DEFINE m == IF "text" \in wants THEN 3 ELSE 4
  <2>1. m \in left(2) /\ \A j \in left(2) : m <= j
    BY <1>1, <1>2
  <2> HIDE DEF left, first
  <2> QED
    BY <1>3, <2>1
<1>7. first(3) = 4
  <2>1. 4 \in left(3) /\ \A j \in left(3) : 4 <= j
    BY <1>1, <1>2
  <2> HIDE DEF left, first
  <2> QED
    BY <1>3, <2>1
<1>8. /\ (CHOOSE k \in 1..4 : Order[k] = "voice") = 1
      /\ (CHOOSE k \in 1..4 : Order[k] = "footer") = 2
      /\ (CHOOSE k \in 1..4 : Order[k] = "text") = 3
  BY <1>1, <1>2
<1>9. /\ NextOf("idle", wants) = Order[first(0)] /\ NextOf("voice", wants) = Order[first(1)]
      /\ NextOf("footer", wants) = Order[first(2)] /\ NextOf("text", wants) = Order[first(3)]
  <2>1. NextOf("idle", wants) = Order[first(0)]
    BY DEF NextOf
  <2>2. NextOf("voice", wants) = Order[first(CHOOSE k \in 1..4 : Order[k] = "voice")]
    BY DEF NextOf
  <2>3. NextOf("footer", wants) = Order[first(CHOOSE k \in 1..4 : Order[k] = "footer")]
    BY DEF NextOf
  <2>4. NextOf("text", wants) = Order[first(CHOOSE k \in 1..4 : Order[k] = "text")]
    BY DEF NextOf
  <2> HIDE DEF first
  <2> QED
    BY <1>8, <2>1, <2>2, <2>3, <2>4
<1> HIDE DEF first
<1> QED
  BY <1>1, <1>4, <1>5, <1>6, <1>7, <1>9

\* What a step of the first three components leaves alone.
LEMMA FilesUntouched ==
    ASSUME ReplyFine(reply, reached), reply.pc \in ToTry("files"), NEW r \in ReplyRecord, NEW got,
           got \cap Files = reached \cap Files, r.failed \cap (Files \cup Groups) = {},
           r.route = reply.route, r.links = reply.links, r.linked = reply.linked,
           r.pc \in ToTry("files")
    PROVE  FilesFine(r, got) /\ Routed(r) = Routed(reply)
<1>1. Routed(r) = Routed(reply)
  BY DEF Routed
<1>2. FilesFine(reply, reached) /\ reached \cap Files = {} /\ reply.links = {} /\ reply.linked = 0
  BY DEF ReplyFine, FilesFine
<1>3. r.failed \cap Groups = {} /\ r.failed \cap Files = {} /\ got \cap Files = {}
  BY <1>2
<1>4. r.pc # "done"
  BY DEF ToTry
<1>5. \A g \in Groups : g \notin r.failed
  BY <1>3
<1>6. "attachments" \notin r.failed
  BY <1>5, FileNames
<1> QED
  BY <1>1, <1>2, <1>3, <1>4, <1>5, <1>6 DEF FilesFine

LEMMA EarlierFailed ==
    ASSUME ReplyFine(reply, reached), reply.pc \in ToTry("files"), NEW more \in SUBSET Parts
    PROVE  (reply.failed \cup more) \cap (Files \cup Groups) = {}
<1>1. Groups \cap Parts = {}
  BY FileNames
<1> QED
  BY <1>1, FileNames DEF ReplyFine, FilesFine

\* Two replies with the same text and files.
SameRest(q, r) ==
    q.wants = r.wants /\ q.route = r.route /\ q.links = r.links /\ q.linked = r.linked

LEMMA SentIs ==
    ASSUME NEW fields \in ReplyRecord, NEW c, Sent(c, fields),
           NextOf(c, reply.wants) \in {"voice", "footer", "text", "files"}
    PROVE  /\ reply' \in ReplyRecord /\ reply'.pc = NextOf(c, reply.wants) /\ SameRest(reply', fields)
           /\ reply'.direct = fields.direct /\ reply'.text = fields.text /\ reply'.failed = fields.failed
<1> DEFINE n == NextOf(c, reply.wants)
<1>1. n \in {"idle", "voice", "footer", "text", "files", "links", "done"}
  OBVIOUS
<1>2. reply' = [fields EXCEPT !.pc = n]
  BY DEF Sent
<1>3. ASSUME NEW m \in {"idle", "voice", "footer", "text", "files", "links", "done"},
             NEW q, q = [fields EXCEPT !.pc = m]
      PROVE  q \in ReplyRecord /\ q.pc = m /\ SameRest(q, fields)
             /\ q.direct = fields.direct /\ q.text = fields.text /\ q.failed = fields.failed
  BY <1>3 DEF ReplyRecord, SameRest
<1> QED
  BY <1>1, <1>2, <1>3

LEMMA FieldsAre ==
    ASSUME NEW r \in ReplyRecord
    PROVE  /\ \A d \in Nat : LET q == [r EXCEPT !.direct = d]
                             IN  /\ q \in ReplyRecord /\ q.direct = d /\ q.text = r.text
                                 /\ q.failed = r.failed /\ SameRest(q, r)
           /\ \A t \in BOOLEAN : LET q == [r EXCEPT !.text = t]
                                 IN  /\ q \in ReplyRecord /\ q.direct = r.direct /\ q.text = t
                                     /\ q.failed = r.failed /\ SameRest(q, r)
           /\ \A fl \in SUBSET (Parts \cup Groups \cup Files) :
                 LET q == [r EXCEPT !.failed = fl]
                 IN  /\ q \in ReplyRecord /\ q.direct = r.direct /\ q.text = r.text
                     /\ q.failed = fl /\ SameRest(q, r)
<1>1. ASSUME NEW d \in Nat, NEW q, q = [r EXCEPT !.direct = d]
      PROVE  q \in ReplyRecord /\ q.direct = d /\ q.text = r.text /\ q.failed = r.failed /\ SameRest(q, r)
  BY <1>1 DEF ReplyRecord, SameRest
<1>2. ASSUME NEW t \in BOOLEAN, NEW q, q = [r EXCEPT !.text = t]
      PROVE  q \in ReplyRecord /\ q.direct = r.direct /\ q.text = t /\ q.failed = r.failed /\ SameRest(q, r)
  BY <1>2 DEF ReplyRecord, SameRest
<1>3. ASSUME NEW fl \in SUBSET (Parts \cup Groups \cup Files), NEW q, q = [r EXCEPT !.failed = fl]
      PROVE  q \in ReplyRecord /\ q.direct = r.direct /\ q.text = r.text /\ q.failed = fl /\ SameRest(q, r)
  BY <1>3 DEF ReplyRecord, SameRest
<1> QED
  BY <1>1, <1>2, <1>3

LEMMA VoiceKeeps ==
    ASSUME ReplyFine(reply, reached), SendVoice
    PROVE  ReplyFine(reply', reached')
<1> DEFINE next == NextOf("voice", reply.wants)
<1>1. /\ reply \in ReplyRecord /\ reached \subseteq Pieces /\ reply.pc = "voice"
      /\ "voice" \in reply.wants /\ reply.direct = 0 /\ reply.linked = 0
      /\ <<"voice", 1>> \notin reached /\ "voice" \notin reply.failed /\ "transcript" \notin reply.failed
      /\ <<"transcript", 2>> \in reached => reply.text
      /\ reply.pc \in ToTry("files")
  BY DEF ReplyFine, VoiceFine, FilesFine, CountsFine, ToTry, SendVoice, Sent
<1>2. /\ next \in {"footer", "text", "files"} /\ (next # "files" => next \in reply.wants)
      /\ "footer" \in reply.wants => next = "footer"
      /\ "text" \in reply.wants => next \in {"footer", "text"}
  BY NextOfIs
<1>3. /\ reply' \in ReplyRecord /\ reply'.pc = next /\ reached' \subseteq Pieces
      /\ reply'.wants = reply.wants /\ reply'.route = reply.route
      /\ reply'.links = reply.links /\ reply'.linked = reply.linked
      /\ reply'.direct \in {0, 1} /\ (reply.text => reply'.text)
      /\ reply'.failed \subseteq reply.failed \cup {"voice", "transcript"}
      /\ reached' \subseteq reached \cup {<<"voice", 1>>, <<"transcript", 1>>, <<"transcript", 2>>}
      /\ reached \subseteq reached' /\ reply.failed \subseteq reply'.failed
      /\ <<"voice", 1>> \in reached' <=> "voice" \notin reply'.failed
      /\ <<"voice", 1>> \in reached' => reply'.direct > 0
      /\ <<"transcript", 2>> \in reached' => reply'.text
      /\ "transcript" \in reply'.failed => "voice" \in reply'.failed
  <2>1. Whole("transcript") = {<<"transcript", 1>>, <<"transcript", 2>>}
        /\ Whole("transcript") \cup {<<"voice", 1>>} \subseteq Pieces
    BY DEF Whole, Pieces
  <2>2. reply.text \in BOOLEAN /\ NextOf("voice", reply.wants) \in {"voice", "footer", "text", "files"}
        /\ reply.failed \in SUBSET (Parts \cup Groups \cup Files)
    BY <1>1, <1>2 DEF ReplyRecord
  <2>3. reply.failed \cup {"voice"} \in SUBSET (Parts \cup Groups \cup Files)
        /\ reply.failed \cup {"voice", "transcript"} \in SUBSET (Parts \cup Groups \cup Files)
    BY <2>2 DEF Parts
  <2>4. CASE Sent("voice", [reply EXCEPT !.direct = @ + 1]) /\ reached' = reached \cup {<<"voice", 1>>}
    <3> DEFINE q == [reply EXCEPT !.direct = 1]
    <3>1. Sent("voice", q)
      BY <1>1, <2>4
    <3>2. q \in ReplyRecord /\ q.direct = 1 /\ q.text = reply.text /\ q.failed = reply.failed /\ SameRest(q, reply)
      BY <1>1, FieldsAre
    <3> HIDE DEF q
    <3>3. /\ reply' \in ReplyRecord /\ reply'.pc = next /\ SameRest(reply', reply)
          /\ reply'.direct = 1 /\ reply'.text = reply.text /\ reply'.failed = reply.failed
      BY <2>2, <3>1, <3>2, SentIs DEF SameRest
    <3> QED
      BY <1>1, <2>1, <2>4, <3>3 DEF SameRest
  <2>5. CASE Sent("voice", [reply EXCEPT !.failed = @ \cup {"voice"}]) /\ UNCHANGED reached
    <3> DEFINE q == [reply EXCEPT !.failed = reply.failed \cup {"voice"}]
    <3>1. q \in ReplyRecord /\ q.direct = 0 /\ q.text = reply.text /\ q.failed = reply.failed \cup {"voice"} /\ SameRest(q, reply)
      BY <1>1, <2>3, FieldsAre
    <3>2. Sent("voice", q)
      BY <2>5
    <3> HIDE DEF q
    <3>3. /\ reply' \in ReplyRecord /\ reply'.pc = next /\ SameRest(reply', reply)
          /\ reply'.direct = 0 /\ reply'.text = reply.text /\ reply'.failed = reply.failed \cup {"voice"}
      BY <2>2, <3>1, <3>2, SentIs DEF SameRest
    <3> QED
      BY <1>1, <2>5, <3>3 DEF SameRest
  <2>6. CASE /\ Sent("voice", [reply EXCEPT !.failed = @ \cup {"voice"}, !.text = TRUE])
             /\ reached' = reached \cup Whole("transcript")
    <3> DEFINE q == [reply EXCEPT !.failed = reply.failed \cup {"voice"}]
               q2 == [q EXCEPT !.text = TRUE]
    <3>1. q \in ReplyRecord /\ q.direct = 0 /\ q.failed = reply.failed \cup {"voice"} /\ SameRest(q, reply)
      BY <1>1, <2>3, FieldsAre
    <3>2. q2 = [reply EXCEPT !.failed = @ \cup {"voice"}, !.text = TRUE]
      OBVIOUS
    <3> HIDE DEF q
    <3>3. q2 \in ReplyRecord /\ q2.direct = 0 /\ q2.text = TRUE /\ q2.failed = reply.failed \cup {"voice"} /\ SameRest(q2, reply)
      BY <3>1, FieldsAre DEF SameRest
    <3>4. Sent("voice", q2)
      BY <2>6, <3>2
    <3> HIDE DEF q2
    <3>5. /\ reply' \in ReplyRecord /\ reply'.pc = next /\ SameRest(reply', reply)
          /\ reply'.direct = 0 /\ reply'.text = TRUE /\ reply'.failed = reply.failed \cup {"voice"}
      BY <2>2, <3>3, <3>4, SentIs DEF SameRest
    <3>6. <<"voice", 1>> \notin Whole("transcript")
      BY <2>1
    <3> QED
      BY <1>1, <2>1, <2>6, <3>5, <3>6 DEF SameRest
  <2>7. CASE \E n \in 0..1 :
                /\ Sent("voice", [reply EXCEPT !.failed = @ \cup {"voice", "transcript"}])
                /\ reached' = reached \cup {<<"transcript", i>> : i \in 1..n}
    <3> DEFINE q == [reply EXCEPT !.failed = reply.failed \cup {"voice", "transcript"}]
    <3>1. q \in ReplyRecord /\ q.direct = 0 /\ q.text = reply.text
          /\ q.failed = reply.failed \cup {"voice", "transcript"} /\ SameRest(q, reply)
      BY <1>1, <2>3, FieldsAre
    <3>2. PICK n \in 0..1 : Sent("voice", q) /\ reached' = reached \cup {<<"transcript", i>> : i \in 1..n}
      BY <2>7
    <3> HIDE DEF q
    <3>3. /\ reply' \in ReplyRecord /\ reply'.pc = next /\ SameRest(reply', reply)
          /\ reply'.direct = 0 /\ reply'.text = reply.text /\ reply'.failed = reply.failed \cup {"voice", "transcript"}
      BY <2>2, <3>1, <3>2, SentIs DEF SameRest
    <3>4. \A i \in 1..n : i = 1
      OBVIOUS
    <3>5. reached' \subseteq reached \cup {<<"transcript", 1>>} /\ reached \subseteq reached'
      BY <3>2, <3>4
    <3>6. <<"voice", 1>> \notin reached' /\ (<<"transcript", 2>> \in reached' => reply.text) /\ reached' \subseteq Pieces
      BY <1>1, <2>1, <3>5
    <3> QED
      BY <1>1, <3>3, <3>5, <3>6 DEF SameRest
  <2> QED
    BY <2>4, <2>5, <2>6, <2>7 DEF SendVoice
<1>4. reply'.failed \cap (Files \cup Groups) = {}
      /\ reply'.failed \cap {"footer", "text"} = reply.failed \cap {"footer", "text"}
  <2>1. (reply.failed \cup {"voice", "transcript"}) \cap (Files \cup Groups) = {}
    BY <1>1, EarlierFailed DEF Parts
  <2> QED
    BY <1>3, <2>1
<1>5. reached' \cap Files = reached \cap Files
      /\ reached' \cap (Whole("footer") \cup Whole("text")) = reached \cap (Whole("footer") \cup Whole("text"))
  <2>1. \A x \in {<<"voice", 1>>, <<"transcript", 1>>, <<"transcript", 2>>} :
           x \notin Files /\ x \notin Whole("footer") \cup Whole("text")
    BY FileNames DEF Whole, Parts
  <2> QED
    BY <1>3, <2>1
<1>6. reply.failed \cap {"footer", "text"} = {} /\ reached \cap (Whole("footer") \cup Whole("text")) = {}
  BY <1>1 DEF ReplyFine, TextFine, ToTry
<1> HIDE DEF next
<1>7. FilesFine(reply', reached') /\ Routed(reply') = Routed(reply)
  BY <1>1, <1>2, <1>3, <1>4, <1>5, FilesUntouched DEF ToTry
<1>8. VoiceFine(reply', reached')
  BY <1>1, <1>2, <1>3 DEF VoiceFine, ToTry
<1>9. TextFine("footer", reply', reached')
  BY <1>1, <1>2, <1>3, <1>4, <1>5, <1>6 DEF TextFine, ToTry
<1>10. TextFine("text", reply', reached')
  BY <1>1, <1>2, <1>3, <1>4, <1>5, <1>6 DEF TextFine, ToTry
<1>11. CountsFine(reply')
  BY <1>1, <1>2, <1>3, FileNames DEF CountsFine, ReplyFine, ToTry
<1> QED
  BY <1>1, <1>2, <1>3, <1>7, <1>8, <1>9, <1>10, <1>11 DEF ReplyFine

\* The chunks of one text.
LEMMA ChunksAre ==
    ASSUME NEW c \in {"footer", "text"}, NEW n \in 0..2
    PROVE  LET sent == {<<c, i>> : i \in 1..n}
           IN  /\ sent \subseteq Whole(c) /\ Whole(c) \subseteq Pieces
               /\ n = 2 <=> Whole(c) \subseteq sent
               /\ n = 0 => sent = {}
               /\ sent \cap Files = {} /\ <<"voice", 1>> \notin sent /\ <<"transcript", 2>> \notin sent
               /\ \A d \in {"footer", "text"} \ {c} : sent \cap Whole(d) = {}
<1>1. n \in {0, 1, 2} /\ Whole(c) = {<<c, 1>>, <<c, 2>>}
  BY DEF Whole
<1> DEFINE sent == {<<c, i>> : i \in 1..n}
<1>2. /\ n = 0 => sent = {}
      /\ n = 1 => sent = {<<c, 1>>}
      /\ n = 2 => sent = {<<c, 1>>, <<c, 2>>}
  <2>1. 1..0 = {} /\ 1..1 = {1} /\ 1..2 = {1, 2}
    OBVIOUS
  <2> QED
    BY <2>1
<1>3. Whole(c) \subseteq Pieces
  BY DEF Pieces
<1>4. <<c, 1>> \notin Files /\ <<c, 2>> \notin Files
  BY FileNames DEF Parts
<1>5. \A d \in {"footer", "text"} \ {c} : Whole(c) \cap Whole(d) = {}
  BY DEF Whole
<1>6. <<"voice", 1>> \notin Whole(c) /\ <<"transcript", 2>> \notin Whole(c)
  BY <1>1
<1>7. sent \subseteq Whole(c) /\ (n = 2 <=> Whole(c) \subseteq sent)
  BY <1>1, <1>2
<1> HIDE DEF sent
<1>8. sent \cap Files = {}
  BY <1>1, <1>4, <1>7
<1> QED
  BY <1>2, <1>3, <1>5, <1>6, <1>7, <1>8 DEF sent

\* A footer or a text of which n chunks are accepted, counted or not.
LEMMA ChunksKeep ==
    ASSUME ReplyFine(reply, reached), NEW c \in {"footer", "text"}, NEW n \in 0..2, NEW d \in 0..2,
           reply.pc = c, reply' \in ReplyRecord, reply'.pc = NextOf(c, reply.wants), SameRest(reply', reply),
           reply'.direct = reply.direct + d, reply.text => reply'.text,
           c = "text" => d <= 1, n # 0 => d > 0 \/ reply'.text,
           reply'.failed = IF n = 2 THEN reply.failed ELSE reply.failed \cup {c},
           reached' = reached \cup {<<c, i>> : i \in 1..n}
    PROVE  ReplyFine(reply', reached')
<1> DEFINE sent == {<<c, i>> : i \in 1..n}
<1>1. /\ sent \subseteq Whole(c) /\ Whole(c) \subseteq Pieces
      /\ n = 2 <=> Whole(c) \subseteq sent
      /\ n = 0 => sent = {}
      /\ sent \cap Files = {} /\ <<"voice", 1>> \notin sent /\ <<"transcript", 2>> \notin sent
      /\ \A e \in {"footer", "text"} \ {c} : sent \cap Whole(e) = {}
  BY ChunksAre
<1>2. reached' = reached \cup sent
  OBVIOUS
<1> HIDE DEF sent
<1>3. /\ reply \in ReplyRecord /\ reached \subseteq Pieces /\ c \in reply.wants
      /\ reply.pc \in ToTry("files") /\ reply.pc \notin ToTry("voice")
      /\ reply.direct \in Nat /\ reply'.direct \in Nat /\ reply'.direct >= reply.direct
  BY DEF ReplyFine, ToTry, ReplyRecord
<1>4. /\ reply'.pc \in {"text", "files"} /\ reply'.pc \notin ToTry(c) /\ reply'.pc \notin ToTry("voice")
      /\ reply'.pc = "text" => c = "footer" /\ "text" \in reply.wants
      /\ c = "footer" /\ reply'.pc = "files" => "text" \notin reply.wants
      /\ reply'.pc \in ToTry("files") /\ reply'.pc # "done" /\ reply'.pc # "idle"
  BY NextOfIs DEF ToTry
<1>5. reply'.failed \cap (Files \cup Groups) = {}
  <2>1. {c} \in SUBSET Parts /\ {} \in SUBSET Parts
    BY DEF Parts
  <2> QED
    BY <1>3, <2>1, EarlierFailed
<1>6. reached' \cap Files = reached \cap Files
  BY <1>1, <1>2
<1>7. FilesFine(reply', reached') /\ Routed(reply') = Routed(reply)
  BY <1>3, <1>4, <1>5, <1>6, FilesUntouched DEF SameRest
<1>8. VoiceFine(reply', reached')
  BY <1>1, <1>2, <1>3, <1>4 DEF ReplyFine, VoiceFine, SameRest
<1>9. reached \cap Whole(c) = {} /\ c \notin reply.failed
  BY DEF ReplyFine, TextFine, ToTry
<1>10. TextFine(c, reply', reached')
  <2>1. Whole(c) \subseteq reached' <=> n = 2
    BY <1>1, <1>2, <1>9
  <2>2. reached' \cap Whole(c) # {} => n # 0
    BY <1>1, <1>2, <1>9
  <2>3. reached' \cap Whole(c) # {} => reply'.direct > 0 \/ reply'.text
    BY <1>3, <2>2
  <2> QED
    BY <1>3, <1>4, <1>9, <2>1, <2>3 DEF TextFine, SameRest
<1>11. ASSUME NEW e \in {"footer", "text"}, e # c
       PROVE  TextFine(e, reply', reached')
  <2>1. TextFine(e, reply, reached)
    BY DEF ReplyFine
  <2>2. reached' \cap Whole(e) = reached \cap Whole(e) /\ (Whole(e) \subseteq reached' <=> Whole(e) \subseteq reached)
    BY <1>1, <1>2, <1>11
  <2>3. e \in reply'.failed <=> e \in reply.failed
    BY <1>11
  <2>4. reply'.pc \in ToTry(e) => reply.pc \in ToTry(e)
    BY <1>4, <1>11 DEF ToTry
  <2>5. e \in reply.wants /\ reply.pc \in ToTry(e) => reply'.pc \in ToTry(e)
    BY <1>4, <1>11 DEF ToTry
  <2>6. Whole(e) \cap reached' # {} => reply'.direct > 0 \/ reply'.text
    BY <1>3, <2>1, <2>2 DEF TextFine
  <2>7. /\ Whole(e) \cap reached' = reached' \cap Whole(e)
        /\ reply'.wants = reply.wants
    BY DEF SameRest
  <2> QED
    BY <2>1, <2>2, <2>3, <2>4, <2>5, <2>6, <2>7 DEF TextFine
<1>12. CountsFine(reply')
  <2>1. /\ reply.links \subseteq Files /\ reply.links = {} /\ reply.linked = 0
        /\ c = "footer" => reply.direct <= 1
        /\ c = "text" => reply.direct <= 3
    BY <1>3 DEF ReplyFine, FilesFine, CountsFine, ReplyRecord
  <2>2. c = "footer" => reply'.direct <= 3
    BY <1>3, <2>1
  <2>3. c = "text" => reply'.direct <= 5
    BY <1>3, <2>1
  <2>4. reply'.linked + Cardinality(reply'.links) <= Cardinality(Files)
    BY DEF ReplyFine, CountsFine, SameRest
  <2>5. reply'.direct <= 5
    BY <1>3, <2>2, <2>3
  <2> QED
    BY <1>3, <1>4, <2>2, <2>3, <2>4, <2>5, FileNames DEF CountsFine, ToTry
<1>13. reached' \subseteq Pieces
  BY <1>1, <1>2, <1>3
<1>14. /\ reply'.pc \in {"voice", "footer", "text"} => reply'.pc \in reply'.wants
       /\ reply'.pc # "idle" => reply'.wants # {} \/ Routed(reply') # {}
  BY <1>3, <1>4 DEF SameRest
<1> QED
  BY <1>7, <1>8, <1>10, <1>11, <1>12, <1>13, <1>14 DEF ReplyFine

LEMMA FooterKeeps ==
    ASSUME ReplyFine(reply, reached), SendFooter
    PROVE  ReplyFine(reply', reached')
<1>1. PICK n \in 0..2 :
         /\ Sent("footer", [reply EXCEPT !.direct = @ + n, !.failed = IF n = 2 THEN @ ELSE @ \cup {"footer"}])
         /\ reached' = reached \cup {<<"footer", i>> : i \in 1..n}
  BY DEF SendFooter
<1> DEFINE fl == IF n = 2 THEN reply.failed ELSE reply.failed \cup {"footer"}
           q == [reply EXCEPT !.direct = reply.direct + n]
           q2 == [q EXCEPT !.failed = fl]
<1>2. reply \in ReplyRecord /\ reply.direct + n \in Nat /\ fl \in SUBSET (Parts \cup Groups \cup Files)
  BY DEF ReplyFine, ReplyRecord, Parts
<1> HIDE DEF fl
<1>3. q \in ReplyRecord /\ q.direct = reply.direct + n /\ q.text = reply.text /\ q.failed = reply.failed /\ SameRest(q, reply)
  BY <1>2, FieldsAre
<1>4. Sent("footer", q2)
  BY <1>1 DEF fl
<1> HIDE DEF q
<1>5. q2 \in ReplyRecord /\ q2.direct = reply.direct + n /\ q2.text = reply.text /\ q2.failed = fl /\ SameRest(q2, reply)
  BY <1>2, <1>3, FieldsAre DEF SameRest
<1> HIDE DEF q2
<1>6. /\ reply' \in ReplyRecord /\ reply'.pc = NextOf("footer", reply.wants) /\ SameRest(reply', reply)
      /\ reply'.direct = reply.direct + n /\ reply'.text = reply.text /\ reply'.failed = fl
  <2>1. NextOf("footer", reply.wants) \in {"voice", "footer", "text", "files"}
    BY NextOfIs
  <2> QED
    BY <1>4, <1>5, <2>1, SentIs DEF SameRest
<1>7. reply.pc = "footer"
  BY <1>4 DEF Sent
<1>8. /\ "footer" \in {"footer", "text"}
      /\ reply.text => reply'.text
      /\ n # 0 => n > 0 \/ reply'.text
      /\ reply'.failed = IF n = 2 THEN reply.failed ELSE reply.failed \cup {"footer"}
  BY <1>6 DEF fl
<1> QED
  BY <1>1, <1>6, <1>7, <1>8, ChunksKeep

LEMMA TextKeeps ==
    ASSUME ReplyFine(reply, reached), SendText
    PROVE  ReplyFine(reply', reached')
<1>1. PICK n \in 0..2 :
         /\ Sent("text", IF n = 2 THEN [reply EXCEPT !.text = TRUE]
                         ELSE [reply EXCEPT !.direct = @ + n, !.failed = @ \cup {"text"}])
         /\ reached' = reached \cup {<<"text", i>> : i \in 1..n}
  BY DEF SendText
<1>2. reply \in ReplyRecord /\ reply.direct \in Nat /\ reply.direct + n \in Nat /\ reply.pc = "text"
      /\ NextOf("text", reply.wants) \in {"voice", "footer", "text", "files"}
      /\ reply.failed \cup {"text"} \in SUBSET (Parts \cup Groups \cup Files)
  BY <1>1, NextOfIs DEF ReplyFine, ReplyRecord, Parts, Sent
<1>3. CASE n = 2
  <2> DEFINE q == [reply EXCEPT !.text = TRUE]
  <2>1. q \in ReplyRecord /\ q.direct = reply.direct /\ q.text = TRUE /\ q.failed = reply.failed /\ SameRest(q, reply)
    BY <1>2, FieldsAre
  <2>2. Sent("text", q)
    BY <1>1, <1>3
  <2> HIDE DEF q
  <2>3. /\ reply' \in ReplyRecord /\ reply'.pc = NextOf("text", reply.wants) /\ SameRest(reply', reply)
        /\ reply'.direct = reply.direct + 0 /\ reply'.text = TRUE /\ reply'.failed = reply.failed
    BY <1>2, <2>1, <2>2, SentIs DEF SameRest
  <2>4. reply'.failed = IF n = 2 THEN reply.failed ELSE reply.failed \cup {"text"}
    BY <1>3, <2>3
  <2>5. 0 \in 0..2 /\ 0 <= 1 /\ "text" \in {"footer", "text"}
    OBVIOUS
  <2> QED
    BY <1>1, <1>2, <2>3, <2>4, <2>5, ChunksKeep
<1>4. CASE n # 2
  <2> DEFINE q == [reply EXCEPT !.direct = reply.direct + n]
             q2 == [q EXCEPT !.failed = reply.failed \cup {"text"}]
  <2>1. q \in ReplyRecord /\ q.direct = reply.direct + n /\ q.text = reply.text /\ q.failed = reply.failed /\ SameRest(q, reply)
    BY <1>2, FieldsAre
  <2>2. Sent("text", q2)
    BY <1>1, <1>4
  <2> HIDE DEF q
  <2>3. /\ q2 \in ReplyRecord /\ q2.direct = reply.direct + n /\ q2.text = reply.text
        /\ q2.failed = reply.failed \cup {"text"} /\ SameRest(q2, reply)
    BY <1>2, <2>1, FieldsAre DEF SameRest
  <2> HIDE DEF q2
  <2>4. /\ reply' \in ReplyRecord /\ reply'.pc = NextOf("text", reply.wants) /\ SameRest(reply', reply)
        /\ reply'.direct = reply.direct + n /\ reply'.text = reply.text /\ reply'.failed = reply.failed \cup {"text"}
    BY <1>2, <2>2, <2>3, SentIs DEF SameRest
  <2>5. reply'.failed = IF n = 2 THEN reply.failed ELSE reply.failed \cup {"text"}
    BY <1>4, <2>4
  <2>6. n <= 1 /\ (n # 0 => n > 0) /\ "text" \in {"footer", "text"}
    BY <1>4
  <2> QED
    BY <1>1, <1>2, <2>4, <2>5, <2>6, ChunksKeep
<1> QED
  BY <1>3, <1>4

\* What the steps of the files leave alone.
LEMMA PartsUntouched ==
    ASSUME ReplyFine(reply, reached), reply.pc \in {"files", "links"}, NEW r \in ReplyRecord,
           r.pc \in {"links", "done"}, r.wants = reply.wants, r.text = reply.text, r.direct >= reply.direct,
           NEW more \in SUBSET Files, r.failed \cap Parts = reply.failed \cap Parts
    PROVE  LET got == reached \cup more
           IN  /\ VoiceFine(r, got) /\ TextFine("footer", r, got) /\ TextFine("text", r, got)
               /\ got \subseteq Pieces
<1> DEFINE got == reached \cup more
<1>1. \A c \in {"voice", "transcript", "footer", "text"} : c \in r.failed <=> c \in reply.failed
  BY DEF Parts
<1>2. <<"voice", 1>> \notin more /\ <<"transcript", 2>> \notin more
      /\ more \cap Whole("footer") = {} /\ more \cap Whole("text") = {}
  BY FileNames DEF Whole, Parts
<1>3. \A c \in {"voice", "footer", "text"} : reply.pc \notin ToTry(c) /\ r.pc \notin ToTry(c)
  BY DEF ToTry
<1>4. reply.direct \in Nat /\ r.direct \in Nat /\ reply \in ReplyRecord
  BY DEF ReplyFine, ReplyRecord
<1>5. reply.direct > 0 => r.direct > 0
  BY <1>4
<1>6. got \subseteq Pieces
  BY DEF ReplyFine, Pieces
<1>7. VoiceFine(r, got)
  BY <1>1, <1>2, <1>3, <1>5 DEF ReplyFine, VoiceFine
<1>8. ASSUME NEW c \in {"footer", "text"} PROVE TextFine(c, r, got)
  <2>1. Whole(c) \cap got = Whole(c) \cap reached /\ (Whole(c) \subseteq got <=> Whole(c) \subseteq reached)
    BY <1>2
  <2>2. TextFine(c, reply, reached)
    BY DEF ReplyFine
  <2>3. c \in r.failed <=> c \in reply.failed
    BY <1>1
  <2> HIDE DEF got
  <2> QED
    BY <1>3, <1>5, <2>1, <2>2, <2>3 DEF TextFine
<1> QED
  BY <1>6, <1>7, <1>8

LEMMA FilesSet ==
    ASSUME NEW files \in SUBSET Files
    PROVE  /\ IsFiniteSet(files) /\ Cardinality(files) \in Nat /\ Cardinality(files) <= Cardinality(Files)
           /\ files # {} => Cardinality(files) > 0
<1>1. IsFiniteSet(files) /\ Cardinality(files) <= Cardinality(Files)
  BY FileNames, FS_Subset
<1>2. Cardinality(files) \in Nat /\ (Cardinality(files) = 0 <=> files = {})
  BY <1>1, FS_CardinalityType, FS_EmptySet
<1> QED
  BY <1>1, <1>2

LEMMA SendFilesKeeps ==
    ASSUME ReplyFine(reply, reached), SendFiles
    PROVE  ReplyFine(reply', reached')
<1>1. PICK sent \in SUBSET {f \in Files : reply.route[f] = "direct"} :
         /\ reached' = reached \cup sent
         /\ reply' = [reply EXCEPT !.direct = @ + Cardinality(sent), !.pc = "links",
                                   !.links = Routed(reply) \ sent]
  BY DEF SendFiles
<1> DEFINE n == Cardinality(sent)
           left == Routed(reply) \ sent
<1>2. /\ reply \in ReplyRecord /\ reply.pc = "files" /\ reply.direct \in Nat /\ reply.direct <= 5
      /\ reached \cap Files = {} /\ reply.failed \cap Groups = {} /\ reply.failed \cap Files = {} /\ reply.linked = 0
  BY DEF SendFiles, ReplyFine, FilesFine, CountsFine, ToTry, ReplyRecord
<1>3. sent \in SUBSET Files /\ sent \subseteq Routed(reply) /\ left \in SUBSET Files
  BY DEF Routed
<1>4. n \in Nat /\ n <= Cardinality(Files) /\ (sent # {} => n > 0)
      /\ Cardinality(left) \in Nat /\ Cardinality(left) <= Cardinality(Files)
  BY <1>3, FilesSet
<1>5. /\ reply' \in ReplyRecord /\ reply'.pc = "links" /\ reply'.links = left /\ reply'.direct = reply.direct + n
      /\ reply'.wants = reply.wants /\ reply'.route = reply.route /\ reply'.text = reply.text
      /\ reply'.failed = reply.failed /\ reply'.linked = 0
  <2> DEFINE q == [reply EXCEPT !.direct = reply.direct + n]
             q2 == [q EXCEPT !.pc = "links"]
             q3 == [q2 EXCEPT !.links = left]
  <2>1. q \in ReplyRecord /\ q.direct = reply.direct + n /\ q.text = reply.text /\ q.failed = reply.failed /\ SameRest(q, reply)
    <3>1. reply.direct + n \in Nat
      BY <1>2, <1>4
    <3> HIDE DEF n
    <3> QED
      BY <1>2, <3>1, FieldsAre
  <2>2. reply' = q3
    BY <1>1 DEF Routed
  <2> HIDE DEF q, n, left
  <2>3. /\ q2 \in ReplyRecord /\ q2.direct = q.direct /\ q2.text = q.text /\ q2.failed = q.failed
        /\ SameRest(q2, q) /\ q2.pc = "links"
    BY <2>1 DEF ReplyRecord, SameRest
  <2> HIDE DEF q2
  <2>4. /\ q3 \in ReplyRecord /\ q3.direct = q2.direct /\ q3.text = q2.text /\ q3.failed = q2.failed
        /\ q3.links = left /\ q3.pc = q2.pc /\ q3.wants = q2.wants /\ q3.route = q2.route /\ q3.linked = q2.linked
    BY <1>3, <2>3 DEF ReplyRecord
  <2> HIDE DEF q3
  <2> QED
    BY <1>2, <2>1, <2>2, <2>3, <2>4 DEF SameRest
<1> HIDE DEF n, left
<1>6. Routed(reply') = Routed(reply)
  BY <1>5 DEF Routed
<1>7. reached' \cap Files = sent
  BY <1>1, <1>2, <1>3
<1>8. FilesFine(reply', reached')
  <2>1. left \cap sent = {} /\ Routed(reply) \subseteq left \cup sent /\ left \subseteq Routed(reply)
    BY DEF left
  <2>2. sent # {} => reply'.direct > 0
    BY <1>2, <1>4, <1>5
  <2>3. \A f \in Routed(reply) : f \in reached' \cup left
    BY <1>1, <2>1
  <2>4. "attachments" \notin reply'.failed /\ \A g \in Groups : g \notin reply'.failed
    BY <1>2, <1>5, FileNames
  <2> QED
    BY <1>2, <1>3, <1>5, <1>6, <1>7, <2>1, <2>2, <2>3, <2>4 DEF FilesFine, ToTry
<1>9. CountsFine(reply')
  BY <1>2, <1>4, <1>5, FileNames DEF CountsFine, ToTry
<1>10. /\ VoiceFine(reply', reached') /\ TextFine("footer", reply', reached') /\ TextFine("text", reply', reached')
       /\ reached' \subseteq Pieces
  <2>1. reply'.direct >= reply.direct
    BY <1>2, <1>4, <1>5
  <2> QED
    BY <1>1, <1>2, <1>3, <1>5, <2>1, PartsUntouched
<1>11. reply'.wants # {} \/ Routed(reply') # {}
  BY <1>2, <1>5, <1>6 DEF ReplyFine
<1> QED
  BY <1>5, <1>8, <1>9, <1>10, <1>11 DEF ReplyFine

\* A staging that throws ends the delivery with a file left out.
LEMMA ThrowsKeeps ==
    ASSUME ReplyFine(reply, reached), StagingThrows
    PROVE  ReplyFine(reply', reached')
<1>1. PICK sent \in SUBSET {f \in Files : reply.route[f] = "direct"} :
         (\E f, g \in Routed(reply) \ sent : f # g) /\ reached' = reached \cup sent
  BY DEF StagingThrows
<1>2. PICK f \in Routed(reply) : f \notin sent
  BY <1>1
<1>3. /\ reply \in ReplyRecord /\ reply.pc = "files" /\ reply.direct \in Nat
      /\ reached \cap Files = {} /\ reply.failed \cap Files = {} /\ reply.links = {} /\ reply.linked = 0
  BY DEF StagingThrows, ReplyFine, FilesFine, ToTry, ReplyRecord
<1>4. sent \in SUBSET Files /\ sent \subseteq Routed(reply) /\ f \in Files
  BY DEF Routed
<1>5. "attachments" \in Groups /\ "attachments" \notin Files /\ "attachments" \notin Parts
  BY FileNames DEF Groups
<1>6. /\ reply' \in ReplyRecord /\ reply'.pc = "done" /\ reply'.failed = reply.failed \cup {"attachments"}
      /\ reply'.links = {} /\ reply'.linked = 0 /\ reply'.direct = reply.direct /\ reply'.text = reply.text
      /\ reply'.wants = reply.wants /\ reply'.route = reply.route
  <2> DEFINE names == reply.failed \cup {"attachments"}
             q == [reply EXCEPT !.failed = names]
             q2 == [q EXCEPT !.pc = "done"]
  <2>1. reply' = q2
    BY DEF StagingThrows
  <2>2. names \in SUBSET (Parts \cup Groups \cup Files)
    BY <1>3, <1>5 DEF ReplyRecord
  <2> HIDE DEF names
  <2>3. /\ q \in ReplyRecord /\ q.direct = reply.direct /\ q.text = reply.text /\ q.failed = names
        /\ SameRest(q, reply)
    BY <1>3, <2>2, FieldsAre
  <2> HIDE DEF q
  <2>4. /\ q2 \in ReplyRecord /\ q2.direct = q.direct /\ q2.text = q.text /\ q2.failed = q.failed
        /\ SameRest(q2, q) /\ q2.pc = "done"
    BY <2>3 DEF ReplyRecord, SameRest
  <2> HIDE DEF q2
  <2> QED
    BY <1>3, <2>1, <2>3, <2>4 DEF names, SameRest
<1>7. Routed(reply') = Routed(reply)
  BY <1>6 DEF Routed
<1>8. reached' \cap Files = sent /\ f \notin reached'
  BY <1>1, <1>2, <1>3, <1>4
<1>9. FilesFine(reply', reached')
  <2>1. reply'.failed \cap Files = {} /\ "attachments" \in reply'.failed
    BY <1>3, <1>5, <1>6
  <2>2. \A g \in Routed(reply) : reply'.failed \cap ({g} \cup Groups) # {}
    BY <1>5, <2>1
  <2>3. reply'.pc \notin ToTry("files")
    BY <1>6 DEF ToTry
  <2> QED
    BY <1>2, <1>4, <1>6, <1>7, <1>8, <2>1, <2>2, <2>3 DEF FilesFine
<1>10. CountsFine(reply')
  <2>1. Cardinality({}) = 0 /\ Cardinality(Files) \in Nat
    BY FS_EmptySet, FileNames
  <2>2. reply.direct <= 5
    BY <1>3 DEF ReplyFine, CountsFine
  <2> QED
    BY <1>3, <1>6, <2>1, <2>2 DEF CountsFine, ToTry
<1>11. /\ VoiceFine(reply', reached') /\ TextFine("footer", reply', reached') /\ TextFine("text", reply', reached')
       /\ reached' \subseteq Pieces
  <2>1. reply'.failed \cap Parts = reply.failed \cap Parts /\ reply'.direct >= reply.direct
    BY <1>3, <1>5, <1>6
  <2> QED
    BY <1>1, <1>3, <1>4, <1>6, <2>1, PartsUntouched
<1>12. reply'.wants # {} \/ Routed(reply') # {}
  BY <1>3, <1>6, <1>7 DEF ReplyFine
<1> QED
  BY <1>6, <1>9, <1>10, <1>11, <1>12 DEF ReplyFine

\* The artefacts of a message are its files, each in one of them, and the
\* receipt names a lone one by its file.
LEMMA ArtefactsAre ==
    ASSUME NEW files \in SUBSET Files, NEW all \in Artefacts(files)
    PROVE  /\ (UNION all) = files
           /\ \A a, b \in all : a # b => a \cap b = {}
           /\ \A a \in all : a # {} /\ (NameOf(a) = "bundle" \/ a = {NameOf(a)})
<1>1. ASSUME NEW f PROVE NameOf({f}) = f
  <2>1. Cardinality({f}) = 1
    BY FS_Singleton
  <2>2. (CHOOSE g \in {f} : TRUE) = f
    OBVIOUS
  <2> QED
    BY <2>1, <2>2 DEF NameOf
<1>2. CASE all = {{f} : f \in files}
  <2>1. \A a \in all : \E f \in files : a = {f}
    BY <1>2
  <2>2. \A a \in all : a # {} /\ a = {NameOf(a)}
    BY <1>1, <2>1
  <2>3. UNION all = files
    BY <1>2
  <2> QED
    BY <2>1, <2>2, <2>3
<1>3. CASE \E zip \in {z \in SUBSET files : Cardinality(z) > 1} : all = {zip} \cup {{f} : f \in files \ zip}
  <2>1. PICK zip \in SUBSET files : Cardinality(zip) > 1 /\ all = {zip} \cup {{f} : f \in files \ zip}
    BY <1>3
  <2>2. zip # {}
    BY <2>1, FS_EmptySet
  <2>3. NameOf(zip) = "bundle"
    BY <2>1 DEF NameOf
  <2>4. \A a \in all : a = zip \/ \E f \in files \ zip : a = {f}
    BY <2>1
  <2>5. \A a \in all : a # {} /\ (NameOf(a) = "bundle" \/ a = {NameOf(a)})
    BY <1>1, <2>2, <2>3, <2>4
  <2>6. UNION all = files
    BY <2>1
  <2>7. \A a, b \in all : a # b => a \cap b = {}
    BY <2>4
  <2> QED
    BY <2>5, <2>6, <2>7
<1>4. \/ all = {{f} : f \in files}
      \/ \E zip \in {z \in SUBSET files : Cardinality(z) > 1} : all = {zip} \cup {{f} : f \in files \ zip}
  BY DEF Artefacts
<1> QED
  BY <1>2, <1>3, <1>4

LEMMA NothingLeft == ASSUME reply \in ReplyRecord, Messages = {} PROVE reply.links = {}
<1> DEFINE direct == {f \in reply.links : reply.route[f] = "direct"}
<1>1. CASE reply.platform = "discord"
  <2>1. direct = {} /\ reply.links \ direct = {}
    BY <1>1 DEF Messages
  <2> QED
    BY <2>1
<1>2. CASE reply.platform # "discord"
  BY <1>2 DEF Messages
<1> QED
  BY <1>1, <1>2

LEMMA MessagesAre == ASSUME NEW files \in Messages PROVE files \subseteq reply.links
  BY DEF Messages

LEMMA LinksSentKeeps ==
    ASSUME ReplyFine(reply, reached), reply.pc = "links", NEW files \in SUBSET reply.links,
           NEW all \in Artefacts(files), NEW linked \in SUBSET files, NEW missing \in SUBSET all,
           (UNION missing) = files \ linked,
           reached' = reached \cup linked,
           reply' = [reply EXCEPT !.linked = @ + Cardinality(linked), !.links = @ \ files,
                                  !.failed = @ \cup {NameOf(a) : a \in missing}]
    PROVE  ReplyFine(reply', reached')
<1> DEFINE n == Cardinality(linked)
           left == reply.links \ files
           names == {NameOf(a) : a \in missing}
<1>1. /\ reply \in ReplyRecord /\ reply.linked \in Nat /\ reply.direct \in Nat
      /\ reply.links \in SUBSET Files /\ files \in SUBSET Files /\ linked \in SUBSET Files /\ left \in SUBSET Files
      /\ reply.failed \in SUBSET (Parts \cup Groups \cup Files)
      /\ reply.pc \notin ToTry("files") /\ reply.pc # "done"
  BY DEF ReplyFine, ReplyRecord, ToTry
<1>2. /\ UNION all = files
      /\ \A a \in all : a # {} /\ (NameOf(a) = "bundle" \/ a = {NameOf(a)})
  BY <1>1, ArtefactsAre
<1>3. \A a \in missing : NameOf(a) = "bundle" \/ (NameOf(a) \in files \ linked /\ a = {NameOf(a)})
  BY <1>2
<1>4. names \subseteq {"bundle"} \cup (files \ linked) /\ names \subseteq {"bundle"} \cup Files
  BY <1>1, <1>3
<1>5. "bundle" \in names => \E f \in files \ linked : TRUE
  BY <1>2
<1>6. \A f \in files \ linked : f \in names \/ "bundle" \in names
  <2>1. ASSUME NEW f \in files \ linked PROVE f \in names \/ "bundle" \in names
    <3>1. PICK a \in missing : f \in a
      OBVIOUS
    <3>2. NameOf(a) = "bundle" \/ NameOf(a) = f
      BY <1>2, <3>1
    <3> QED
      BY <3>1, <3>2
  <2> QED
    BY <2>1
<1>7. n \in Nat /\ (linked # {} => n > 0)
      /\ Cardinality(reply.links) \in Nat /\ n + Cardinality(left) <= Cardinality(reply.links)
      /\ Cardinality(left) \in Nat
  <2>1. IsFiniteSet(linked) /\ IsFiniteSet(left) /\ IsFiniteSet(reply.links)
        /\ n \in Nat /\ Cardinality(left) \in Nat /\ Cardinality(reply.links) \in Nat /\ (linked # {} => n > 0)
    BY <1>1, FilesSet
  <2>2. Cardinality(linked \cup left) = n + Cardinality(left) - Cardinality(linked \cap left)
    BY <2>1, FS_Union
  <2>3. linked \cap left = {} /\ linked \cup left \subseteq reply.links
    OBVIOUS
  <2>4. Cardinality(linked \cap left) = 0 /\ Cardinality(linked \cup left) <= Cardinality(reply.links)
    BY <2>1, <2>3, FS_EmptySet, FS_Subset
  <2> HIDE DEF n, left
  <2> QED
    BY <2>1, <2>2, <2>4
<1>8. /\ reply' \in ReplyRecord /\ reply'.pc = "links" /\ reply'.links = left /\ reply'.linked = reply.linked + n
      /\ reply'.failed = reply.failed \cup names /\ reply'.direct = reply.direct
      /\ reply'.wants = reply.wants /\ reply'.route = reply.route /\ reply'.text = reply.text
  <2> DEFINE q == [reply EXCEPT !.linked = reply.linked + n]
             q2 == [q EXCEPT !.links = left]
             q3 == [q2 EXCEPT !.failed = reply.failed \cup names]
  <2>1. reply.linked + n \in Nat /\ reply.failed \cup names \in SUBSET (Parts \cup Groups \cup Files)
    <3>1. "bundle" \in Groups
      BY DEF Groups
    <3> HIDE DEF names, n
    <3> QED
      BY <1>1, <1>4, <1>7, <3>1
  <2>2. reply' = q3
    OBVIOUS
  <2> HIDE DEF n, left, names
  <2>3. /\ q \in ReplyRecord /\ q.linked = reply.linked + n /\ q.pc = reply.pc /\ q.links = reply.links
        /\ q.failed = reply.failed /\ q.direct = reply.direct /\ q.wants = reply.wants
        /\ q.route = reply.route /\ q.text = reply.text
    BY <1>1, <2>1 DEF ReplyRecord
  <2> HIDE DEF q
  <2>4. /\ q2 \in ReplyRecord /\ q2.linked = q.linked /\ q2.pc = q.pc /\ q2.links = left
        /\ q2.failed = q.failed /\ q2.direct = q.direct /\ q2.wants = q.wants
        /\ q2.route = q.route /\ q2.text = q.text
    BY <1>1, <2>3 DEF ReplyRecord
  <2> HIDE DEF q2
  <2>5. /\ q3 \in ReplyRecord /\ q3.linked = q2.linked /\ q3.pc = q2.pc /\ q3.links = q2.links
        /\ q3.failed = reply.failed \cup names /\ q3.direct = q2.direct /\ q3.wants = q2.wants
        /\ q3.route = q2.route /\ q3.text = q2.text
    BY <2>1, <2>4 DEF ReplyRecord
  <2> HIDE DEF q3
  <2> QED
    BY <2>2, <2>3, <2>4, <2>5
<1> HIDE DEF n, names
<1>9. Routed(reply') = Routed(reply)
  BY <1>8 DEF Routed
<1>10. FilesFine(reply, reached) /\ reply.links \cap reached = {}
  <2>1. FilesFine(reply, reached)
    BY DEF ReplyFine
  <2> QED
    BY <1>1, <2>1 DEF FilesFine
<1>11. /\ "bundle" \notin Files /\ Groups = {"bundle", "attachments"} /\ "attachments" \notin Files
       /\ "attachments" \notin reply.failed
  BY <1>1, <1>10, FileNames DEF FilesFine
<1>12. FilesFine(reply', reached')
  <2>1. reached' \cap Files \subseteq Routed(reply) \ left /\ left \subseteq Routed(reply)
    BY <1>1, <1>10 DEF FilesFine
  <2>2. reply'.failed \cap Files \subseteq Routed(reply) \ (reached' \cup left)
    <3>1. ASSUME NEW f \in Files, f \in reply.failed PROVE f \in Routed(reply) \ (reached' \cup left)
      BY <1>10, <3>1 DEF FilesFine
    <3>2. ASSUME NEW f \in Files, f \in names PROVE f \in Routed(reply) \ (reached' \cup left)
      <4>1. f \in files \ linked
        BY <1>4, <1>11, <3>2
      <4>2. f \in reply.links /\ f \notin reached
        BY <1>10, <4>1
      <4> QED
        BY <1>10, <4>1, <4>2 DEF FilesFine
    <3> QED
      BY <1>8, <3>1, <3>2
  <2>3. "bundle" \in reply'.failed => \E f \in Routed(reply) : f \notin reached' \cup left
    <3>1. CASE "bundle" \in reply.failed
      <4>1. \E f \in Routed(reply) : f \notin reached \cup reply.links
        BY <1>10, <1>11, <3>1 DEF FilesFine
      <4> QED
        BY <1>1, <4>1
    <3>2. CASE "bundle" \in names
      <4>1. PICK f \in files \ linked : TRUE
        BY <1>5, <3>2
      <4>2. f \in Routed(reply) /\ f \notin reached
        BY <1>10 DEF FilesFine
      <4> QED
        BY <4>2
    <3> QED
      BY <1>8, <3>1, <3>2
  <2>4. \A f \in Routed(reply) : f \in reached' \cup left \/ reply'.failed \cap ({f} \cup Groups) # {}
    <3>1. ASSUME NEW f \in Routed(reply) PROVE f \in reached' \cup left \/ reply'.failed \cap ({f} \cup Groups) # {}
      <4>1. f \in reached \cup reply.links \/ reply.failed \cap ({f} \cup Groups) # {}
        BY <1>1, <1>10 DEF FilesFine
      <4>2. CASE f \in files \ linked
        BY <1>6, <1>8, <1>11, <4>2
      <4> QED
        BY <1>8, <4>1, <4>2
    <3> QED
      BY <3>1
  <2>5. reached' \cap Files # {} => reply'.direct > 0 \/ reply'.linked > 0
    <3>1. CASE linked # {}
      BY <1>1, <1>7, <1>8, <3>1
    <3>2. CASE linked = {}
      <4>1. reached' = reached
        BY <3>2
      <4> QED
        BY <1>1, <1>7, <1>8, <1>10, <4>1 DEF FilesFine
    <3> QED
      BY <3>1, <3>2
  <2> HIDE DEF left
  <2>6. reply'.pc \notin ToTry("files") /\ reply'.pc # "done"
    BY <1>8 DEF ToTry
  <2>7. "attachments" \notin reply'.failed
    BY <1>4, <1>8, <1>11
  <2>8. \A g \in Groups : g \in reply'.failed => \E f \in Routed(reply) : f \notin reached' \cup left
    BY <1>11, <2>3, <2>7
  <2> QED
    BY <1>8, <1>9, <2>1, <2>2, <2>4, <2>5, <2>6, <2>7, <2>8 DEF FilesFine
<1> HIDE DEF left
<1>13. CountsFine(reply')
  <2>1. reply.direct <= 5 + Cardinality(Files) /\ reply.linked + Cardinality(reply.links) <= Cardinality(Files)
    BY DEF ReplyFine, CountsFine
  <2>2. reply'.linked + Cardinality(reply'.links) <= Cardinality(Files)
    <3>1. reply'.linked = reply.linked + n /\ reply'.links = left
      BY <1>8
    <3>2. n \in Nat /\ Cardinality(left) \in Nat /\ Cardinality(reply.links) \in Nat /\ reply.linked \in Nat
          /\ Cardinality(Files) \in Nat /\ n + Cardinality(left) <= Cardinality(reply.links)
      BY <1>1, <1>7, FileNames
    <3>3. ASSUME NEW a \in Nat, NEW b \in Nat, NEW c \in Nat, NEW d \in Nat, NEW e \in Nat, d + b <= c, a + c <= e
          PROVE  (a + d) + b <= e
      BY <3>3
    <3>4. (reply.linked + n) + Cardinality(left) <= Cardinality(Files)
      BY <2>1, <3>2, <3>3
    <3> QED
      BY <3>1, <3>4
  <2> QED
    BY <1>8, <2>1, <2>2 DEF CountsFine, ToTry
<1>14. /\ VoiceFine(reply', reached') /\ TextFine("footer", reply', reached') /\ TextFine("text", reply', reached')
       /\ reached' \subseteq Pieces
  <2>1. reply'.failed \cap Parts = reply.failed \cap Parts
    <3>1. names \cap Parts = {}
      BY <1>4, FileNames DEF Parts
    <3> QED
      BY <1>8, <3>1
  <2>2. reply'.direct >= reply.direct
    BY <1>1, <1>8
  <2> QED
    BY <1>1, <1>8, <2>1, <2>2, PartsUntouched
<1>15. reply'.wants # {} \/ Routed(reply') # {}
  BY <1>8, <1>9 DEF ReplyFine
<1> QED
  BY <1>8, <1>12, <1>13, <1>14, <1>15 DEF ReplyFine

LEMMA SendLinksKeeps ==
    ASSUME ReplyFine(reply, reached), SendLinks
    PROVE  ReplyFine(reply', reached')
<1>1. reply \in ReplyRecord /\ reply.pc = "links"
  BY DEF ReplyFine, SendLinks
<1>2. CASE Messages = {} /\ reply' = [reply EXCEPT !.pc = "done"] /\ UNCHANGED reached
  <2>1. reply.links = {}
    BY <1>1, <1>2, NothingLeft
  <2>2. /\ reply' \in ReplyRecord /\ reply'.pc = "done" /\ reply'.links = reply.links /\ reply'.linked = reply.linked
        /\ reply'.failed = reply.failed /\ reply'.direct = reply.direct
        /\ reply'.wants = reply.wants /\ reply'.route = reply.route /\ reply'.text = reply.text
    BY <1>1, <1>2 DEF ReplyRecord
  <2>3. Routed(reply') = Routed(reply)
    BY <2>2 DEF Routed
  <2>4. \A c \in {"voice", "footer", "text", "files"} : reply.pc \notin ToTry(c) /\ reply'.pc \notin ToTry(c)
    BY <1>1, <2>2 DEF ToTry
  <2>5. FilesFine(reply', reached')
    BY <1>2, <2>1, <2>2, <2>3, <2>4 DEF ReplyFine, FilesFine
  <2>6. VoiceFine(reply', reached') /\ TextFine("footer", reply', reached') /\ TextFine("text", reply', reached')
    BY <1>2, <2>2, <2>4 DEF ReplyFine, VoiceFine, TextFine
  <2>7. CountsFine(reply')
    BY <1>1, <1>2, <2>2, <2>4 DEF ReplyFine, CountsFine
  <2> QED
    BY <1>1, <1>2, <2>2, <2>3, <2>5, <2>6, <2>7 DEF ReplyFine
<1> DEFINE Posts(files, all, hosted, posted) ==
              LET linked == IF posted THEN UNION hosted ELSE {}
                  missing == IF posted THEN all \ hosted ELSE all
              IN  /\ reached' = reached \cup linked
                  /\ reply' = [reply EXCEPT !.linked = @ + Cardinality(linked), !.links = @ \ files,
                                            !.failed = @ \cup {NameOf(a) : a \in missing}]
<1>3. CASE \E files \in Messages : \E all \in Artefacts(files) : \E hosted \in SUBSET all : \E posted \in BOOLEAN :
              Posts(files, all, hosted, posted)
  <2>0. PICK files \in Messages : \E all \in Artefacts(files) : \E hosted \in SUBSET all : \E posted \in BOOLEAN :
              Posts(files, all, hosted, posted)
    BY <1>3
  <2> HIDE DEF Posts
  <2>a. PICK all \in Artefacts(files) : \E hosted \in SUBSET all : \E posted \in BOOLEAN : Posts(files, all, hosted, posted)
    BY <2>0
  <2>1. PICK hosted \in SUBSET all, posted \in BOOLEAN : Posts(files, all, hosted, posted)
    BY <2>a
  <2> DEFINE linked == IF posted THEN UNION hosted ELSE {}
             missing == IF posted THEN all \ hosted ELSE all
  <2>2. files \in SUBSET reply.links /\ files \in SUBSET Files
    BY <1>1, MessagesAre DEF ReplyRecord
  <2>3. UNION all = files /\ \A a, b \in all : a # b => a \cap b = {}
    BY <2>2, ArtefactsAre
  <2>4. linked \in SUBSET files /\ missing \in SUBSET all
    BY <2>3
  <2>5. UNION missing = files \ linked
    BY <2>3
  <2>6. /\ reached' = reached \cup linked
        /\ reply' = [reply EXCEPT !.linked = @ + Cardinality(linked), !.links = @ \ files,
                                  !.failed = @ \cup {NameOf(a) : a \in missing}]
    BY <2>1 DEF Posts
  <2> HIDE DEF linked, missing
  <2> QED
    BY <1>1, <2>2, <2>4, <2>5, <2>6, LinksSentKeeps
<1> QED
  BY <1>2, <1>3 DEF SendLinks

LEMMA NoReplyIs ==
    /\ NoReply \in ReplyRecord /\ NoReply.pc = "idle" /\ NoReply.wants = {} /\ Routed(NoReply) = {}
    /\ NoReply.direct = 0 /\ NoReply.linked = 0 /\ NoReply.failed = {} /\ NoReply.links = {}
<1>1. NoReply \in ReplyRecord
  BY DEF NoReply, ReplyRecord
<1> QED
  BY <1>1 DEF NoReply, Routed

LEMMA NewReplyFine ==
    ASSUME NEW r \in ReplyRecord, r.pc \in {"idle", "voice", "footer", "text", "files"},
           r.pc # "idle" => r.wants # {} \/ Routed(r) # {}, r.pc \in {"voice", "footer", "text"} => r.pc \in r.wants,
           \A c \in {"voice", "footer", "text"} : c \in r.wants => r.pc \in ToTry(c),
           r.direct = 0, r.linked = 0, r.failed = {}, r.links = {}
    PROVE  ReplyFine(r, {})
<1>1. VoiceFine(r, {}) /\ TextFine("footer", r, {}) /\ TextFine("text", r, {})
  BY DEF VoiceFine, TextFine, Whole
<1>2. FilesFine(r, {})
  BY DEF FilesFine, ToTry
<1>3. CountsFine(r)
  <2>1. Cardinality({}) = 0 /\ Cardinality(Files) \in Nat
    BY FS_EmptySet, FileNames
  <2> QED
    BY <2>1 DEF CountsFine
<1> QED
  BY <1>1, <1>2, <1>3 DEF ReplyFine

LEMMA NoReplyFine == ReplyFine(NoReply, {})
  BY NoReplyIs, NewReplyFine

LEMMA DeliverKeeps ==
    ASSUME NEW platform \in {"whatsapp", "discord"}, NEW wants \in SUBSET {"voice", "footer", "text"},
           NEW to \in [Files -> {"none", "direct", "link"}], Deliver(platform, wants, to)
    PROVE  ReplyFine(reply', reached')
<1> DEFINE n == NextOf("idle", wants)
<1>1. /\ n \in {"voice", "footer", "text", "files"} /\ (n # "files" => n \in wants)
      /\ \A c \in {"voice", "footer", "text"} : c \in wants => n \in ToTry(c)
  BY NextOfIs DEF ToTry
<1>2. reply' = [NoReply EXCEPT !.pc = n, !.platform = platform, !.wants = wants, !.route = to] /\ reached' = {}
      /\ (wants # {} \/ \E f \in Files : to[f] # "none")
  BY DEF Deliver
<1> HIDE DEF n
<1>3. reply' = [pc |-> n, platform |-> platform, wants |-> wants, route |-> to,
                text |-> FALSE, direct |-> 0, linked |-> 0, failed |-> {}, links |-> {}]
  BY <1>2 DEF NoReply
<1>4. reply' \in ReplyRecord
  BY <1>1, <1>3 DEF ReplyRecord
<1>5. reply'.wants # {} \/ Routed(reply') # {}
  BY <1>2, <1>3 DEF Routed
<1>6. /\ reply'.pc = n /\ reply'.wants = wants /\ reply'.direct = 0 /\ reply'.linked = 0
      /\ reply'.failed = {} /\ reply'.links = {}
  BY <1>3
<1>7. ReplyFine(reply', {})
  <2>1. ASSUME NEW r, r = reply' PROVE ReplyFine(r, {})
    BY <1>1, <1>4, <1>5, <1>6, <2>1, NewReplyFine
  <2> QED
    BY <2>1
<1> QED
  BY <1>2, <1>7

LEMMA ReplyNextFine == ReplyFine(reply, reached) /\ [ReplyNext]_replyVars => ReplyFine(reply', reached')
<1> SUFFICES ASSUME ReplyFine(reply, reached), [ReplyNext]_replyVars PROVE ReplyFine(reply', reached')
  OBVIOUS
<1>1. CASE ReplyDone
  BY <1>1, NoReplyFine DEF ReplyDone
<1>2. CASE UNCHANGED replyVars
  BY <1>2 DEF replyVars
<1>3. CASE \E platform \in {"whatsapp", "discord"}, wants \in SUBSET {"voice", "footer", "text"},
              to \in [Files -> {"none", "direct", "link"}] : Deliver(platform, wants, to)
  BY <1>3, DeliverKeeps
<1> QED
  BY <1>1, <1>2, <1>3, VoiceKeeps, FooterKeeps, TextKeeps, SendFilesKeeps, ThrowsKeeps, SendLinksKeeps DEF ReplyNext

LEMMA FineIsHonest == ReplyFine(reply, reached) => ReceiptIsHonest
<1> SUFFICES ASSUME ReplyFine(reply, reached), reply.pc = "done"
             PROVE  /\ Status = "complete" <=> Wanted \subseteq reached
                    /\ Status = "failed" =>
                          \/ reached \subseteq {<<"transcript", 1>>}
                          \/ "attachments" \in reply.failed /\ reached \subseteq {<<"transcript", 1>>} \cup Files
                    /\ \A f \in Routed(reply) :
                          IF f \in reached THEN f \in Listed => "attachments" \in reply.failed
                          ELSE f \in Listed \/ "bundle" \in reply.failed
  BY DEF ReceiptIsHonest
<1> DEFINE tells == reply.text \/ reply.direct > 0 \/ reply.linked > 0
<1>1. /\ reply \in ReplyRecord /\ reached \subseteq Pieces
      /\ VoiceFine(reply, reached) /\ TextFine("footer", reply, reached) /\ TextFine("text", reply, reached)
      /\ FilesFine(reply, reached) /\ reply.links = {}
      /\ \A c \in {"voice", "footer", "text", "files"} : reply.pc \notin ToTry(c)
      /\ reply.wants # {} \/ Routed(reply) # {}
      /\ reply.wants \subseteq {"voice", "footer", "text"}
  BY DEF ReplyFine, FilesFine, ToTry, ReplyRecord
<1>2. Wanted = (IF "voice" \in reply.wants THEN {<<"voice", 1>>} ELSE {})
               \cup (IF "footer" \in reply.wants THEN Whole("footer") ELSE {})
               \cup (IF "text" \in reply.wants THEN Whole("text") ELSE {})
               \cup Routed(reply)
  <2>1. UNION {Whole(c) : c \in reply.wants \cap {"footer", "text"}}
           = (IF "footer" \in reply.wants THEN Whole("footer") ELSE {})
             \cup (IF "text" \in reply.wants THEN Whole("text") ELSE {})
    <3>1. CASE "footer" \in reply.wants /\ "text" \in reply.wants
      <4>1. reply.wants \cap {"footer", "text"} = {"footer", "text"}
        BY <3>1
      <4> QED
        BY <3>1, <4>1
    <3>2. CASE "footer" \in reply.wants /\ "text" \notin reply.wants
      <4>1. reply.wants \cap {"footer", "text"} = {"footer"}
        BY <3>2
      <4> QED
        BY <3>2, <4>1
    <3>3. CASE "footer" \notin reply.wants /\ "text" \in reply.wants
      <4>1. reply.wants \cap {"footer", "text"} = {"text"}
        BY <3>3
      <4> QED
        BY <3>3, <4>1
    <3>4. CASE "footer" \notin reply.wants /\ "text" \notin reply.wants
      <4>1. reply.wants \cap {"footer", "text"} = {}
        BY <3>4
      <4> QED
        BY <3>4, <4>1
    <3> QED
      BY <3>1, <3>2, <3>3, <3>4
  <2>2. Wanted = (IF "voice" \in reply.wants THEN {<<"voice", 1>>} ELSE {})
                 \cup (UNION {Whole(c) : c \in reply.wants \cap {"footer", "text"}}) \cup Routed(reply)
    BY Zenon DEF Wanted, Routed
  <2> DEFINE texts == UNION {Whole(c) : c \in reply.wants \cap {"footer", "text"}}
             foot == IF "footer" \in reply.wants THEN Whole("footer") ELSE {}
             text == IF "text" \in reply.wants THEN Whole("text") ELSE {}
             voice == IF "voice" \in reply.wants THEN {<<"voice", 1>>} ELSE {}
  <2>3. texts = foot \cup text /\ Wanted = voice \cup texts \cup Routed(reply)
    BY <2>1, <2>2
  <2> HIDE DEF texts, foot, text, voice
  <2>4. Wanted = voice \cup foot \cup text \cup Routed(reply)
    BY <2>3
  <2> QED
    BY <2>4 DEF foot, text, voice
<1>3. \A x \in reached : \/ x = <<"transcript", 1>> \/ tells
                         \/ x \in Files /\ "attachments" \in reply.failed
  <2>1. ASSUME NEW x \in reached, x # <<"transcript", 1>>
        PROVE  tells \/ (x \in Files /\ "attachments" \in reply.failed)
    <3>1. CASE x \in Whole("footer") \cup Whole("text")
      BY <1>1, <3>1 DEF TextFine
    <3>2. CASE x \in Files
      BY <1>1, <3>2 DEF FilesFine
    <3>3. CASE x = <<"voice", 1>> \/ x = <<"transcript", 2>>
      BY <1>1, <3>3 DEF VoiceFine
    <3> QED
      BY <1>1, <2>1, <3>1, <3>2, <3>3 DEF Pieces, Whole
  <2> QED
    BY <2>1
<1>4. /\ Groups = {"bundle", "attachments"} /\ Groups \cap Files = {}
      /\ \A f \in Routed(reply) : f \in Files
  BY FileNames DEF Routed
<1>5. ASSUME NEW f \in Routed(reply)
      PROVE  IF f \in reached THEN f \in Listed => "attachments" \in reply.failed
             ELSE f \in Listed \/ "bundle" \in reply.failed
  <2>1. CASE "attachments" \in reply.failed
    BY <2>1 DEF Listed
  <2>2. CASE "attachments" \notin reply.failed
    <3>1. Listed = reply.failed \cap Files
      BY <2>2 DEF Listed
    <3>2. f \in reached => f \notin reply.failed
      BY <1>1, <1>4 DEF FilesFine
    <3>3. f \notin reached => reply.failed \cap ({f} \cup Groups) # {}
      BY <1>1 DEF FilesFine
    <3> QED
      BY <1>4, <2>2, <3>1, <3>2, <3>3
  <2> QED
    BY <2>1, <2>2
<1>6. ASSUME reply.failed = {} PROVE Wanted \subseteq reached
  <2>1. Routed(reply) \subseteq reached
    BY <1>1, <1>6 DEF FilesFine
  <2>2. "voice" \in reply.wants => <<"voice", 1>> \in reached
    BY <1>1, <1>6 DEF VoiceFine
  <2>3. \A c \in {"footer", "text"} : c \in reply.wants => Whole(c) \subseteq reached
    BY <1>1, <1>6 DEF TextFine
  <2> QED
    BY <1>2, <2>1, <2>2, <2>3
<1>7. ASSUME Wanted \subseteq reached PROVE reply.failed = {} /\ tells
  <2>1. "voice" \notin reply.failed /\ "transcript" \notin reply.failed
    BY <1>1, <1>2, <1>7 DEF VoiceFine
  <2>2. \A c \in {"footer", "text"} : c \notin reply.failed
    BY <1>1, <1>2, <1>7 DEF TextFine
  <2>3. reply.failed \cap Files = {} /\ reply.failed \cap Groups = {}
    <3>1. Routed(reply) \subseteq reached
      BY <1>2, <1>7
    <3> QED
      BY <1>1, <3>1 DEF FilesFine
  <2>4. reply.failed \subseteq {"voice", "transcript", "footer", "text"} \cup Groups \cup Files
    BY <1>1 DEF ReplyRecord, Parts
  <2>5. \E x \in Wanted : x # <<"transcript", 1>>
    <3>1. \A f \in Files : f # <<"transcript", 1>>
      BY FileNames DEF Parts
    <3>2. CASE Routed(reply) # {}
      BY <1>2, <3>1, <3>2 DEF Routed
    <3>3. CASE \E c \in {"voice", "footer", "text"} : c \in reply.wants
      <4>1. PICK c \in {"voice", "footer", "text"} : c \in reply.wants
        BY <3>3
      <4>2. <<c, 1>> \in Wanted
        BY <1>2, <4>1 DEF Whole
      <4>3. <<c, 1>> # <<"transcript", 1>>
        OBVIOUS
      <4> QED
        BY <4>2, <4>3
    <3> QED
      BY <1>1, <3>2, <3>3
  <2>6. reply.failed = {}
    BY <2>1, <2>2, <2>3, <2>4
  <2> QED
    BY <1>3, <1>7, <2>5, <2>6
<1>8. /\ Status = "complete" <=> tells /\ reply.failed = {}
      /\ Status = "failed" <=> ~tells
  BY DEF Status
<1>9. Status = "complete" => Wanted \subseteq reached
  BY <1>6, <1>8
<1>10. Wanted \subseteq reached => Status = "complete"
  BY <1>7, <1>8
<1>11. Status = "failed" =>
         \/ reached \subseteq {<<"transcript", 1>>}
         \/ "attachments" \in reply.failed /\ reached \subseteq {<<"transcript", 1>>} \cup Files
  BY <1>3, <1>8
<1> QED
  BY <1>5, <1>9, <1>10, <1>11

(***************************************************************************)
(* Delivery, the messages to others.  What makes AuditBacked hold through  *)
(* failed saves and the next caller's prune: a call that has not been      *)
(* recorded is in no record, so that taking its copy back harms none; and  *)
(* a call is recorded once, because none that began is made again.  That a *)
(* destination gets one text rests on contacted, which outlives the        *)
(* attempt.                                                                *)
(***************************************************************************)
AuditRecord == [of : Sends, file : BOOLEAN]
Unrecorded == {"new", "refused", "failed", "attaching", "audit", "retain", "save"}
Dests == {Dest[s] : s \in Sends}

SendTyped ==
    /\ send \in [Sends -> Unrecorded \cup {"prune", "gone"} \cup Finished]
    /\ contacted \subseteq Dests
    /\ accepted \in [Dests -> {0, 1}]
    /\ audit \in Seq(AuditRecord)
    /\ copies \subseteq Sends
    /\ damaged \in BOOLEAN

(* A text accepted is remembered; one not recorded yet is in no record;    *)
(* and each record that names a file has it.                               *)
Remembered == \A d \in Dests : accepted[d] = 1 => d \in contacted
NotYetThere == \A s \in Sends : send[s] \in Unrecorded => \A i \in 1..Len(audit) : audit[i].of # s
FilesThere == damaged \/ \A i \in 1..Len(audit) : audit[i].file => audit[i].of \in copies

SendInv == SendTyped /\ Remembered /\ NotYetThere /\ FilesThere

LEMMA SendInitInv == DeliveryInit => SendInv
<1> SUFFICES ASSUME DeliveryInit PROVE SendInv
  OBVIOUS
<1>1. SendTyped /\ Remembered
  <2>1. /\ send = [s \in Sends |-> "new"] /\ audit = <<>> /\ contacted = {} /\ copies = {}
        /\ damaged = FALSE /\ accepted = [d \in Dests |-> 0]
    BY DEF DeliveryInit, Dests
  <2>2. send \in [Sends -> Unrecorded \cup {"prune", "gone"} \cup Finished]
    BY <2>1 DEF Unrecorded
  <2>3. audit \in Seq(AuditRecord)
    BY <2>1
  <2>4. accepted \in [Dests -> {0, 1}] /\ contacted \subseteq Dests /\ copies \subseteq Sends /\ damaged \in BOOLEAN
    BY <2>1
  <2>5. Remembered
    BY <2>1 DEF Remembered
  <2> QED
    BY <2>2, <2>3, <2>4, <2>5 DEF SendTyped
<1>2. Len(audit) = 0
  BY DEF DeliveryInit
<1> QED
  BY <1>1, <1>2 DEF SendInv, NotYetThere, FilesThere

\* What stays in the log after a save: the new record, and some it had.
LEMMA KeptIs ==
    ASSUME NEW log \in Seq(AuditRecord), NEW e \in AuditRecord
    PROVE  /\ Kept(Append(log, e)) \in Seq(AuditRecord)
           /\ \A i \in 1..Len(Kept(Append(log, e))) :
                 \/ Kept(Append(log, e))[i] = e
                 \/ \E j \in 1..Len(log) : Kept(Append(log, e))[i] = log[j]
<1> DEFINE more == Append(log, e)
           from == IF Len(more) > MaxSent THEN Len(more) - MaxSent + 1 ELSE 1
<1>1. /\ Append(log, e) \in Seq(AuditRecord)
      /\ Len(Append(log, e)) = Len(log) + 1
      /\ Len(log) \in Nat
      /\ \A j \in 1..Len(log) : Append(log, e)[j] = log[j]
      /\ Append(log, e)[Len(log) + 1] = e
  BY AppendProperties
<1>2. /\ more \in Seq(AuditRecord) /\ Len(more) = Len(log) + 1
      /\ \A j \in 1..Len(more) : more[j] = IF j = Len(log) + 1 THEN e ELSE log[j]
  BY <1>1
<1>3. from \in 1..Len(more)
  BY <1>1, DeliveryConstants
<1>4. Kept(more) = SubSeq(more, from, Len(more))
  BY DEF Kept
<1> HIDE DEF from, more
<1>5. /\ Kept(more) \in Seq(AuditRecord)
      /\ Len(Kept(more)) = Len(more) - from + 1
      /\ \A i \in 1..Len(Kept(more)) : Kept(more)[i] = more[from + i - 1]
  BY <1>1, <1>2, <1>3, <1>4
<1>6. ASSUME NEW i \in 1..Len(Kept(more))
      PROVE  Kept(more)[i] = e \/ \E j \in 1..Len(log) : Kept(more)[i] = log[j]
  <2>1. from + i - 1 \in 1..Len(more)
    BY <1>1, <1>2, <1>3, <1>5
  <2> QED
    BY <1>1, <1>2, <1>5, <2>1
<1> QED
  BY <1>5, <1>6 DEF more

\* A step of one call that touches neither the log nor the copies.
LEMMA CallMoves ==
    ASSUME SendInv, NEW s \in Sends, NEW st \in Unrecorded \cup {"prune", "gone"} \cup Finished,
           send[s] \in Unrecorded \/ st \notin Unrecorded,
           Stands(s, st), UNCHANGED <<contacted, accepted, audit, copies, damaged>>
    PROVE  SendInv'
<1>1. send' \in [Sends -> Unrecorded \cup {"prune", "gone"} \cup Finished]
      /\ \A t \in Sends : send'[t] = IF t = s THEN st ELSE send[t]
  BY DEF SendInv, SendTyped, Stands
<1>2. NotYetThere'
  BY <1>1 DEF SendInv, NotYetThere
<1> QED
  BY <1>1, <1>2 DEF SendInv, SendTyped, Remembered, FilesThere

LEMMA WriteToKeeps == ASSUME SendInv, NEW s \in Sends, WriteTo(s) PROVE SendInv'
<1>1. CASE \E st \in {"refused", "failed"} : Stands(s, st) /\ UNCHANGED <<contacted, accepted>>
  <2>1. PICK st \in {"refused", "failed"} : Stands(s, st) /\ UNCHANGED <<contacted, accepted>>
    BY <1>1
  <2>2. st \in Unrecorded /\ send[s] \in Unrecorded
    BY DEF WriteTo, Unrecorded
  <2> QED
    BY <2>1, <2>2, CallMoves DEF WriteTo
<1>2. CASE /\ Dest[s] \notin contacted /\ Stands(s, "attaching")
           /\ contacted' = contacted \cup {Dest[s]}
           /\ accepted' = [accepted EXCEPT ![Dest[s]] = @ + 1]
  <2>1. Dest[s] \in Dests /\ accepted[Dest[s]] = 0
    BY <1>2 DEF SendInv, SendTyped, Remembered, Dests
  <2>2. send' \in [Sends -> Unrecorded \cup {"prune", "gone"} \cup Finished]
        /\ (\A t \in Sends : send'[t] = IF t = s THEN "attaching" ELSE send[t])
    BY <1>2 DEF SendInv, SendTyped, Stands, Unrecorded
  <2>3. NotYetThere'
    BY <2>2 DEF SendInv, NotYetThere, WriteTo, Unrecorded
  <2>4. /\ accepted' \in [Dests -> {0, 1}] /\ contacted' \subseteq Dests
        /\ Remembered'
    BY <1>2, <2>1 DEF SendInv, SendTyped, Remembered
  <2> QED
    BY <2>2, <2>3, <2>4 DEF SendInv, SendTyped, FilesThere, WriteTo
<1> QED
  BY <1>1, <1>2 DEF WriteTo

LEMMA RetainKeeps == ASSUME SendInv, NEW s \in Sends, Retain(s) PROVE SendInv'
<1>1. send' \in [Sends -> Unrecorded \cup {"prune", "gone"} \cup Finished]
      /\ \A t \in Sends : send'[t] = IF t = s THEN "save" ELSE send[t]
  BY DEF SendInv, SendTyped, Retain, Stands, Unrecorded
<1>2. NotYetThere'
  BY <1>1 DEF SendInv, NotYetThere, Retain, Unrecorded
<1>3. copies \subseteq copies' /\ copies' \subseteq Sends
  BY DEF Retain, SendInv, SendTyped
<1>4. FilesThere'
  BY <1>3 DEF SendInv, FilesThere, Retain
<1> QED
  BY <1>1, <1>2, <1>3, <1>4 DEF SendInv, SendTyped, Remembered, Retain

LEMMA SaveLogKeeps == ASSUME SendInv, NEW s \in Sends, SaveLog(s) PROVE SendInv'
<1>1. send[s] \in Unrecorded
  BY DEF SaveLog, Unrecorded
<1>2. CASE /\ audit' = Kept(Append(audit, [of |-> s, file |-> s \in copies]))
           /\ Stands(s, "prune") /\ UNCHANGED copies
  <2> DEFINE e == [of |-> s, file |-> s \in copies]
  <2>1. e \in AuditRecord /\ audit \in Seq(AuditRecord)
    BY DEF AuditRecord, SendInv, SendTyped
  <2>2. /\ audit' \in Seq(AuditRecord)
        /\ \A i \in 1..Len(audit') : audit'[i] = e \/ \E j \in 1..Len(audit) : audit'[i] = audit[j]
    BY <1>2, <2>1, KeptIs
  <2>3. send' \in [Sends -> Unrecorded \cup {"prune", "gone"} \cup Finished]
        /\ \A t \in Sends : send'[t] = IF t = s THEN "prune" ELSE send[t]
    BY <1>2 DEF SendInv, SendTyped, Stands
  <2>4. e.of = s /\ e.file = (s \in copies)
    OBVIOUS
  <2> HIDE DEF e
  <2>5. NotYetThere'
    BY <2>2, <2>3, <2>4 DEF SendInv, NotYetThere, Unrecorded
  <2>6. FilesThere'
    BY <1>2, <2>2, <2>4 DEF SendInv, FilesThere, SaveLog
  <2> QED
    BY <1>2, <2>2, <2>3, <2>5, <2>6 DEF SendInv, SendTyped, Remembered, SaveLog
<1>3. CASE copies' = copies \ {s} /\ Stands(s, "degraded") /\ UNCHANGED audit
  <2>1. send' \in [Sends -> Unrecorded \cup {"prune", "gone"} \cup Finished]
        /\ \A t \in Sends : send'[t] = IF t = s THEN "degraded" ELSE send[t]
    BY <1>3 DEF SendInv, SendTyped, Stands, Finished
  <2>2. NotYetThere'
    BY <1>3, <2>1 DEF SendInv, NotYetThere, Unrecorded
  <2>3. FilesThere'
    BY <1>1, <1>3 DEF SendInv, FilesThere, NotYetThere, SaveLog
  <2> QED
    BY <1>3, <2>1, <2>2, <2>3 DEF SendInv, SendTyped, Remembered, SaveLog
<1> QED
  BY <1>2, <1>3 DEF SaveLog

LEMMA PruneKeeps == ASSUME SendInv, NEW s \in Sends, PruneCopies(s) PROVE SendInv'
<1>1. PICK result \in Finished : Stands(s, result)
  BY DEF PruneCopies
<1>2. send' \in [Sends -> Unrecorded \cup {"prune", "gone"} \cup Finished]
      /\ \A t \in Sends : send'[t] = IF t = s THEN result ELSE send[t]
  BY <1>1 DEF SendInv, SendTyped, Stands
<1>3. NotYetThere'
  BY <1>2 DEF SendInv, NotYetThere, Unrecorded, Finished, PruneCopies
<1>4. \A i \in 1..Len(audit) : audit[i].file => audit[i].of \in Referenced
  BY DEF Referenced
<1>5. FilesThere'
  BY <1>4 DEF SendInv, FilesThere, PruneCopies
<1> QED
  BY <1>2, <1>3, <1>5 DEF SendInv, SendTyped, Remembered, PruneCopies

LEMMA WipeKeeps == ASSUME SendInv, WipeSent PROVE SendInv'
<1>1. CASE audit' = <<>> /\ copies' = {} /\ UNCHANGED damaged
  BY <1>1 DEF SendInv, SendTyped, Remembered, NotYetThere, FilesThere, WipeSent
<1>2. CASE copies' \in SUBSET copies /\ damaged' = TRUE /\ UNCHANGED audit
  BY <1>2 DEF SendInv, SendTyped, Remembered, NotYetThere, FilesThere, WipeSent
<1> QED
  BY <1>1, <1>2 DEF WipeSent

LEMMA CrashKeeps == ASSUME SendInv, DeliveryCrash PROVE SendInv'
<1>1. send' \in [Sends -> Unrecorded \cup {"prune", "gone"} \cup Finished]
      /\ \A t \in Sends : send'[t] \in Unrecorded => send[t] \in Unrecorded
  BY DEF SendInv, SendTyped, DeliveryCrash, Unrecorded
<1>2. NotYetThere'
  BY <1>1 DEF SendInv, NotYetThere, DeliveryCrash
<1> QED
  BY <1>1, <1>2 DEF SendInv, SendTyped, Remembered, FilesThere, DeliveryCrash

LEMMA SendNextInv == SendInv /\ [SendNext]_sendVars => SendInv'
<1> SUFFICES ASSUME SendInv, [SendNext]_sendVars PROVE SendInv'
  OBVIOUS
<1>1. CASE UNCHANGED sendVars
  BY <1>1 DEF sendVars, SendInv, SendTyped, Remembered, NotYetThere, FilesThere
<1>2. ASSUME NEW s \in Sends, CallAgain(s) \/ SendAttachments(s) \/ LoadLog(s) PROVE SendInv'
  <2>1. send[s] \in Unrecorded /\ {"new", "audit", "retain"} \subseteq Unrecorded
        /\ "degraded" \in Finished
    BY <1>2 DEF CallAgain, SendAttachments, LoadLog, Unrecorded, Finished
  <2> QED
    BY <1>2, <2>1, CallMoves DEF CallAgain, SendAttachments, LoadLog
<1> QED
  BY <1>1, <1>2, WriteToKeeps, RetainKeeps, SaveLogKeeps, PruneKeeps, WipeKeeps, CrashKeeps DEF SendNext

LEMMA SendInvHolds == SendInv => OneTextEach /\ AuditBacked
<1> SUFFICES ASSUME SendInv PROVE OneTextEach /\ AuditBacked
  OBVIOUS
<1>1. OneTextEach
  BY DEF SendInv, SendTyped, OneTextEach
<1>2. AuditBacked
  BY DEF SendInv, FilesThere, AuditBacked, Referenced
<1> QED
  BY <1>1, <1>2

(***************************************************************************)
(* QuotaGuard.  The guard's next poll comes before a root that still has   *)
(* headroom can have used it up at the assumed rate; a root over its limit *)
(* is polled every tick and may only shrink.  Room(n) is what the commands *)
(* can write in n ticks.                                                   *)
(***************************************************************************)
Room(n) == n * WriteRate

\* Before the next poll a root with headroom stays within its limit.
HeadroomLasts(r) == ~mixed => (wait <= 1 \/ size[r] + Room(wait) <= RootLimit)

\* What the commands have added and may still add before the next poll.
AddedBounded(r) ==
    jobs => size[r] + Room(wait) <= Found(r) + (IF mixed THEN Room(PollMax) ELSE WriteRate)

\* A root found over its limit is polled at the next tick, and may shrink
\* below what the last poll saw only to be what the commands found.
OverPolled(r) ==
    /\ (wait >= 1 /\ exceeded[r]) => (wait = 1 /\ polled[r] <= size[r])
    /\ (jobs /\ exceeded[r] /\ wait >= 1) => polled[r] <= Found(r)
    /\ (jobs /\ exceeded[r] /\ size[r] <= polled[r]) => size[r] <= Found(r)

GuardInv == GuardTypeOK /\ \A r \in Roots : HeadroomLasts(r) /\ AddedBounded(r) /\ OverPolled(r)

LEMMA RoomIs ==
    /\ Room(0) = 0 /\ Room(1) = WriteRate
    /\ \A n \in Nat : Room(n) \in Nat /\ Room(n + 1) = Room(n) + WriteRate
    /\ \A n \in Nat \ {0} : Room(n) = Room(n - 1) + WriteRate
    /\ \A n \in 0..PollMax : Room(n) <= Room(PollMax)
<1>1. WriteRate \in Nat \ {0} /\ PollMax \in Nat
  BY QuotaGuardConstants
<1>2. \A n \in 0..PollMax : n * WriteRate <= PollMax * WriteRate
  BY <1>1
<1>3. \A n \in Nat : n * WriteRate \in Nat /\ (n + 1) * WriteRate = n * WriteRate + WriteRate
  BY <1>1
<1>4. \A n \in Nat \ {0} : n * WriteRate = (n - 1) * WriteRate + WriteRate
  BY <1>1
<1> QED
  BY <1>1, <1>2, <1>3, <1>4 DEF Room

LEMMA SmallestIs ==
    ASSUME NEW S \in SUBSET Int, S # {}, NEW low \in Int, \A x \in S : low <= x
    PROVE  Min(S) \in S /\ \A x \in S : Min(S) <= x
<1>1. \E x \in S : \A y \in S : x <= y
  BY LeastIs
<1> QED
  BY <1>1, Zenon DEF Min

LEMMA LargerIs ==
    ASSUME NEW a \in Int, NEW b \in Int
    PROVE  Max({a, b}) \in {a, b} /\ Max({a, b}) >= a /\ Max({a, b}) >= b
<1>1. \E x \in {a, b} : \A y \in {a, b} : x >= y
  OBVIOUS
<1> QED
  BY <1>1 DEF Max

LEMMA SmallerIs ==
    ASSUME NEW a \in Int, NEW b \in Int
    PROVE  Min({a, b}) \in {a, b} /\ Min({a, b}) <= a /\ Min({a, b}) <= b
<1>1. \E x \in {a, b} : \A y \in {a, b} : x <= y
  OBVIOUS
<1> QED
  BY <1>1 DEF Min

LEMMA FoundIs ==
    /\ GuardTypeOK => \A r \in Roots : Found(r) \in Nat /\ Found(r) >= RootLimit /\ Found(r) >= base[r]
    /\ GuardTypeOK' => \A r \in Roots : Found(r)' \in Nat /\ Found(r)' >= RootLimit /\ Found(r)' >= base'[r]
<1>1. ASSUME NEW b \in Nat
      PROVE  Max({RootLimit, b}) \in Nat /\ Max({RootLimit, b}) >= RootLimit /\ Max({RootLimit, b}) >= b
  <2>1. RootLimit \in Int /\ b \in Int /\ RootLimit \in Nat
    BY QuotaGuardConstants
  <2>2. Max({RootLimit, b}) \in {RootLimit, b} /\ Max({RootLimit, b}) >= RootLimit /\ Max({RootLimit, b}) >= b
    BY <2>1, LargerIs, Zenon
  <2> QED
    BY <2>1, <2>2
<1>2. GuardTypeOK => \A r \in Roots : base[r] \in Nat
  BY DEF GuardTypeOK
<1>3. GuardTypeOK' => \A r \in Roots : base'[r] \in Nat
  BY DEF GuardTypeOK
<1> QED
  BY <1>1, <1>2, <1>3, Zenon DEF Found

LEMMA PollTicksAre ==
    ASSUME GuardTypeOK
    PROVE  /\ PollTicks \in 1..PollMax
           /\ PollTicks = 1 \/ \A r \in Roots : size[r] + Room(PollTicks) <= RootLimit
<1> DEFINE S == {RootLimit - size[r] : r \in Roots}
           headroom == Min(S)
           ticks == headroom \div WriteRate
<1>1. RootLimit \in Nat /\ MaxSize \in Nat /\ WriteRate \in Nat \ {0} /\ PollMax \in Nat \ {0} /\ Roots # {}
  BY QuotaGuardConstants
<1>2. size \in [Roots -> 0..MaxSize]
  BY DEF GuardTypeOK
<1>3. S \in SUBSET Int /\ S # {} /\ \A x \in S : RootLimit - MaxSize <= x
  BY <1>1, <1>2
<1>4. headroom \in S /\ \A x \in S : headroom <= x
  <2>1. RootLimit - MaxSize \in Int
    BY <1>1
  <2> HIDE DEF S
  <2>2. Min(S) \in S /\ \A x \in S : Min(S) <= x
    BY <2>1, <1>3, SmallestIs, Zenon
  <2> QED
    BY <2>2, Zenon
<1>5. headroom \in Int /\ \A r \in Roots : headroom <= RootLimit - size[r]
  BY <1>3, <1>4
<1> HIDE DEF headroom
<1>6. ticks \in Int /\ (ticks >= 1 => ticks * WriteRate <= headroom)
  BY <1>1, <1>5
<1> HIDE DEF ticks
<1> DEFINE low == Min({PollMax, ticks})
<1>7. low \in Int /\ low <= PollMax /\ low <= ticks
  <2>1. PollMax \in Int /\ ticks \in Int
    BY <1>1, <1>6
  <2>2. low \in {PollMax, ticks} /\ low <= PollMax /\ low <= ticks
    BY <2>1, SmallerIs, Zenon
  <2> QED
    BY <2>1, <2>2
<1> HIDE DEF low
<1>8. PollTicks = Max({1, low})
  BY DEF PollTicks, low, ticks, headroom
<1>9. PollTicks \in {1, low} /\ PollTicks >= 1
  <2>1. 1 \in Int /\ low \in Int
    BY <1>7
  <2> QED
    BY <2>1, <1>8, LargerIs, Zenon
<1>10. PollTicks \in 1..PollMax
  BY <1>1, <1>7, <1>9
<1>11. ASSUME PollTicks # 1, NEW r \in Roots PROVE size[r] + Room(PollTicks) <= RootLimit
  <2>1. PollTicks = low /\ low >= 1
    BY <1>9, <1>11
  <2>2. low * WriteRate <= ticks * WriteRate
    BY <2>1, <1>1, <1>6, <1>7
  <2>3. low * WriteRate \in Int /\ ticks * WriteRate \in Int
    BY <1>1, <1>6, <1>7
  <2>4. low * WriteRate <= headroom
    BY <2>1, <2>2, <2>3, <1>5, <1>6, <1>7
  <2>5. size[r] \in Int /\ headroom <= RootLimit - size[r]
    BY <1>2, <1>5
  <2> QED
    BY <2>1, <2>3, <2>4, <2>5, <1>1, <1>5 DEF Room
<1> QED
  BY <1>10, <1>11

LEMMA GuardInitInv == GuardInit => GuardInv
<1> SUFFICES ASSUME GuardInit PROVE GuardInv
  OBVIOUS
<1>1. RootLimit \in 0..MaxSize /\ 0 \in 0..MaxSize /\ 0 \in 0..PollMax /\ MaxSize \in Nat
  BY QuotaGuardConstants
<1>2. size \in [Roots -> 0..MaxSize]
  BY <1>1 DEF GuardInit
<1>3. GuardTypeOK
  BY <1>1, <1>2 DEF GuardInit, GuardTypeOK
<1> QED
  BY <1>3 DEF GuardInit, GuardInv, HeadroomLasts, AddedBounded, OverPolled

\* What the numbers of a state are.
LEMMA GuardNumbers ==
    ASSUME GuardTypeOK
    PROVE  /\ RootLimit \in Nat /\ WriteRate \in Nat \ {0} /\ PollMax \in Nat \ {0} /\ wait \in 0..PollMax
           /\ Room(wait) \in Nat /\ Room(wait) <= Room(PollMax) /\ Room(PollMax) \in Nat
           /\ WriteRate <= Room(PollMax) /\ Room(0) = 0 /\ Room(1) = WriteRate
           /\ wait <= 1 => Room(wait) <= WriteRate
           /\ \A r \in Roots : {size[r], polled[r], base[r], Found(r)} \subseteq Nat
           /\ \A r \in Roots : Found(r) >= RootLimit /\ Found(r) >= base[r]
<1>1. RootLimit \in Nat /\ WriteRate \in Nat \ {0} /\ PollMax \in Nat \ {0} /\ wait \in 0..PollMax
  BY QuotaGuardConstants DEF GuardTypeOK
<1>2. /\ Room(wait) \in Nat /\ Room(wait) <= Room(PollMax) /\ Room(PollMax) \in Nat
      /\ WriteRate <= Room(PollMax) /\ Room(0) = 0 /\ Room(1) = WriteRate
      /\ wait <= 1 => Room(wait) <= WriteRate
  <2>1. 1 \in 0..PollMax /\ wait \in Nat /\ PollMax \in Nat
    BY <1>1
  <2>2. Room(1) <= Room(PollMax) /\ Room(wait) <= Room(PollMax) /\ Room(1) = WriteRate /\ Room(0) = 0
    BY <1>1, <2>1, RoomIs
  <2>3. Room(wait) \in Nat /\ Room(PollMax) \in Nat
    BY <2>1, RoomIs
  <2>4. wait <= 1 => wait = 0 \/ wait = 1
    BY <2>1
  <2> QED
    BY <1>1, <2>2, <2>3, <2>4
<1>3. \A r \in Roots : Found(r) \in Nat /\ Found(r) >= RootLimit /\ Found(r) >= base[r]
  BY FoundIs
<1>4. \A r \in Roots : size[r] \in Nat /\ polled[r] \in Nat /\ base[r] \in Nat
  BY DEF GuardTypeOK
<1> QED
  BY <1>1, <1>2, <1>3, <1>4

LEMMA StartsKeeps == ASSUME GuardInv, CommandStarts PROVE GuardInv'
<1>1. GuardTypeOK /\ GuardTypeOK'
  BY DEF GuardInv, GuardTypeOK, CommandStarts
<1>2. ASSUME NEW r \in Roots PROVE (HeadroomLasts(r) /\ AddedBounded(r) /\ OverPolled(r))'
  <2>1. HeadroomLasts(r) /\ OverPolled(r)
    BY DEF GuardInv
  <2>2. UNCHANGED <<size, polled, exceeded, wait, mixed>> /\ base'[r] = size[r]
    BY DEF CommandStarts
  <2>3. Room(wait)' = Room(wait) /\ Room(PollMax)' = Room(PollMax)
    BY <2>2 DEF Room
  <2>4. Found(r)' \in Nat /\ Found(r)' >= RootLimit /\ Found(r)' >= base'[r]
    BY <1>1, FoundIs
  <2>5. size[r] \in Nat /\ polled[r] \in Nat
    BY <1>1, GuardNumbers
  <2>6. HeadroomLasts(r)'
    BY <2>1, <2>2, <2>3 DEF HeadroomLasts
  <2>7. AddedBounded(r)'
    BY <1>1, <2>1, <2>2, <2>3, <2>4, <2>5, GuardNumbers DEF HeadroomLasts, AddedBounded
  <2>8. OverPolled(r)'
    BY <1>1, <2>1, <2>2, <2>4, <2>5, GuardNumbers DEF OverPolled
  <2> QED
    BY <2>6, <2>7, <2>8
<1> QED
  BY <1>1, <1>2 DEF GuardInv

LEMMA EndKeeps ==
    ASSUME GuardInv, jobs' \in BOOLEAN, jobs' => jobs, api' \in {NoWrite} \cup [root : Roots, bytes : ApiSizes],
           UNCHANGED <<size, polled, exceeded, wait, base, mixed>>
    PROVE  GuardInv'
<1>1. GuardTypeOK'
  BY DEF GuardInv, GuardTypeOK
<1>2. \A r \in Roots : Found(r)' = Found(r) /\ Room(wait)' = Room(wait) /\ Room(PollMax)' = Room(PollMax)
  BY DEF Found, Room
<1>3. ASSUME NEW r \in Roots PROVE (HeadroomLasts(r) /\ AddedBounded(r) /\ OverPolled(r))'
  <2>1. HeadroomLasts(r) /\ AddedBounded(r) /\ OverPolled(r)
    BY DEF GuardInv
  <2> QED
    BY <2>1, <1>2 DEF HeadroomLasts, AddedBounded, OverPolled
<1> QED
  BY <1>1, <1>3 DEF GuardInv

LEMMA GuardTickKeeps == ASSUME GuardInv, GuardTick PROVE GuardInv'
<1>1. GuardTypeOK /\ UNCHANGED <<polled, exceeded, jobs, api, base, mixed>>
  BY DEF GuardInv, GuardTick
<1>2. wait \in 1..PollMax /\ wait' = wait - 1 /\ wait' \in 0..PollMax
  BY <1>1, GuardNumbers DEF GuardTick
<1>3. GuardTypeOK'
  <2>1. size' \in [Roots -> 0..MaxSize]
    <3>1. CASE UNCHANGED size
      BY <3>1, <1>1 DEF GuardTypeOK
    <3>2. ASSUME NEW r \in Roots, NEW bytes \in 0..size[r] + WriteRate, bytes <= MaxSize,
                 size' = [size EXCEPT ![r] = bytes]
          PROVE  size' \in [Roots -> 0..MaxSize]
      <4>1. bytes \in 0..MaxSize
        BY <3>2, <1>1, GuardNumbers, QuotaGuardConstants
      <4> QED
        BY <4>1, <3>2, <1>1 DEF GuardTypeOK
    <3> QED
      BY <3>1, <3>2 DEF GuardTick
  <2> QED
    BY <2>1, <1>1, <1>2 DEF GuardTypeOK
<1>4. \A r \in Roots : Found(r)' = Found(r)
  BY <1>1 DEF Found
<1>5. Room(wait) = Room(wait') + WriteRate /\ Room(wait') \in Nat /\ Room(PollMax)' = Room(PollMax)
  <2>1. wait \in Nat \ {0} /\ wait - 1 \in Nat
    BY <1>1, <1>2, GuardNumbers
  <2>2. Room(wait) = Room(wait - 1) + WriteRate /\ Room(wait - 1) \in Nat
    BY <2>1, RoomIs
  <2> QED
    BY <2>2, <1>2 DEF Room
<1>6. ASSUME NEW r \in Roots
      PROVE  size'[r] \in Nat /\ size[r] \in Nat /\ size'[r] <= size[r] + WriteRate /\ (~jobs => size'[r] = size[r])
  <2>1. size[r] \in Nat /\ size'[r] \in Nat /\ WriteRate \in Nat
    BY <1>1, <1>3, QuotaGuardConstants DEF GuardTypeOK
  <2>2. CASE UNCHANGED size
    BY <2>1, <2>2
  <2>3. ASSUME jobs, NEW x \in Roots, NEW bytes \in 0..size[x] + WriteRate, size' = [size EXCEPT ![x] = bytes]
        PROVE  size'[r] <= size[r] + WriteRate
    <3>1. size'[r] = IF r = x THEN bytes ELSE size[r]
      BY <2>3, <1>1 DEF GuardTypeOK
    <3> QED
      BY <3>1, <2>1
  <2> QED
    BY <2>1, <2>2, <2>3 DEF GuardTick
<1>7. ASSUME NEW r \in Roots PROVE (HeadroomLasts(r) /\ AddedBounded(r) /\ OverPolled(r))'
  <2>1. HeadroomLasts(r) /\ AddedBounded(r) /\ OverPolled(r)
    BY DEF GuardInv
  <2>2. /\ size'[r] \in Nat /\ size[r] \in Nat /\ polled[r] \in Nat /\ Found(r) \in Nat /\ RootLimit \in Nat
        /\ WriteRate \in Nat /\ wait \in Nat /\ Room(PollMax) \in Nat
    BY <1>1, <1>6, GuardNumbers
  <2>3. HeadroomLasts(r)'
    BY <2>1, <2>2, <1>1, <1>2, <1>5, <1>6 DEF HeadroomLasts
  <2>4. AddedBounded(r)'
    <3> SUFFICES ASSUME jobs PROVE size'[r] + Room(wait') <= Found(r) + (IF mixed THEN Room(PollMax) ELSE WriteRate)
      BY <1>1, <1>4, <1>5 DEF AddedBounded
    <3>1. size[r] + Room(wait) <= Found(r) + (IF mixed THEN Room(PollMax) ELSE WriteRate)
      BY <2>1 DEF AddedBounded
    <3> QED
      BY <3>1, <2>2, <1>5, <1>6
  <2>5. OverPolled(r)'
    BY <2>1, <2>2, <1>1, <1>2, <1>4 DEF OverPolled
  <2> QED
    BY <2>3, <2>4, <2>5
<1> QED
  BY <1>3, <1>7 DEF GuardInv

LEMMA ApiWritesKeeps == ASSUME GuardInv, ApiWrites PROVE GuardInv'
<1> DEFINE r0 == api.root
           total == size[r0] + api.bytes
<1>1. GuardTypeOK /\ UNCHANGED <<polled, exceeded, wait, jobs>> /\ mixed' = TRUE /\ api' = NoWrite
  BY DEF GuardInv, ApiWrites
<1>2. r0 \in Roots /\ api.bytes \in Nat
  BY <1>1, QuotaGuardConstants DEF GuardTypeOK, ApiWrites
<1>3. total \in 0..MaxSize /\ size' = [size EXCEPT ![r0] = total]
  BY <1>1, <1>2, GuardNumbers, QuotaGuardConstants DEF ApiWrites
<1>4. total >= size[r0] /\ size[r0] \in Nat
  BY <1>1, <1>2, GuardNumbers
<1> HIDE DEF r0, total
<1>5. size'[r0] = total /\ size' \in [Roots -> 0..MaxSize] /\ \A r \in Roots \ {r0} : size'[r] = size[r]
  BY <1>1, <1>2, <1>3 DEF GuardTypeOK
<1> DEFINE grown == Max({base[r0], total})
<1>6. base' = [base EXCEPT ![r0] = grown]
  BY <1>5 DEF ApiWrites, r0
<1>7. grown \in 0..MaxSize /\ grown >= base[r0] /\ grown >= total
  <2>1. base[r0] \in Int /\ total \in Int /\ base[r0] \in 0..MaxSize
    BY <1>1, <1>2, <1>3, QuotaGuardConstants DEF GuardTypeOK
  <2>2. grown \in {base[r0], total} /\ grown >= base[r0] /\ grown >= total
    BY <2>1, LargerIs, Zenon
  <2> QED
    BY <2>1, <2>2, <1>3
<1> HIDE DEF grown
<1>8. base' \in [Roots -> 0..MaxSize] /\ base'[r0] = grown /\ \A r \in Roots \ {r0} : base'[r] = base[r]
  BY <1>1, <1>2, <1>6, <1>7 DEF GuardTypeOK
<1>9. GuardTypeOK'
  BY <1>1, <1>5, <1>8 DEF GuardTypeOK
<1>10. Room(wait)' = Room(wait) /\ Room(PollMax)' = Room(PollMax)
  BY <1>1 DEF Room
<1>11. ASSUME NEW r \in Roots PROVE (HeadroomLasts(r) /\ AddedBounded(r) /\ OverPolled(r))'
  <2>1. HeadroomLasts(r) /\ AddedBounded(r) /\ OverPolled(r)
    BY DEF GuardInv
  <2>2. /\ size'[r] \in Nat /\ size[r] \in Nat /\ polled[r] \in Nat /\ Found(r) \in Nat /\ RootLimit \in Nat
        /\ WriteRate \in Nat /\ wait \in Nat /\ Room(PollMax) \in Nat /\ Room(wait) \in Nat
        /\ Room(wait) <= Room(PollMax) /\ WriteRate <= Room(PollMax)
    BY <1>1, <1>9, GuardNumbers DEF GuardTypeOK
  <2>3. Found(r)' \in Nat /\ Found(r)' >= base'[r]
    BY <1>9, FoundIs
  <2>4. CASE r = r0
    <3>1. size'[r] >= size[r] /\ size'[r] <= Found(r)'
      <4>1. {total, grown} \subseteq Nat /\ size'[r] = total /\ base'[r] = grown
        BY <2>4, <1>3, <1>5, <1>7, <1>8, QuotaGuardConstants
      <4> QED
        BY <4>1, <2>3, <2>4, <1>4, <1>7
    <3>2. Found(r)' >= Found(r)
      <4>1. Found(r) \in {RootLimit, base[r]} /\ base'[r] >= base[r] /\ Found(r)' >= RootLimit
        <5>1. RootLimit \in Int /\ base[r] \in Int
          BY <1>1, GuardNumbers
        <5>2. Found(r) \in {RootLimit, base[r]}
          BY <5>1, LargerIs, Zenon DEF Found
        <5> QED
          BY <5>2, <1>7, <1>8, <1>9, <2>4, FoundIs
      <4> QED
        BY <4>1, <2>2, <2>3, <1>1, <1>9, GuardNumbers DEF GuardTypeOK
    <3>3. AddedBounded(r)'
      BY <3>1, <2>2, <2>3, <1>1, <1>10 DEF AddedBounded
    <3> QED
      BY <3>1, <3>2, <3>3, <2>1, <2>2, <2>3, <1>1 DEF HeadroomLasts, OverPolled
  <2>5. CASE r # r0
    <3>1. size'[r] = size[r] /\ Found(r)' = Found(r)
      BY <2>5, <1>5, <1>8 DEF Found
    <3>2. AddedBounded(r)'
      BY <3>1, <2>1, <2>2, <1>1, <1>10 DEF AddedBounded
    <3> QED
      BY <3>1, <3>2, <2>1, <1>1 DEF HeadroomLasts, OverPolled
  <2> QED
    BY <2>4, <2>5
<1> QED
  BY <1>9, <1>11 DEF GuardInv

LEMMA PollKeeps == ASSUME GuardInv, Poll PROVE GuardInv'
<1>1. GuardTypeOK /\ wait = 0 /\ wait' = PollTicks /\ mixed' = FALSE /\ polled' = size /\ UNCHANGED <<size, api, base>>
  BY DEF GuardInv, Poll
<1>2. wait' \in 1..PollMax /\ (wait' = 1 \/ \A r \in Roots : size[r] + Room(wait') <= RootLimit)
  BY <1>1, PollTicksAre
<1>3. /\ jobs' \in BOOLEAN /\ (jobs' => jobs /\ \A r \in Roots : ~Kills(r))
      /\ exceeded' \in [Roots -> BOOLEAN] /\ \A r \in Roots : exceeded'[r] = (size[r] > RootLimit)
  <2>1. jobs' \in BOOLEAN /\ (jobs' => jobs /\ \A r \in Roots : ~Kills(r))
    BY Zenon DEF Poll
  <2>2. exceeded' = [r \in Roots |-> size[r] > RootLimit]
    BY DEF Poll
  <2>3. exceeded' \in [Roots -> BOOLEAN]
    BY <2>2
  <2>4. \A r \in Roots : exceeded'[r] = (size[r] > RootLimit)
    BY <2>2, Zenon
  <2> QED
    BY <2>1, <2>3, <2>4, Zenon
<1>4. GuardTypeOK'
  <2>1. wait' \in 0..PollMax
    BY <1>2, QuotaGuardConstants
  <2>2. {size', polled', base'} \subseteq [Roots -> 0..MaxSize]
    BY <1>1 DEF GuardTypeOK
  <2>3. {jobs', mixed'} \subseteq BOOLEAN /\ api' \in {NoWrite} \cup [root : Roots, bytes : ApiSizes]
    BY <1>1, <1>3, Zenon DEF GuardTypeOK
  <2> QED
    BY <2>1, <2>2, <2>3, <1>3, Zenon DEF GuardTypeOK
<1>5. \A r \in Roots : Found(r)' = Found(r)
  BY <1>1 DEF Found
<1>6. ASSUME NEW r \in Roots PROVE (HeadroomLasts(r) /\ AddedBounded(r) /\ OverPolled(r))'
  <2>1. OverPolled(r)
    BY DEF GuardInv
  <2>2. /\ size[r] \in Nat /\ polled[r] \in Nat /\ Found(r) \in Nat /\ RootLimit \in Nat
        /\ WriteRate \in Nat \ {0} /\ Found(r) >= RootLimit /\ PollMax \in Nat
    BY <1>1, GuardNumbers
  <2>3. wait' \in Nat /\ Room(wait') \in Nat /\ Room(wait') >= WriteRate /\ (wait' = 1 => Room(wait') = WriteRate)
    <3>1. wait' \in Nat \ {0} /\ wait' - 1 \in Nat
      BY <1>2, <2>2
    <3>2. Room(wait') \in Nat /\ Room(wait' - 1) \in Nat /\ Room(wait') = Room(wait' - 1) + WriteRate
      BY <3>1, RoomIs
    <3>3. wait' = 1 => Room(wait') = WriteRate
      BY RoomIs
    <3> QED
      BY <3>1, <3>2, <3>3, <2>2
  <2>4. wait' # 1 => size[r] + Room(wait') <= RootLimit
    BY <1>2
  <2>5. size[r] > RootLimit => wait' = 1
    BY <2>2, <2>3, <2>4
  <2>6. jobs' => size[r] <= Found(r)
    <3> SUFFICES ASSUME jobs', size[r] > RootLimit PROVE size[r] <= Found(r)
      BY <2>2
    <3>1. jobs /\ exceeded[r] /\ size[r] <= polled[r]
      BY <1>3, <2>2 DEF Kills
    <3> QED
      BY <3>1, <2>1 DEF OverPolled
  <2>7. HeadroomLasts(r)'
    BY <1>1, <2>2, <2>3, <2>4 DEF HeadroomLasts, Room
  <2>8. AddedBounded(r)'
    <3>1. (Room(wait))' = Room(wait')
      BY DEF Room
    <3> SUFFICES ASSUME jobs' PROVE size[r] + Room(wait') <= Found(r) + WriteRate
      BY <1>1, <1>5, <3>1 DEF AddedBounded
    <3> QED
      BY <2>2, <2>3, <2>4, <2>6
  <2>9. OverPolled(r)'
    BY <1>1, <1>3, <1>5, <2>2, <2>3, <2>5, <2>6 DEF OverPolled
  <2> QED
    BY <2>7, <2>8, <2>9
<1> QED
  BY <1>4, <1>6 DEF GuardInv

LEMMA GuardNextInv == GuardInv /\ [GuardNext]_guardVars => GuardInv'
<1> SUFFICES ASSUME GuardInv, [GuardNext]_guardVars PROVE GuardInv'
  OBVIOUS
<1>1. CASE CommandStarts
  BY <1>1, StartsKeeps
<1>2. CASE CommandsEnd
  BY <1>2, EndKeeps DEF CommandsEnd, GuardInv, GuardTypeOK
<1>3. CASE GuardTick
  BY <1>3, GuardTickKeeps
<1>4. CASE ApiWrites
  BY <1>4, ApiWritesKeeps
<1>5. CASE Poll
  BY <1>5, PollKeeps
<1>6. ASSUME NEW r \in Roots, NEW bytes \in ApiSizes, ApiAdmits(r, bytes) PROVE GuardInv'
  BY <1>6, EndKeeps DEF ApiAdmits, GuardInv, GuardTypeOK
<1>7. CASE UNCHANGED guardVars
  BY <1>7, EndKeeps DEF guardVars, GuardInv, GuardTypeOK
<1> QED
  BY <1>1, <1>2, <1>3, <1>4, <1>5, <1>6, <1>7 DEF GuardNext

LEMMA GuardInvHolds == GuardInv => OvershootBounded
<1> SUFFICES ASSUME GuardInv, jobs, NEW r \in Roots
             PROVE  size[r] <= Found(r) + (IF mixed THEN PollMax * WriteRate ELSE WriteRate)
  BY DEF OvershootBounded
<1>1. GuardTypeOK /\ AddedBounded(r)
  BY DEF GuardInv
<1>2. /\ size[r] \in Nat /\ Found(r) \in Nat /\ Room(wait) \in Nat /\ Room(PollMax) \in Nat /\ WriteRate \in Nat
      /\ Room(PollMax) = PollMax * WriteRate
  BY <1>1, GuardNumbers DEF Room
<1>3. size[r] + Room(wait) <= Found(r) + (IF mixed THEN Room(PollMax) ELSE WriteRate)
  BY <1>1 DEF AddedBounded
<1> QED
  BY <1>2, <1>3

LEMMA GuardInvariant == GuardInit /\ [][GuardNext]_guardVars => []GuardInv
<1>1. GuardInit => GuardInv
  BY GuardInitInv
<1>2. GuardInv /\ [GuardNext]_guardVars => GuardInv'
  BY GuardNextInv
<1> QED
  BY <1>1, <1>2, PTL

\* What the commands of a container add beyond its limit is at most what
\* they can write between two polls: for any roots, limits, write rate and
\* polling interval.
THEOREM OvershootIsBounded == GuardSpec => []OvershootBounded
<1>1. GuardSpec => []GuardInv
  BY GuardInvariant DEF GuardSpec
<1>2. GuardInv => OvershootBounded
  BY GuardInvHolds
<1> QED
  BY <1>1, <1>2, PTL

(***************************************************************************)
(* Attachments.  That a tag of a turn names its own attachment's bytes     *)
(* rests on the durable file behind it: it was un-aged when it was synced  *)
(* and nothing ages while a turn is under way, so the sweep leaves it, its *)
(* name is not given away, and no other attachment is projected over it.   *)
(***************************************************************************)
TurnRecord == [pc : {"off", "ingest", "prepared", "asked"}, todo : SUBSET AttIds,
               cur : AttIds \cup {NoName}, step : {"none", "sync", "fetch", "project"},
               got : Names \cup {NoName}, tags : [AttIds -> Names \cup {NoName}]]

AgedThere == \A n \in Names : <<"disk", n>> \in aged => disk[n] # NoName

OffIsEmpty == turn.pc = "off" => turn = NoTurn

\* The file a sync has returned stays until it is projected.
GotHeld ==
    /\ turn.step \in {"sync", "fetch"} => turn.got = NoName
    /\ (turn.step = "project" /\ turn.got # NoName) =>
          (disk[turn.got] = turn.cur /\ <<"disk", turn.got>> \notin aged)

\* Behind a tag are the attachment's durable bytes and their projection.
TagHolds(i) ==
    (turn.tags[i] # NoName /\ ~loose) =>
        /\ disk[turn.tags[i]] = i /\ <<"disk", turn.tags[i]>> \notin aged
        /\ ~swept => (proj[turn.tags[i]] = i /\ <<"proj", turn.tags[i]>> \notin aged)

AttInv == AttTypeOK /\ NoAlias /\ AgedThere /\ OffIsEmpty /\ GotHeld /\ \A i \in AttIds : TagHolds(i)

LEMMA NoTurnIs ==
    /\ NoTurn \in TurnRecord /\ NoTurn.pc = "off" /\ NoTurn.step = "none" /\ NoTurn.got = NoName
    /\ NoTurn.cur = NoName /\ \A i \in AttIds : NoTurn.tags[i] = NoName
BY DEF NoTurn, NoTags, TurnRecord

LEMMA NoNameIs == \A n \in AttIds \cup Names : n # NoName
BY AttachmentConstants

LEMMA NamesAre == Names \subseteq Nat /\ 1 \in Names
<1>1. Names = 1..Cardinality(Names) /\ Cardinality(Names) \in Nat /\ Names # {}
  BY AttachmentConstants, FS_CardinalityType
<1>2. PICK n \in Names : TRUE
  BY <1>1
<1>3. n \in 1..Cardinality(Names)
  BY <1>1
<1>4. 1 \in 1..Cardinality(Names)
  BY <1>1, <1>3
<1> QED
  BY <1>1, <1>4

LEMMA FreshIs ==
    ASSUME FreeNames # {}
    PROVE  FreshName \in Names /\ disk[FreshName] = NoName /\ \A j \in AttIds : meta[j] # FreshName
<1>1. Names \subseteq Nat
  BY NamesAre
<1>2. FreeNames \subseteq Names
  BY DEF FreeNames
<1>3. FreeNames \in SUBSET Int /\ 0 \in Int /\ \A n \in FreeNames : 0 <= n
  BY <1>1, <1>2
<1>4. \E n \in FreeNames : \A m \in FreeNames : n <= m
  BY <1>3, LeastIs, Zenon
<1>5. FreshName \in FreeNames
  BY <1>4, Zenon DEF FreshName
<1> QED
  BY <1>5 DEF FreeNames

LEMMA AttTyped ==
    AttTypeOK <=>
        /\ disk \in [Names -> AttIds \cup {NoName}]
        /\ meta \in [AttIds -> Names \cup {NoName}]
        /\ proj \in [Names -> AttIds \cup {NoName}]
        /\ aged \subseteq {"disk", "proj"} \X Names
        /\ turn \in TurnRecord /\ syncing \in AttIds \cup {NoName}
        /\ stamp \in {"none", "fresh", "stale"} /\ sweep \in {"off", "closing"}
        /\ swept \in BOOLEAN /\ loose \in BOOLEAN
        /\ turns \in 0..MaxTurns /\ faults \in 0..MaxFaults /\ deaths \in 0..MaxDeaths
BY DEF AttTypeOK, TurnRecord

LEMMA AttInitInv == AttInit => AttInv
<1> SUFFICES ASSUME AttInit PROVE AttInv
  OBVIOUS
<1>1. 0 \in 0..MaxTurns /\ 0 \in 0..MaxFaults /\ 0 \in 0..MaxDeaths
  BY AttachmentConstants
<1>2. AttTypeOK
  BY <1>1, NoTurnIs, AttTyped DEF AttInit, NoTags
<1>3. NoAlias /\ AgedThere
  BY DEF AttInit, NoAlias, AgedThere, NoTags
<1> QED
  BY <1>2, <1>3, NoTurnIs DEF AttInit, AttInv, OffIsEmpty, GotHeld, TagHolds

\* A step that moves the turn and leaves the files, the entries and their
\* ages alone.
LEMMA StepOnly ==
    ASSUME AttInv, turn' \in TurnRecord, UNCHANGED <<disk, meta, proj, aged>>,
           turn'.pc = "off" => turn' = NoTurn,
           turn'.step \in {"sync", "fetch"} => turn'.got = NoName,
           turn'.step = "project" =>
               turn'.got = NoName \/ (turn.step = "project" /\ turn'.got = turn.got /\ turn'.cur = turn.cur),
           \A i \in AttIds : turn'.tags[i] \in {NoName, turn.tags[i]},
           (\A i \in AttIds : turn'.tags[i] = NoName) \/ UNCHANGED <<swept, loose>>,
           syncing' \in AttIds \cup {NoName}, stamp' \in {"none", "fresh", "stale"},
           sweep' \in {"off", "closing"}, swept' \in BOOLEAN, loose' \in BOOLEAN,
           turns' \in 0..MaxTurns, faults' \in 0..MaxFaults, deaths' \in 0..MaxDeaths
    PROVE  AttInv'
<1>1. AttTypeOK'
  BY AttTyped DEF AttInv, AttTypeOK, TurnRecord
<1>2. NoAlias' /\ AgedThere' /\ OffIsEmpty'
  BY DEF AttInv, NoAlias, AgedThere, OffIsEmpty
<1>3. GotHeld'
  BY DEF AttInv, GotHeld
<1>4. ASSUME NEW i \in AttIds PROVE TagHolds(i)'
  <2>1. TagHolds(i)
    BY DEF AttInv
  <2>2. CASE turn'.tags[i] = NoName
    BY <2>2 DEF TagHolds
  <2>3. CASE turn'.tags[i] = turn.tags[i] /\ turn'.tags[i] # NoName
    BY <2>1, <2>3 DEF TagHolds
  <2> QED
    BY <2>2, <2>3
<1> QED
  BY <1>1, <1>2, <1>3, <1>4 DEF AttInv

\* The attachment gets a name nothing else has: what is known of the rest.
LEMMA StoreIs ==
    ASSUME AttInv, NEW i \in AttIds, FreeNames # {},
           disk' = [disk EXCEPT ![FreshName] = i], meta' = [meta EXCEPT ![i] = FreshName]
    PROVE  /\ FreshName \in Names /\ disk'[FreshName] = i
           /\ disk' \in [Names -> AttIds \cup {NoName}] /\ meta' \in [AttIds -> Names \cup {NoName}]
           /\ \A n \in Names \ {FreshName} : disk'[n] = disk[n]
           /\ <<"disk", FreshName>> \notin aged
           /\ \A j \in AttIds : turn.tags[j] = FreshName => loose
           /\ NoAlias'
<1>1. AttTypeOK /\ NoAlias /\ AgedThere /\ \A j \in AttIds : TagHolds(j)
  BY DEF AttInv
<1>2. FreshName \in Names /\ disk[FreshName] = NoName /\ \A j \in AttIds : meta[j] # FreshName
  BY FreshIs
<1>3. disk'[FreshName] = i /\ \A n \in Names \ {FreshName} : disk'[n] = disk[n]
  BY <1>1, <1>2 DEF AttTypeOK
<1>4. meta'[i] = FreshName /\ \A j \in AttIds \ {i} : meta'[j] = meta[j]
  BY <1>1, <1>2 DEF AttTypeOK
<1>5. disk' \in [Names -> AttIds \cup {NoName}] /\ meta' \in [AttIds -> Names \cup {NoName}]
  BY <1>1, <1>2 DEF AttTypeOK
<1>6. NoAlias'
  <2> SUFFICES ASSUME NEW k \in AttIds, meta'[k] # NoName
               PROVE  disk'[meta'[k]] \in {k, NoName} /\ \A j \in AttIds \ {k} : meta'[j] # meta'[k]
    BY DEF NoAlias
  <2>1. CASE k = i
    BY <2>1, <1>2, <1>3, <1>4
  <2>2. CASE k # i
    <3>1. meta'[k] = meta[k] /\ meta[k] \in Names \ {FreshName}
      BY <2>2, <1>1, <1>2, <1>4 DEF AttTypeOK
    <3>2. disk'[meta'[k]] = disk[meta[k]] /\ disk[meta[k]] \in {k, NoName}
      BY <3>1, <1>1, <1>3 DEF NoAlias
    <3>3. ASSUME NEW j \in AttIds \ {k} PROVE meta'[j] # meta'[k]
      BY <3>1, <1>1, <1>2, <1>4 DEF NoAlias
    <3> QED
      BY <3>2, <3>3
  <2> QED
    BY <2>1, <2>2
<1>7. ASSUME NEW j \in AttIds, turn.tags[j] = FreshName, ~loose PROVE FALSE
  BY <1>1, <1>2, <1>7, NoNameIs DEF TagHolds
<1> QED
  BY <1>1, <1>2, <1>3, <1>5, <1>6, <1>7 DEF AgedThere

LEMMA TaggedIs ==
    ASSUME turn \in TurnRecord, NEW i \in AttIds, NEW n \in Names \cup {NoName}
    PROVE  /\ Tagged(i, n) \in TurnRecord
           /\ Tagged(i, n).pc = turn.pc /\ Tagged(i, n).step = "none" /\ Tagged(i, n).got = turn.got
           /\ Tagged(i, n).tags[i] = n
           /\ \A j \in AttIds \ {i} : Tagged(i, n).tags[j] = turn.tags[j]
<1> DEFINE tags == [turn.tags EXCEPT ![i] = n]
<1>1. tags \in [AttIds -> Names \cup {NoName}] /\ tags[i] = n /\ \A j \in AttIds \ {i} : tags[j] = turn.tags[j]
  BY DEF TurnRecord
<1>2. Tagged(i, n) = [turn EXCEPT !.cur = NoName, !.step = "none", !.tags = tags]
  BY DEF Tagged
<1> HIDE DEF tags
<1> DEFINE r == [turn EXCEPT !.cur = NoName, !.step = "none", !.tags = tags]
<1>3. r \in TurnRecord /\ r.pc = turn.pc /\ r.step = "none" /\ r.got = turn.got /\ r.tags = tags
  BY <1>1 DEF TurnRecord
<1> QED
  BY <1>1, <1>2, <1>3

\* The attachment's file, held on the disk, becomes its projection.
LEMMA ProjectKeeps ==
    ASSUME AttInv, turn.pc # "off", NEW i \in AttIds, NEW n \in Names, Project(i, n),
           disk' \in [Names -> AttIds \cup {NoName}], meta' \in [AttIds -> Names \cup {NoName}], NoAlias',
           \A m \in Names : disk[m] # NoName => disk'[m] = disk[m],
           loose' \in BOOLEAN, ~loose' => (~loose /\ disk'[n] = i /\ <<"disk", n>> \notin aged),
           \A j \in AttIds \ {i} : ~loose' => turn.tags[j] # n,
           faults' \in 0..MaxFaults, UNCHANGED <<syncing, swept, AttRest>>
    PROVE  AttInv'
<1>1. /\ AttTypeOK /\ NoAlias /\ AgedThere /\ OffIsEmpty /\ GotHeld /\ \A j \in AttIds : TagHolds(j)
      /\ turn \in TurnRecord /\ proj \in [Names -> AttIds \cup {NoName}] /\ aged \subseteq {"disk", "proj"} \X Names
  BY AttTyped DEF AttInv
<1>2. /\ turn' \in TurnRecord /\ turn'.pc # "off" /\ turn'.step = "none" /\ turn'.tags[i] = n
      /\ \A j \in AttIds \ {i} : turn'.tags[j] = turn.tags[j]
  BY <1>1, TaggedIs DEF Project
<1>3. proj' \in [Names -> AttIds \cup {NoName}] /\ proj'[n] = i /\ \A m \in Names \ {n} : proj'[m] = proj[m]
  BY <1>1 DEF Project
<1>4. aged' = aged \ {<<"proj", n>>}
  BY DEF Project
<1>5. /\ aged' \subseteq {"disk", "proj"} \X Names /\ <<"proj", n>> \notin aged'
      /\ \A m \in Names : <<"disk", m>> \in aged' => <<"disk", m>> \in aged
      /\ \A m \in Names : <<"proj", m>> \in aged' => <<"proj", m>> \in aged
  BY <1>1, <1>4
<1>6. AttTypeOK'
  BY <1>1, <1>2, <1>3, <1>5, AttTyped DEF AttTypeOK, TurnRecord, AttRest
<1>7. AgedThere'
  BY <1>1, <1>5 DEF AgedThere
<1>8. OffIsEmpty' /\ GotHeld'
  BY <1>2 DEF OffIsEmpty, GotHeld
<1>9. ASSUME NEW j \in AttIds PROVE TagHolds(j)'
  <2>1. CASE j = i
    BY <2>1, <1>2, <1>3, <1>5 DEF TagHolds
  <2>2. CASE j # i
    <3> SUFFICES ASSUME turn'.tags[j] # NoName, ~loose' PROVE TagHolds(j)'
      BY DEF TagHolds
    <3>1. turn'.tags[j] = turn.tags[j] /\ turn.tags[j] \in Names \ {n}
      BY <2>2, <1>1, <1>2 DEF TurnRecord
    <3>2. /\ disk[turn.tags[j]] = j /\ <<"disk", turn.tags[j]>> \notin aged
          /\ ~swept => (proj[turn.tags[j]] = j /\ <<"proj", turn.tags[j]>> \notin aged)
      BY <3>1, <1>1, NoNameIs DEF TagHolds
    <3>3. disk'[turn.tags[j]] = j
      BY <3>1, <3>2, NoNameIs
    <3> QED
      BY <3>1, <3>2, <3>3, <1>3, <1>5 DEF TagHolds
  <2> QED
    BY <2>1, <2>2
<1> QED
  BY <1>6, <1>7, <1>8, <1>9 DEF AttInv

LEMMA OnlyOne ==
    ASSUME AttInv, NEW i \in AttIds, NEW n \in Names, disk[n] = i, NEW j \in AttIds \ {i}, ~loose
    PROVE  turn.tags[j] # n
BY NoNameIs DEF AttInv, TagHolds

LEMMA MaterializeKeeps == ASSUME AttInv, NEW i \in AttIds, Materialize(i) PROVE AttInv'
<1>1. /\ turn \in TurnRecord /\ turn.cur = i /\ turn.step = "project" /\ OnDisk(turn.got)
      /\ Project(i, turn.got) /\ UNCHANGED <<disk, meta, syncing, swept, loose, faults, AttRest>>
  BY AttTyped DEF AttInv, Materialize, Bytes
<1>2. turn.got \in Names /\ disk[turn.got] = i /\ <<"disk", turn.got>> \notin aged
  BY <1>1 DEF AttInv, GotHeld, OnDisk, TurnRecord
<1>3. turn.pc # "off"
  BY <1>1, NoTurnIs DEF AttInv, OffIsEmpty
<1>4. \A j \in AttIds \ {i} : ~loose => turn.tags[j] # turn.got
  BY <1>2, OnlyOne
<1>5. NoAlias'
  BY <1>1 DEF AttInv, NoAlias
<1>6. /\ disk' \in [Names -> AttIds \cup {NoName}] /\ meta' \in [AttIds -> Names \cup {NoName}]
      /\ loose' \in BOOLEAN /\ faults' \in 0..MaxFaults
  BY <1>1, AttTyped DEF AttInv
<1> HIDE DEF AttInv
<1> QED
  BY <1>1, <1>2, <1>3, <1>4, <1>5, <1>6, ProjectKeeps

LEMMA RehydrateKeeps == ASSUME AttInv, NEW i \in AttIds, Rehydrate(i) PROVE AttInv'
<1>1. /\ turn \in TurnRecord /\ turn.cur = i /\ turn.step = "project"
      /\ disk \in [Names -> AttIds \cup {NoName}] /\ meta \in [AttIds -> Names \cup {NoName}]
      /\ loose \in BOOLEAN /\ faults \in 0..MaxFaults
  BY AttTyped DEF AttInv, Rehydrate
<1>2. turn.pc # "off"
  BY <1>1, NoTurnIs DEF AttInv, OffIsEmpty
<1>3. CASE /\ FreeNames # {}
           /\ disk' = [disk EXCEPT ![FreshName] = i]
           /\ meta' = [meta EXCEPT ![i] = FreshName]
           /\ Project(i, FreshName)
           /\ UNCHANGED <<loose, faults, syncing, swept, AttRest>>
  <2>1. /\ FreshName \in Names /\ disk'[FreshName] = i
        /\ disk' \in [Names -> AttIds \cup {NoName}] /\ meta' \in [AttIds -> Names \cup {NoName}]
        /\ \A n \in Names \ {FreshName} : disk'[n] = disk[n]
        /\ <<"disk", FreshName>> \notin aged
        /\ \A j \in AttIds : turn.tags[j] = FreshName => loose
        /\ NoAlias'
    BY <1>3, StoreIs
  <2>2. disk[FreshName] = NoName
    BY <1>3, FreshIs
  <2>3. \A m \in Names : disk[m] # NoName => disk'[m] = disk[m]
    BY <2>1, <2>2
  <2>4. loose' = loose /\ faults' = faults
    BY <1>3
  <2> QED
    BY <1>1, <1>2, <1>3, <2>1, <2>3, <2>4, ProjectKeeps
<1>4. CASE /\ faults < MaxFaults /\ faults' = faults + 1
           /\ Project(i, IF turn.got = NoName THEN 1 ELSE turn.got)
           /\ loose' = TRUE /\ UNCHANGED <<disk, meta, syncing, swept, AttRest>>
  <2> DEFINE n == IF turn.got = NoName THEN 1 ELSE turn.got
  <2>1. n \in Names
    BY <1>1, NamesAre DEF TurnRecord
  <2>2. faults' \in 0..MaxFaults
    BY <1>1, <1>4, AttachmentConstants
  <2>3. NoAlias'
    BY <1>4 DEF AttInv, NoAlias
  <2>4. Project(i, n) /\ loose' \in BOOLEAN /\ loose' /\ disk' = disk /\ meta' = meta
    BY <1>4
  <2> HIDE DEF n
  <2> QED
    BY <1>1, <1>2, <1>4, <2>1, <2>2, <2>3, <2>4, ProjectKeeps
<1> QED
  BY <1>3, <1>4 DEF Rehydrate, Bytes

\* What the turn under way has, and the invariant's parts by name.
LEMMA AttParts ==
    ASSUME AttInv
    PROVE  /\ AttTypeOK /\ NoAlias /\ AgedThere /\ OffIsEmpty /\ GotHeld /\ \A i \in AttIds : TagHolds(i)
           /\ turn \in TurnRecord /\ aged \subseteq {"disk", "proj"} \X Names
           /\ disk \in [Names -> AttIds \cup {NoName}] /\ proj \in [Names -> AttIds \cup {NoName}]
           /\ meta \in [AttIds -> Names \cup {NoName}] /\ syncing \in AttIds \cup {NoName}
           /\ stamp \in {"none", "fresh", "stale"} /\ sweep \in {"off", "closing"}
           /\ swept \in BOOLEAN /\ loose \in BOOLEAN
           /\ turns \in 0..MaxTurns /\ faults \in 0..MaxFaults /\ deaths \in 0..MaxDeaths
           /\ turn.step # "none" => turn.pc # "off"
           /\ turn.cur # NoName => turn.pc # "off"
BY AttTyped, NoTurnIs DEF AttInv, OffIsEmpty

LEMMA SteppedIs ==
    ASSUME turn \in TurnRecord, NEW st \in {"fetch", "project"}, turn' = [turn EXCEPT !.step = st]
    PROVE  /\ turn' \in TurnRecord /\ turn'.pc = turn.pc /\ turn'.step = st /\ turn'.got = turn.got
           /\ turn'.cur = turn.cur /\ turn'.tags = turn.tags
BY DEF TurnRecord

LEMMA MovedIs ==
    ASSUME turn \in TurnRecord, NEW p \in {"prepared", "asked"}, turn' = [turn EXCEPT !.pc = p]
    PROVE  /\ turn' \in TurnRecord /\ turn'.pc = p /\ turn'.step = turn.step /\ turn'.got = turn.got
           /\ turn'.cur = turn.cur /\ turn'.tags = turn.tags
BY DEF TurnRecord

LEMMA TurnStartsKeeps == ASSUME AttInv, TurnStarts PROVE AttInv'
<1>1. PICK wanted \in (SUBSET AttIds) \ {{}} : turn' = [NoTurn EXCEPT !.pc = "ingest", !.todo = wanted]
  BY Zenon DEF TurnStarts
<1> DEFINE r == [NoTurn EXCEPT !.pc = "ingest", !.todo = wanted]
<1>2. r \in TurnRecord /\ r.pc = "ingest" /\ r.step = "none" /\ r.tags = NoTurn.tags
  BY NoTurnIs DEF TurnRecord
<1> HIDE DEF r
<1>3. turn' = r /\ \A i \in AttIds : turn'.tags[i] = NoName
  BY <1>1, <1>2, NoTurnIs DEF r
<1>4. turns' \in 0..MaxTurns
  BY AttParts, AttachmentConstants DEF TurnStarts
<1> QED
  BY <1>2, <1>3, <1>4, AttParts, StepOnly DEF TurnStarts, Bytes

LEMMA IngestKeeps == ASSUME AttInv, NEW i \in AttIds, IngestNext(i) PROVE AttInv'
<1> DEFINE todo == turn.todo \ {i}
           r == [turn EXCEPT !.todo = todo, !.cur = i, !.step = "sync", !.got = NoName]
<1>1. turn \in TurnRecord /\ todo \in SUBSET AttIds
  BY AttParts DEF TurnRecord
<1>2. turn' = r
  BY <1>1 DEF IngestNext, TurnRecord
<1> HIDE DEF todo
<1>3. r \in TurnRecord /\ r.pc = turn.pc /\ r.step = "sync" /\ r.got = NoName /\ r.tags = turn.tags
  BY <1>1 DEF TurnRecord
<1> HIDE DEF r
<1>4. turn.pc # "off"
  BY DEF IngestNext
<1> QED
  BY <1>2, <1>3, <1>4, AttParts, StepOnly DEF IngestNext, Bytes, AttRest

LEMMA SyncReuseKeeps == ASSUME AttInv, NEW i \in AttIds, SyncReuse(i) PROVE AttInv'
<1>1. turn.cur = i /\ turn.step = "sync" /\ OnDisk(meta[i]) /\ meta[i] \in Names /\ disk[meta[i]] = i
  BY AttParts DEF SyncReuse, OnDisk, NoAlias
<1>2. UNCHANGED <<disk, meta, proj, syncing, swept, loose, faults, stamp, sweep, turns, deaths>>
  BY DEF SyncReuse, Bytes, AttRest
<1>3. /\ turn' \in TurnRecord /\ turn'.pc = turn.pc /\ turn'.step = "project" /\ turn'.got = meta[i]
      /\ turn'.cur = i /\ turn'.tags = turn.tags
  <2> DEFINE n == meta[i]
             r == [turn EXCEPT !.step = "project", !.got = n]
  <2>1. turn' = r /\ turn \in TurnRecord /\ n \in Names
    BY <1>1, AttParts DEF SyncReuse
  <2> HIDE DEF n
  <2>2. r \in TurnRecord /\ r.pc = turn.pc /\ r.step = "project" /\ r.got = n /\ r.cur = turn.cur /\ r.tags = turn.tags
    BY <2>1 DEF TurnRecord
  <2> HIDE DEF r
  <2> QED
    BY <1>1, <2>1, <2>2 DEF n
<1>4. aged' \subseteq aged /\ <<"disk", meta[i]>> \notin aged'
  BY DEF SyncReuse
<1>5. AttTypeOK'
  BY <1>2, <1>3, <1>4, AttParts, AttTyped DEF AttTypeOK, TurnRecord
<1>6. NoAlias' /\ AgedThere' /\ OffIsEmpty' /\ GotHeld'
  BY <1>1, <1>2, <1>3, <1>4, AttParts DEF NoAlias, AgedThere, OffIsEmpty, GotHeld
<1>7. ASSUME NEW j \in AttIds PROVE TagHolds(j)'
  BY <1>2, <1>3, <1>4, AttParts DEF TagHolds
<1> QED
  BY <1>5, <1>6, <1>7 DEF AttInv

\* Entries that go, and a sync that goes on to its download.
LEMMA EntriesGo ==
    ASSUME AttInv, meta' \in [AttIds -> Names \cup {NoName}], \A i \in AttIds : meta'[i] \in {NoName, meta[i]},
           turn' \in TurnRecord, turn'.pc = turn.pc, turn'.tags = turn.tags, turn'.got = turn.got,
           turn' = turn \/ (turn.step = "sync" /\ turn'.step = "fetch" /\ turn.pc # "off"),
           syncing' \in AttIds \cup {NoName}, faults' \in 0..MaxFaults,
           UNCHANGED <<disk, proj, aged, swept, loose, stamp, sweep, turns, deaths>>
    PROVE  AttInv'
<1>1. AttTypeOK'
  BY AttParts, AttTyped DEF AttTypeOK, TurnRecord
<1>2. NoAlias' /\ AgedThere' /\ OffIsEmpty' /\ GotHeld'
  BY AttParts DEF NoAlias, AgedThere, OffIsEmpty, GotHeld
<1>3. ASSUME NEW j \in AttIds PROVE TagHolds(j)'
  BY AttParts DEF TagHolds
<1> QED
  BY <1>1, <1>2, <1>3 DEF AttInv

LEMMA SyncFetchKeeps == ASSUME AttInv, NEW i \in AttIds, SyncFetch(i) PROVE AttInv'
<1>1. turn.step = "sync" /\ turn.pc # "off" /\ turn.got = NoName /\ turn \in TurnRecord
  BY AttParts DEF SyncFetch, GotHeld
<1>2. UNCHANGED <<disk, proj, aged, swept, loose, stamp, sweep, turns, deaths>>
  BY DEF SyncFetch, AttRest
<1>3. CASE /\ meta' = [meta EXCEPT ![i] = NoName] /\ syncing' = i
           /\ turn' = [turn EXCEPT !.step = "fetch"] /\ UNCHANGED faults
  <2>1. meta' \in [AttIds -> Names \cup {NoName}] /\ \A j \in AttIds : meta'[j] \in {NoName, meta[j]}
    BY <1>3, AttParts
  <2>2. /\ turn' \in TurnRecord /\ turn'.pc = turn.pc /\ turn'.step = "fetch" /\ turn'.got = turn.got
        /\ turn'.tags = turn.tags
    BY <1>1, <1>3, SteppedIs
  <2>3. syncing' \in AttIds \cup {NoName} /\ faults' \in 0..MaxFaults
    BY <1>3, AttParts
  <2> QED
    BY <1>1, <1>2, <2>1, <2>2, <2>3, EntriesGo
<1>4. CASE /\ faults < MaxFaults /\ faults' = faults + 1
           /\ turn' = [turn EXCEPT !.step = "project"] /\ UNCHANGED <<meta, syncing>>
  <2>1. /\ turn' \in TurnRecord /\ turn'.pc = turn.pc /\ turn'.step = "project" /\ turn'.got = NoName
        /\ turn'.tags = turn.tags
    BY <1>1, <1>4, SteppedIs
  <2>2. faults' \in 0..MaxFaults
    BY <1>4, AttParts, AttachmentConstants
  <2> QED
    BY <1>1, <1>2, <1>4, <2>1, <2>2, AttParts, StepOnly
<1> QED
  BY <1>3, <1>4 DEF SyncFetch

LEMMA SyncStoreKeeps == ASSUME AttInv, NEW i \in AttIds, SyncStore(i) PROVE AttInv'
<1>1. turn.step = "fetch" /\ turn.cur = i /\ turn.pc # "off" /\ turn.got = NoName /\ turn \in TurnRecord
  BY AttParts DEF SyncStore, GotHeld
<1>2. UNCHANGED <<proj, swept, loose, stamp, sweep, turns, deaths>> /\ syncing' = NoName
  BY DEF SyncStore, AttRest
<1>3. CASE /\ FreeNames # {}
           /\ disk' = [disk EXCEPT ![FreshName] = i]
           /\ meta' = [meta EXCEPT ![i] = FreshName]
           /\ aged' = aged \ {<<"disk", FreshName>>}
           /\ turn' = [turn EXCEPT !.step = "project", !.got = FreshName]
           /\ UNCHANGED faults
  <2>1. /\ FreshName \in Names /\ disk'[FreshName] = i
        /\ disk' \in [Names -> AttIds \cup {NoName}] /\ meta' \in [AttIds -> Names \cup {NoName}]
        /\ \A n \in Names \ {FreshName} : disk'[n] = disk[n]
        /\ <<"disk", FreshName>> \notin aged
        /\ \A j \in AttIds : turn.tags[j] = FreshName => loose
        /\ NoAlias'
    BY <1>3, StoreIs
  <2>2. aged' \subseteq aged /\ <<"disk", FreshName>> \notin aged'
    BY <1>3
  <2>3. /\ turn' \in TurnRecord /\ turn'.pc = turn.pc /\ turn'.step = "project" /\ turn'.got = FreshName
        /\ turn'.cur = i /\ turn'.tags = turn.tags
    <3> DEFINE n == FreshName
               r == [turn EXCEPT !.step = "project", !.got = n]
    <3>1. turn' = r /\ turn \in TurnRecord /\ n \in Names
      BY <1>1, <1>3, <2>1
    <3> HIDE DEF n
    <3>2. r \in TurnRecord /\ r.pc = turn.pc /\ r.step = "project" /\ r.got = n /\ r.cur = turn.cur /\ r.tags = turn.tags
      BY <3>1 DEF TurnRecord
    <3> HIDE DEF r
    <3> QED
      BY <1>1, <3>1, <3>2 DEF n
  <2> HIDE DEF FreshName
  <2>4. AttTypeOK'
    BY <1>2, <1>3, <2>1, <2>2, <2>3, AttParts, AttTyped DEF AttTypeOK, TurnRecord
  <2>5. AgedThere' /\ OffIsEmpty' /\ GotHeld'
    BY <1>1, <2>1, <2>2, <2>3, AttParts, NoNameIs DEF AgedThere, OffIsEmpty, GotHeld
  <2>6. ASSUME NEW j \in AttIds PROVE TagHolds(j)'
    <3>1. TagHolds(j) /\ turn.tags[j] \in Names \cup {NoName}
      BY AttParts DEF TurnRecord
    <3> QED
      BY <1>2, <2>1, <2>2, <2>3, <3>1 DEF TagHolds
  <2> QED
    BY <2>1, <2>4, <2>5, <2>6 DEF AttInv
<1>4. CASE /\ faults < MaxFaults /\ faults' = faults + 1
           /\ turn' = [turn EXCEPT !.step = "project"] /\ UNCHANGED <<disk, meta, aged>>
  <2>1. /\ turn' \in TurnRecord /\ turn'.pc = turn.pc /\ turn'.step = "project" /\ turn'.got = NoName
        /\ turn'.tags = turn.tags
    BY <1>1, <1>4, SteppedIs
  <2>2. faults' \in 0..MaxFaults
    BY <1>4, AttParts, AttachmentConstants
  <2> QED
    BY <1>1, <1>2, <1>4, <2>1, <2>2, AttParts, StepOnly
<1> QED
  BY <1>3, <1>4 DEF SyncStore, Bytes

LEMMA GivesUpKeeps == ASSUME AttInv, NEW i \in AttIds, SyncGivesUp(i) PROVE AttInv'
<1>1. turn.step = "fetch" /\ turn.pc # "off" /\ turn.got = NoName /\ turn \in TurnRecord
  BY AttParts DEF SyncGivesUp, GotHeld
<1>2. /\ turn' \in TurnRecord /\ turn'.pc = turn.pc /\ turn'.step = "project" /\ turn'.got = NoName
      /\ turn'.tags = turn.tags
  BY <1>1, SteppedIs DEF SyncGivesUp
<1> QED
  BY <1>1, <1>2, AttParts, StepOnly DEF SyncGivesUp, Bytes, AttRest

LEMMA ExpiredKeeps == ASSUME AttInv, NEW i \in AttIds, TagExpired(i) PROVE AttInv'
<1>1. turn.pc # "off" /\ turn \in TurnRecord
  BY AttParts DEF TagExpired
<1>2. /\ turn' \in TurnRecord /\ turn'.pc = turn.pc /\ turn'.step = "none"
      /\ \A j \in AttIds : turn'.tags[j] \in {NoName, turn.tags[j]}
  BY <1>1, TaggedIs DEF TagExpired
<1> QED
  BY <1>1, <1>2, AttParts, StepOnly DEF TagExpired, Bytes, AttRest

\* Projections that no tag needs go, or all of them, with their ages.
LEMMA ProjectionsGo ==
    ASSUME AttInv, NEW kept \in SUBSET Names,
           proj' = [n \in Names |-> IF n \in kept THEN proj[n] ELSE NoName],
           aged' \subseteq aged, swept' \in BOOLEAN,
           \/ UNCHANGED swept /\ \A i \in AttIds :
                turn.tags[i] # NoName /\ ~loose /\ ~swept => turn.tags[i] \in kept
           \/ swept' = (turn.pc # "off"),
           turn' \in TurnRecord, UNCHANGED <<disk, meta, syncing, loose, turns, faults, deaths>>,
           turn' = turn \/ (turn.pc # "off" /\ turn'.pc # "off"),
           turn'.step = turn.step /\ turn'.got = turn.got /\ turn'.cur = turn.cur /\ turn'.tags = turn.tags,
           stamp' \in {"none", "fresh", "stale"}, sweep' \in {"off", "closing"}
    PROVE  AttInv'
<1>1. proj' \in [Names -> AttIds \cup {NoName}]
  BY AttParts
<1>2. AttTypeOK'
  BY <1>1, AttParts, AttTyped DEF AttTypeOK, TurnRecord
<1>3. NoAlias' /\ AgedThere' /\ OffIsEmpty' /\ GotHeld'
  BY AttParts DEF NoAlias, AgedThere, OffIsEmpty, GotHeld
<1>4. ASSUME NEW i \in AttIds PROVE TagHolds(i)'
  <2>1. TagHolds(i) /\ turn.tags[i] \in Names \cup {NoName}
    BY AttParts DEF TurnRecord
  <2>2. turn.pc = "off" => turn.tags[i] = NoName
    BY AttParts, NoTurnIs DEF OffIsEmpty
  <2> QED
    BY <2>1, <2>2 DEF TagHolds
<1> QED
  BY <1>2, <1>3, <1>4 DEF AttInv

LEMMA PrepareKeeps == ASSUME AttInv, Prepare PROVE AttInv'
<1>1. /\ turn' \in TurnRecord /\ turn'.pc = "prepared" /\ turn'.step = turn.step /\ turn'.got = turn.got
      /\ turn'.cur = turn.cur /\ turn'.tags = turn.tags /\ turn.pc = "ingest"
  BY AttParts, MovedIs DEF Prepare
<1> DEFINE kept == LiveNames \cap Names
<1>2. proj' = [n \in Names |-> IF n \in kept THEN proj[n] ELSE NoName]
  BY Zenon DEF Prepare
<1>3. \A i \in AttIds : turn.tags[i] # NoName => turn.tags[i] \in kept
  BY AttParts DEF LiveNames, TurnRecord
<1> HIDE DEF kept
<1>4. kept \in SUBSET Names
  BY DEF kept
<1>5. aged' \subseteq aged /\ UNCHANGED <<disk, meta, syncing, sweep, swept, loose, turns, faults, deaths>> /\ stamp' = "fresh"
  BY DEF Prepare, Bytes
<1> QED
  BY <1>1, <1>2, <1>3, <1>4, <1>5, AttParts, ProjectionsGo

LEMMA AskKeeps == ASSUME AttInv, Ask PROVE AttInv'
<1>1. /\ turn' \in TurnRecord /\ turn'.pc = "asked" /\ turn'.step = turn.step /\ turn'.got = turn.got
      /\ turn'.cur = turn.cur /\ turn'.tags = turn.tags
  BY AttParts, MovedIs DEF Ask
<1>2. turn'.step \in {"sync", "fetch"} => turn'.got = NoName
  BY <1>1, AttParts DEF GotHeld
<1> QED
  BY <1>1, <1>2, AttParts, StepOnly DEF Ask, Bytes, AttRest

LEMMA TurnEndsKeeps == ASSUME AttInv, TurnEnds PROVE AttInv'
BY NoTurnIs, AttParts, StepOnly DEF TurnEnds, Bytes, AttRest

\* No turn, nothing to hold: what ages, the wipe, and a death.
LEMMA QuietKeeps ==
    ASSUME AttTypeOK', NoAlias', AgedThere', turn' = NoTurn
    PROVE  AttInv'
BY NoTurnIs DEF AttInv, OffIsEmpty, GotHeld, TagHolds

LEMMA HoursKeeps == ASSUME AttInv, HoursPass PROVE AttInv'
<1>1. turn' = NoTurn /\ UNCHANGED <<disk, meta, proj, turn, syncing, sweep, swept, loose, turns, faults, deaths>>
  BY AttParts DEF HoursPass, Bytes, OffIsEmpty
<1>2. aged' = ({"disk"} \X {n \in Names : disk[n] # NoName}) \cup ({"proj"} \X {n \in Names : proj[n] # NoName})
  BY DEF HoursPass
<1>3. aged' \subseteq {"disk", "proj"} \X Names /\ \A n \in Names : <<"disk", n>> \in aged' => disk[n] # NoName
  BY <1>2
<1>4. stamp' \in {"none", "fresh", "stale"}
  BY AttParts DEF HoursPass
<1>5. AttTypeOK'
  BY <1>1, <1>3, <1>4, AttParts, AttTyped, NoTurnIs DEF AttTypeOK, TurnRecord
<1>6. NoAlias' /\ AgedThere'
  BY <1>1, <1>3, AttParts DEF NoAlias, AgedThere
<1> QED
  BY <1>1, <1>5, <1>6, QuietKeeps

LEMMA JudgesKeeps == ASSUME AttInv, SweepJudges PROVE AttInv'
<1>1. turn'.step \in {"sync", "fetch"} => turn'.got = NoName
  BY AttParts DEF SweepJudges, GotHeld
<1>2. turn'.pc = "off" => turn' = NoTurn
  BY AttParts DEF SweepJudges, OffIsEmpty
<1> QED
  BY <1>1, <1>2, AttParts, StepOnly DEF SweepJudges, Bytes

LEMMA SweepWipesKeeps == ASSUME AttInv, SweepWipes PROVE AttInv'
<1>1. UNCHANGED <<disk, meta, turn, syncing, loose, turns, faults, deaths>> /\ sweep' = "off"
  BY DEF SweepWipes, Bytes
<1>2. CASE ClearProjection /\ (stamp' = "none" \/ UNCHANGED stamp)
  <2> DEFINE kept == {}
  <2>1. proj' = [n \in Names |-> IF n \in kept THEN proj[n] ELSE NoName] /\ kept \in SUBSET Names
    BY <1>2 DEF ClearProjection
  <2> HIDE DEF kept
  <2>2. aged' \subseteq aged /\ swept' = (turn.pc # "off") /\ swept' \in BOOLEAN
    BY <1>2 DEF ClearProjection
  <2>3. stamp' \in {"none", "fresh", "stale"}
    BY <1>2, AttParts
  <2> QED
    BY <1>1, <2>1, <2>2, <2>3, AttParts, ProjectionsGo
<1>3. CASE UNCHANGED <<proj, aged, swept, stamp>>
  <2>1. turn'.step \in {"sync", "fetch"} => turn'.got = NoName
    BY <1>1, AttParts DEF GotHeld
  <2>2. turn'.pc = "off" => turn' = NoTurn
    BY <1>1, AttParts DEF OffIsEmpty
  <2> QED
    BY <1>1, <1>3, <2>1, <2>2, AttParts, StepOnly
<1> QED
  BY <1>2, <1>3 DEF SweepWipes

LEMMA SweepProjectionKeeps == ASSUME AttInv, SweepProjection PROVE AttInv'
<1> DEFINE kept == {n \in Names : <<"proj", n>> \notin aged}
<1>1. proj' = [n \in Names |-> IF n \in kept THEN proj[n] ELSE NoName]
  BY Zenon DEF SweepProjection
<1>2. ASSUME NEW i \in AttIds, turn.tags[i] # NoName, ~loose, ~swept PROVE turn.tags[i] \in kept
  <2>1. turn.tags[i] \in Names
    BY <1>2, AttParts DEF TurnRecord
  <2>2. <<"proj", turn.tags[i]>> \notin aged
    BY <1>2, AttParts, Zenon DEF TagHolds
  <2> QED
    BY <2>1, <2>2
<1>3. kept \in SUBSET Names
  OBVIOUS
<1> HIDE DEF kept
<1>4. /\ aged' \subseteq aged
      /\ UNCHANGED <<disk, meta, turn, syncing, swept, loose, faults, stamp, sweep, turns, deaths>>
  BY DEF SweepProjection, Bytes, AttRest
<1> QED
  BY <1>1, <1>2, <1>3, <1>4, AttParts, ProjectionsGo

LEMMA SweepHistoryKeeps == ASSUME AttInv, SweepHistory PROVE AttInv'
<1> DEFINE old == {n \in Names : <<"disk", n>> \in aged /\ disk[n] # NoName}
<1>1. /\ disk' = [n \in Names |-> IF n \in old THEN NoName ELSE disk[n]]
      /\ aged' = {x \in aged : x[1] = "proj"}
      /\ UNCHANGED <<proj, turn, syncing, swept, loose, stamp, sweep, turns, deaths>>
      /\ \/ /\ meta' = [i \in AttIds |-> IF meta[i] # NoName /\ disk'[meta[i]] = NoName THEN NoName ELSE meta[i]]
            /\ UNCHANGED faults
         \/ faults < MaxFaults /\ faults' = faults + 1 /\ UNCHANGED meta
  BY Zenon DEF SweepHistory, AttRest
<1>2. old \subseteq Names /\ \A n \in old : <<"disk", n>> \in aged
  OBVIOUS
<1> HIDE DEF old
<1>3. /\ disk' \in [Names -> AttIds \cup {NoName}]
      /\ \A n \in Names : disk'[n] = IF n \in old THEN NoName ELSE disk[n]
  BY <1>1, AttParts
<1>4. meta' \in [AttIds -> Names \cup {NoName}] /\ \A i \in AttIds : meta'[i] \in {NoName, meta[i]}
  BY <1>1, AttParts
<1>5. aged' \subseteq aged /\ \A n \in Names : <<"disk", n>> \notin aged'
  BY <1>1
<1>6. faults' \in 0..MaxFaults
  BY <1>1, AttParts, AttachmentConstants
<1>7. AttTypeOK'
  BY <1>1, <1>3, <1>4, <1>5, <1>6, AttParts, AttTyped DEF AttTypeOK, TurnRecord
<1>8. NoAlias'
  <2> SUFFICES ASSUME NEW k \in AttIds, meta'[k] # NoName
               PROVE  disk'[meta'[k]] \in {k, NoName} /\ \A j \in AttIds \ {k} : meta'[j] # meta'[k]
    BY DEF NoAlias
  <2>1. meta'[k] = meta[k] /\ meta[k] \in Names /\ meta[k] # NoName
    BY <1>4, AttParts
  <2>2. disk[meta[k]] \in {k, NoName} /\ \A j \in AttIds \ {k} : meta[j] # meta[k]
    BY <2>1, AttParts DEF NoAlias
  <2> QED
    BY <1>3, <1>4, <2>1, <2>2
<1>9. AgedThere' /\ OffIsEmpty'
  BY <1>1, <1>5, AttParts DEF AgedThere, OffIsEmpty
<1>10. GotHeld'
  <2>1. turn.got \in Names \cup {NoName} /\ GotHeld
    BY AttParts DEF TurnRecord
  <2> QED
    BY <1>1, <1>2, <1>3, <1>5, <2>1 DEF GotHeld
<1>11. ASSUME NEW i \in AttIds PROVE TagHolds(i)'
  <2>1. TagHolds(i) /\ turn.tags[i] \in Names \cup {NoName}
    BY AttParts DEF TurnRecord
  <2> QED
    BY <1>1, <1>2, <1>3, <1>5, <2>1 DEF TagHolds
<1> QED
  BY <1>7, <1>8, <1>9, <1>10, <1>11 DEF AttInv

LEMMA PrivacyKeeps == ASSUME AttInv, PrivacyWipe PROVE AttInv'
<1>1. turn' = NoTurn
  BY AttParts DEF PrivacyWipe, OffIsEmpty
<1>2. AttTypeOK'
  BY <1>1, AttParts, AttTyped, NoTurnIs DEF PrivacyWipe, AttTypeOK, TurnRecord, NoTags
<1>3. NoAlias' /\ AgedThere'
  BY DEF PrivacyWipe, NoAlias, NoTags, AgedThere
<1> QED
  BY <1>1, <1>2, <1>3, QuietKeeps

LEMMA DiesKeeps == ASSUME AttInv, TurnDies PROVE AttInv'
<1>1. /\ turn' = NoTurn /\ syncing' = NoName /\ sweep' = "off" /\ swept' = FALSE /\ loose' = FALSE
      /\ UNCHANGED <<meta, proj, aged, stamp, turns, faults>>
  BY DEF TurnDies
<1>2. deaths' \in 0..MaxDeaths
  BY AttParts, AttachmentConstants DEF TurnDies
<1>3. /\ disk' \in [Names -> AttIds \cup {NoName}]
      /\ \A i \in AttIds : meta[i] # NoName => disk'[meta[i]] = disk[meta[i]]
      /\ \A n \in Names : disk[n] # NoName => disk'[n] # NoName
  <2>1. CASE UNCHANGED disk
    BY <2>1, AttParts
  <2>2. CASE syncing # NoName /\ FreeNames # {} /\ disk' = [disk EXCEPT ![FreshName] = syncing]
    <3>1. FreshName \in Names /\ disk[FreshName] = NoName /\ \A j \in AttIds : meta[j] # FreshName
      BY <2>2, FreshIs
    <3>2. syncing \in AttIds
      BY <2>2, AttParts
    <3> QED
      BY <2>2, <3>1, <3>2, AttParts
  <2> QED
    BY <2>1, <2>2 DEF TurnDies
<1>4. AttTypeOK'
  BY <1>1, <1>2, <1>3, AttParts, AttTyped, NoTurnIs DEF AttTypeOK, TurnRecord
<1>5. NoAlias' /\ AgedThere'
  BY <1>1, <1>3, AttParts DEF NoAlias, AgedThere
<1> QED
  BY <1>1, <1>4, <1>5, QuietKeeps

LEMMA UnreadableKeeps == ASSUME AttInv, MetaUnreadable PROVE AttInv'
<1>1. meta' \in [AttIds -> Names \cup {NoName}] /\ \A i \in AttIds : meta'[i] \in {NoName, meta[i]}
  BY DEF MetaUnreadable, NoTags
<1>2. faults' \in 0..MaxFaults
  BY AttParts, AttachmentConstants DEF MetaUnreadable
<1> QED
  BY <1>1, <1>2, AttParts, EntriesGo DEF MetaUnreadable, AttRest

LEMMA AttNextInv == AttInv /\ [AttNext]_attVars => AttInv'
<1> SUFFICES ASSUME AttInv, [AttNext]_attVars PROVE AttInv'
  OBVIOUS
<1>1. CASE TurnStarts \/ Prepare \/ Ask \/ TurnEnds
  BY <1>1, TurnStartsKeeps, PrepareKeeps, AskKeeps, TurnEndsKeeps
<1>2. ASSUME NEW i \in AttIds, IngestNext(i) \/ SyncReuse(i) \/ SyncFetch(i) \/ SyncStore(i) \/ SyncGivesUp(i)
      PROVE  AttInv'
  BY <1>2, IngestKeeps, SyncReuseKeeps, SyncFetchKeeps, SyncStoreKeeps, GivesUpKeeps
<1>3. ASSUME NEW i \in AttIds, Materialize(i) \/ Rehydrate(i) \/ TagExpired(i)
      PROVE  AttInv'
  BY <1>3, MaterializeKeeps, RehydrateKeeps, ExpiredKeeps
<1>4. CASE HoursPass \/ SweepJudges \/ SweepWipes \/ SweepProjection \/ SweepHistory
  BY <1>4, HoursKeeps, JudgesKeeps, SweepWipesKeeps, SweepProjectionKeeps, SweepHistoryKeeps
<1>5. CASE PrivacyWipe \/ TurnDies \/ MetaUnreadable
  BY <1>5, PrivacyKeeps, DiesKeeps, UnreadableKeeps
<1>6. CASE UNCHANGED attVars
  <2>1. turn'.step \in {"sync", "fetch"} => turn'.got = NoName
    BY <1>6, AttParts DEF GotHeld, attVars
  <2>2. turn'.pc = "off" => turn' = NoTurn
    BY <1>6, AttParts DEF OffIsEmpty, attVars
  <2> QED
    BY <1>6, <2>1, <2>2, AttParts, StepOnly DEF attVars
<1> QED
  BY <1>1, <1>2, <1>3, <1>4, <1>5, <1>6 DEF AttNext

LEMMA AttInvHolds == AttInv => NoAlias /\ TagsBacked
BY DEF AttInv, TagHolds, TagsBacked, Backed

LEMMA AttInvariant == AttInit /\ [][AttNext]_attVars => []AttInv
<1>1. AttInit => AttInv
  BY AttInitInv
<1>2. AttInv /\ [AttNext]_attVars => AttInv'
  BY AttNextInv
<1> QED
  BY <1>1, <1>2, PTL

\* No entry of the history leads to another attachment's bytes, and a live
\* tag of a request names a file that holds its own attachment, whatever
\* syncs, sweeps, wipes, faults and deaths come between.
THEOREM TagsNameTheirFiles == AttSpec => [](NoAlias /\ TagsBacked)
<1>1. AttSpec => []AttInv
  BY AttInvariant DEF AttSpec
<1>2. AttInv => NoAlias /\ TagsBacked
  BY AttInvHolds
<1> QED
  BY <1>1, <1>2, PTL

(***************************************************************************)
(* GemixVoice.  A text is shown once because it is in one place: with a    *)
(* send that has not returned, in the cache, on one file, or wiped.  The   *)
(* cache only ever loses entries or gets the one just sent, so first what  *)
(* a filter and a cut keep: entries of it, each from a place of its own.   *)
(***************************************************************************)
LEMMA SuffixDrawn ==
    ASSUME NEW E, NEW s \in Seq(E), NEW a \in 1..Len(s)
    PROVE  /\ SubSeq(s, a, Len(s)) \in Seq(E) /\ Len(SubSeq(s, a, Len(s))) = Len(s) - a + 1
           /\ DrawnFrom(SubSeq(s, a, Len(s)), s, Len(s))
<1> DEFINE q == SubSeq(s, a, Len(s))
<1>1. q \in Seq(E) /\ Len(q) = Len(s) - a + 1 /\ \A i \in 1..Len(q) : q[i] = s[a + i - 1]
  BY SubSeqProperties
<1> HIDE DEF q
<1>2. [i \in 1..Len(q) |-> a + i - 1] \in [1..Len(q) -> 1..Len(s)]
  BY <1>1
<1>3. DrawnFrom(q, s, Len(s))
  <2> DEFINE p == [i \in 1..Len(q) |-> a + i - 1]
  <2>1. \A i \in 1..Len(q) : p[i] = a + i - 1
    OBVIOUS
  <2>2. p \in [1..Len(q) -> 1..Len(s)]
    BY <1>2
  <2> HIDE DEF p
  <2>3. ASSUME NEW i \in 1..Len(q), NEW j \in 1..Len(q), p[i] = p[j] PROVE i = j
    BY <1>1, <2>1, <2>3
  <2>4. \A j \in 1..Len(q) : q[j] = s[p[j]]
    BY <1>1, <2>1
  <2> QED
    BY <2>2, <2>3, <2>4 DEF DrawnFrom
<1> QED
  BY <1>1, <1>3 DEF q

\* The entries of q are the others of s, without the one at a.
Others(q, s, a) == \A j \in 1..Len(q) : \E i \in 1..Len(s) : i # a /\ q[j] = s[i]

LEMMA RemovedDrawn ==
    ASSUME NEW E, NEW s \in Seq(E), NEW a \in 1..Len(s)
    PROVE  /\ RemoveAt(s, a) \in Seq(E) /\ Len(RemoveAt(s, a)) = Len(s) - 1
           /\ DrawnFrom(RemoveAt(s, a), s, Len(s))
           /\ Others(RemoveAt(s, a), s, a)
<1> DEFINE q == RemoveAt(s, a)
           u == SubSeq(s, 1, a - 1)
           v == SubSeq(s, a + 1, Len(s))
<1>1. /\ u \in Seq(E) /\ Len(u) = a - 1 /\ \A i \in 1..a - 1 : u[i] = s[i]
      /\ v \in Seq(E) /\ Len(v) = Len(s) - a /\ \A i \in 1..Len(s) - a : v[i] = s[a + i]
  <2>1. Len(s) \in Nat /\ a \in Int /\ Len(s) \in Int /\ \A i \in 1..Len(s) : s[i] \in E
    OBVIOUS
  <2>2. u \in Seq(E) /\ Len(u) = a - 1 /\ \A i \in 1..a - 1 : u[i] = s[i]
    BY <2>1, SubSeqProperties
  <2>3. v \in Seq(E) /\ Len(v) = Len(s) - a /\ \A i \in 1..Len(s) - a : v[i] = s[a + i]
    BY <2>1, SubSeqProperties
  <2> QED
    BY <2>2, <2>3
<1>2. q = u \o v
  BY DEF RemoveAt
<1> HIDE DEF q, u, v
<1>3. /\ q \in Seq(E) /\ Len(q) = Len(s) - 1
      /\ \A j \in 1..Len(q) : q[j] = IF j < a THEN s[j] ELSE s[j + 1]
  <2>1. q \in Seq(E) /\ Len(q) = Len(u) + Len(v)
    BY <1>1, <1>2, ConcatProperties
  <2>2. \A j \in 1..Len(u) + Len(v) : q[j] = IF j <= Len(u) THEN u[j] ELSE v[j - Len(u)]
    BY <1>1, <1>2, ConcatProperties
  <2>3. ASSUME NEW j \in 1..Len(q), j < a PROVE q[j] = s[j]
    BY <1>1, <2>1, <2>2, <2>3
  <2>4. ASSUME NEW j \in 1..Len(q), ~(j < a) PROVE q[j] = s[j + 1]
    <3>1. j - (a - 1) \in 1..Len(s) - a /\ a + (j - (a - 1)) = j + 1
      BY <1>1, <2>1, <2>4
    <3>2. q[j] = v[j - (a - 1)]
      BY <1>1, <2>1, <2>2, <2>4
    <3>3. v[j - (a - 1)] = s[a + (j - (a - 1))]
      BY <1>1, <3>1
    <3> QED
      BY <3>1, <3>2, <3>3
  <2> QED
    BY <1>1, <2>1, <2>3, <2>4
<1> DEFINE p == [j \in 1..Len(q) |-> IF j < a THEN j ELSE j + 1]
<1>4. \A j \in 1..Len(q) : p[j] = (IF j < a THEN j ELSE j + 1) /\ p[j] \in 1..Len(s) /\ p[j] # a
  BY <1>3
<1>5. p \in [1..Len(q) -> 1..Len(s)]
  BY <1>4
<1> HIDE DEF p
<1>6. ASSUME NEW i \in 1..Len(q), NEW j \in 1..Len(q), p[i] = p[j] PROVE i = j
  <2>1. /\ p[i] = IF i < a THEN i ELSE i + 1
        /\ p[j] = IF j < a THEN j ELSE j + 1
    BY <1>4
  <2>2. i \in Int /\ j \in Int /\ a \in Int
    BY <1>3
  <2>3. CASE i < a /\ j < a
    BY <1>6, <2>1, <2>3
  <2>4. CASE ~(i < a) /\ ~(j < a)
    <3>1. i + 1 = j + 1
      BY <1>6, <2>1, <2>4
    <3> QED
      BY <2>2, <3>1
  <2>5. CASE i < a /\ ~(j < a)
    <3>1. i = j + 1
      BY <1>6, <2>1, <2>5
    <3> QED
      BY <2>2, <2>5, <3>1
  <2>6. CASE ~(i < a) /\ j < a
    <3>1. j = i + 1
      BY <1>6, <2>1, <2>6
    <3> QED
      BY <2>2, <2>6, <3>1
  <2> QED
    BY <2>3, <2>4, <2>5, <2>6
<1>7. \A j \in 1..Len(q) : q[j] = s[p[j]]
  BY <1>3, <1>4
<1>8. DrawnFrom(q, s, Len(s))
  BY <1>5, <1>6, <1>7 DEF DrawnFrom
<1>9. Others(q, s, a)
  BY <1>3, <1>4, <1>7 DEF Others
<1> QED
  BY <1>3, <1>8, <1>9 DEF q

\* Every entry of q is of a message of msgs, and of its chat.
Ours(q, msgs) == \A i \in 1..Len(q) : q[i].of \in 1..Len(msgs) /\ q[i].chat = msgs[q[i].of].chat

\* What is on a file was spoken in the file's chat.
OwnTexts ==
    \A m \in Audio : transcript[m] # 0 =>
        m \in 1..Len(gemixAudio) /\ gemixAudio[transcript[m]].chat = gemixAudio[m].chat

\* A text has one place: the cache, a file, a send under way, or the wiped.
OneHome(q, sending, texts, gone) ==
    /\ \A i, j \in 1..Len(q) : q[i].of = q[j].of => i = j
    /\ \A i \in 1..Len(q) : /\ q[i].of \notin sending \cup gone
                            /\ \A m \in Audio : texts[m] # q[i].of
    /\ \A m \in Audio : texts[m] \notin sending \cup gone
    /\ \A m, n \in Audio : texts[m] = texts[n] /\ m # n => texts[m] = 0
    /\ sending \cap gone = {}

VoicesInv ==
    /\ GemixTypeOK /\ Ours(recentVoice, gemixAudio) /\ Ours(voiceFile, gemixAudio) /\ OwnTexts
    /\ lostWrites = 0 => OneHome(recentVoice, unstored, transcript, wiped)

LEMMA DrawnEntries ==
    ASSUME NEW q, NEW s, Len(s) \in Nat, DrawnFrom(q, s, Len(s)), NEW j \in 1..Len(q)
    PROVE  \E i \in 1..Len(s) : q[j] = s[i]
BY DEF DrawnFrom

LEMMA DrawnOurs ==
    ASSUME NEW q, NEW s, Len(s) \in Nat, DrawnFrom(q, s, Len(s)), NEW msgs, Ours(s, msgs)
    PROVE  Ours(q, msgs)
BY DrawnEntries DEF Ours

LEMMA DrawnOneHome ==
    ASSUME NEW q, NEW s, Len(s) \in Nat, DrawnFrom(q, s, Len(s)),
           NEW sending, NEW texts, NEW gone, OneHome(s, sending, texts, gone)
    PROVE  OneHome(q, sending, texts, gone)
<1>1. PICK p \in [1..Len(q) -> 1..Len(s)] :
          /\ \A i, j \in 1..Len(q) : p[i] = p[j] => i = j
          /\ \A j \in 1..Len(q) : q[j] = s[p[j]]
  BY DEF DrawnFrom
<1>2. \A i, j \in 1..Len(q) : q[i].of = q[j].of => i = j
  BY <1>1 DEF OneHome
<1>3. \A i \in 1..Len(q) : q[i].of \notin sending \cup gone /\ \A m \in Audio : texts[m] # q[i].of
  BY <1>1 DEF OneHome
<1> QED
  BY <1>2, <1>3 DEF OneHome

Spoken == [chat : VoiceChats, at : 0..LastMoment, voice : BOOLEAN]

LEMMA VoicesParts ==
    /\ VoicesInv =>
        /\ moment \in 0..LastMoment /\ lostWrites \in 0..MaxLostWrites /\ gemixAudio \in Seq(Spoken)
        /\ Len(gemixAudio) \in Nat /\ Len(gemixAudio) <= MaxAudio /\ unstored \subseteq 1..Len(gemixAudio)
        /\ recentVoice \in Seq(Entry) /\ Len(recentVoice) \in Nat /\ Len(recentVoice) <= MaxRecent
        /\ voiceFile \in Seq(Entry) /\ Len(voiceFile) <= MaxRecent
        /\ transcript \in [Audio -> 0..Len(gemixAudio)] /\ wiped \subseteq 1..Len(gemixAudio)
        /\ Ours(recentVoice, gemixAudio) /\ Ours(voiceFile, gemixAudio) /\ OwnTexts
        /\ lostWrites = 0 => OneHome(recentVoice, unstored, transcript, wiped)
    /\ /\ moment' \in 0..LastMoment /\ lostWrites' \in 0..MaxLostWrites /\ gemixAudio' \in Seq(Spoken)
       /\ Len(gemixAudio') <= MaxAudio /\ unstored' \subseteq 1..Len(gemixAudio')
       /\ recentVoice' \in Seq(Entry) /\ Len(recentVoice') <= MaxRecent
       /\ voiceFile' \in Seq(Entry) /\ Len(voiceFile') <= MaxRecent
       /\ transcript' \in [Audio -> 0..Len(gemixAudio')] /\ wiped' \subseteq 1..Len(gemixAudio')
       /\ Ours(recentVoice', gemixAudio') /\ Ours(voiceFile', gemixAudio') /\ OwnTexts'
       /\ lostWrites' = 0 => OneHome(recentVoice', unstored', transcript', wiped')
       => VoicesInv'
<1>1. \A n : \A s \in Seq(Spoken) : DOMAIN s = 1..Len(s) /\ Len(s) \in Nat
  OBVIOUS
<1>2. VoicesInv =>
        /\ moment \in 0..LastMoment /\ lostWrites \in 0..MaxLostWrites /\ gemixAudio \in Seq(Spoken)
        /\ Len(gemixAudio) \in Nat /\ Len(gemixAudio) <= MaxAudio /\ unstored \subseteq 1..Len(gemixAudio)
        /\ recentVoice \in Seq(Entry) /\ Len(recentVoice) \in Nat /\ Len(recentVoice) <= MaxRecent
        /\ voiceFile \in Seq(Entry) /\ Len(voiceFile) <= MaxRecent
        /\ transcript \in [Audio -> 0..Len(gemixAudio)] /\ wiped \subseteq 1..Len(gemixAudio)
        /\ Ours(recentVoice, gemixAudio) /\ Ours(voiceFile, gemixAudio) /\ OwnTexts
        /\ lostWrites = 0 => OneHome(recentVoice, unstored, transcript, wiped)
  BY DEF VoicesInv, GemixTypeOK, Spoken
<1>3. /\ moment' \in 0..LastMoment /\ lostWrites' \in 0..MaxLostWrites /\ gemixAudio' \in Seq(Spoken)
      /\ Len(gemixAudio') <= MaxAudio /\ unstored' \subseteq 1..Len(gemixAudio')
      /\ recentVoice' \in Seq(Entry) /\ Len(recentVoice') <= MaxRecent
      /\ voiceFile' \in Seq(Entry) /\ Len(voiceFile') <= MaxRecent
      /\ transcript' \in [Audio -> 0..Len(gemixAudio')] /\ wiped' \subseteq 1..Len(gemixAudio')
      => GemixTypeOK'
  BY DEF GemixTypeOK, Spoken
<1> QED
  BY <1>2, <1>3, Zenon DEF VoicesInv

LEMMA VoicesInitInv == GemixInit => VoicesInv
<1> SUFFICES ASSUME GemixInit PROVE VoicesInv
  OBVIOUS
<1>1. GemixTypeOK
  BY GemixVoiceConstants DEF GemixInit, GemixTypeOK, Audio
<1>2. Ours(recentVoice, gemixAudio) /\ Ours(voiceFile, gemixAudio) /\ OwnTexts
  BY DEF GemixInit, Ours, OwnTexts
<1>3. OneHome(recentVoice, unstored, transcript, wiped)
  BY DEF GemixInit, OneHome
<1> QED
  BY <1>1, <1>2, <1>3 DEF VoicesInv

\* The cache loses entries and nothing else: what its invariant says lasts.
LEMMA CacheShrinks ==
    ASSUME VoicesInv, NEW q, DrawnFrom(q, recentVoice, Len(recentVoice))
    PROVE  /\ Ours(q, gemixAudio)
           /\ lostWrites = 0 => OneHome(q, unstored, transcript, wiped)
<1>1. Len(recentVoice) \in Nat /\ Ours(recentVoice, gemixAudio)
  BY VoicesParts
<1>2. Ours(q, gemixAudio)
  BY <1>1, DrawnOurs
<1>3. CASE lostWrites = 0
  <2>1. OneHome(recentVoice, unstored, transcript, wiped)
    BY <1>3, VoicesParts
  <2> QED
    BY <1>1, <1>2, <2>1, DrawnOneHome
<1> QED
  BY <1>2, <1>3

LEMMA TimeKeeps == ASSUME VoicesInv, Time PROVE VoicesInv'
<1>1. moment' \in 0..LastMoment
  BY VoicesParts, GemixVoiceConstants DEF Time
<1>2. UNCHANGED <<gemixAudio, unstored, recentVoice, voiceFile, transcript, wiped, lostWrites>>
  BY DEF Time
<1>3. OwnTexts'
  BY <1>2, VoicesParts DEF OwnTexts
<1> QED
  BY <1>1, <1>2, <1>3, VoicesParts

LEMMA SendAudioKeeps ==
    ASSUME VoicesInv, NEW c \in VoiceChats, NEW isVoice \in BOOLEAN, SendAudio(c, isVoice)
    PROVE  VoicesInv'
<1> DEFINE sound == [chat |-> c, at |-> moment, voice |-> isVoice]
           last == Len(gemixAudio) + 1
<1>1. sound \in Spoken
  BY VoicesParts DEF Spoken
<1>2. /\ gemixAudio' = Append(gemixAudio, sound) /\ Len(gemixAudio) < MaxAudio
      /\ UNCHANGED <<moment, recentVoice, voiceFile, transcript, wiped, lostWrites>>
  BY DEF SendAudio
<1> HIDE DEF sound
<1>3. /\ gemixAudio' \in Seq(Spoken) /\ Len(gemixAudio') = last
      /\ \A i \in 1..Len(gemixAudio) : gemixAudio'[i] = gemixAudio[i]
  BY <1>1, <1>2, VoicesParts, AppendProperties
<1>4. unstored' = unstored \/ unstored' = unstored \cup {last}
  BY <1>3 DEF SendAudio
<1>5. last \in 1..last /\ last \notin 1..Len(gemixAudio) /\ last # 0 /\ last <= MaxAudio
      /\ 1..Len(gemixAudio) \subseteq 1..last
  BY <1>2, VoicesParts, GemixVoiceConstants
<1>6. unstored' \subseteq 1..last /\ wiped' \subseteq 1..last
  BY <1>2, <1>4, <1>5, VoicesParts
<1>7. transcript' \in [Audio -> 0..last]
  BY <1>2, <1>5, VoicesParts
<1>8. Ours(recentVoice', gemixAudio') /\ Ours(voiceFile', gemixAudio')
  <2>1. ASSUME NEW q, Ours(q, gemixAudio) PROVE Ours(q, gemixAudio')
    BY <1>3, <1>5, <2>1 DEF Ours
  <2> QED
    BY <1>2, <2>1, VoicesParts
<1>9. OwnTexts'
  <2> SUFFICES ASSUME NEW m \in Audio, transcript[m] # 0
               PROVE  m \in 1..last /\ gemixAudio'[transcript[m]].chat = gemixAudio'[m].chat
    BY <1>2, <1>3 DEF OwnTexts
  <2>1. m \in 1..Len(gemixAudio) /\ gemixAudio[transcript[m]].chat = gemixAudio[m].chat
    BY VoicesParts DEF OwnTexts
  <2>2. transcript[m] \in 1..Len(gemixAudio)
    BY VoicesParts
  <2> QED
    BY <1>3, <1>5, <2>1, <2>2
<1>10. ASSUME lostWrites' = 0 PROVE OneHome(recentVoice', unstored', transcript', wiped')
  <2>1. OneHome(recentVoice, unstored, transcript, wiped)
    BY <1>2, <1>10, VoicesParts
  <2>2. \A i \in 1..Len(recentVoice) : recentVoice[i].of # last
    BY <1>5, VoicesParts DEF Ours
  <2>3. \A m \in Audio : transcript[m] # last
    BY <1>5, VoicesParts
  <2>4. last \notin wiped
    BY <1>5, VoicesParts
  <2> HIDE DEF last
  <2>5. OneHome(recentVoice, unstored', transcript, wiped)
    BY <1>4, <2>1, <2>2, <2>3, <2>4 DEF OneHome
  <2> QED
    BY <1>2, <2>5
<1> QED
  BY <1>2, <1>3, <1>5, <1>6, <1>7, <1>8, <1>9, <1>10, VoicesParts

LEMMA StoreTextKeeps == ASSUME VoicesInv, NEW m \in Audio, StoreText(m) PROVE VoicesInv'
<1> DEFINE young == Filtered(recentVoice, {e \in Entry : NotTooOld(e)})
           newText == [chat |-> gemixAudio[m].chat, ts |-> moment, of |-> m]
           all == Append(young, newText)
<1>1. /\ m \in unstored /\ unstored' = unstored \ {m}
      /\ recentVoice' = IF Len(all) > MaxRecent THEN SubSeq(all, Len(all) - MaxRecent + 1, Len(all)) ELSE all
      /\ SavedRecent({voiceFile} \cup (IF young # recentVoice THEN {young} ELSE {}))
      /\ UNCHANGED <<moment, gemixAudio, transcript, wiped>>
  BY DEF StoreText
<1>2. young \in Seq(Entry) /\ Len(young) <= Len(recentVoice) /\ DrawnFrom(young, recentVoice, Len(recentVoice))
  BY VoicesParts, KeptDrawn
<1> HIDE DEF young
<1>3. Len(young) \in Nat /\ Len(young) <= MaxRecent
  BY <1>2, VoicesParts, GemixVoiceConstants
<1>4. newText \in Entry /\ newText.of = m /\ newText.chat = gemixAudio[m].chat /\ m \in 1..Len(gemixAudio)
  <2>1. m \in 1..Len(gemixAudio)
    BY <1>1, VoicesParts
  <2>2. gemixAudio[m] \in Spoken
    BY <2>1, VoicesParts
  <2> QED
    BY <2>1, <2>2, VoicesParts DEF Entry, Spoken
<1> HIDE DEF newText
<1>5. /\ all \in Seq(Entry) /\ Len(all) = Len(young) + 1 /\ all[Len(young) + 1] = newText
      /\ \A i \in 1..Len(young) : all[i] = young[i]
  BY <1>2, <1>4, AppendProperties
<1> HIDE DEF all
<1>6. Ours(young, gemixAudio) /\ (lostWrites = 0 => OneHome(young, unstored, transcript, wiped))
  BY <1>2, CacheShrinks
<1>7. Ours(all, gemixAudio)
  <2> SUFFICES ASSUME NEW i \in 1..Len(all)
               PROVE  all[i].of \in 1..Len(gemixAudio) /\ all[i].chat = gemixAudio[all[i].of].chat
    BY DEF Ours
  <2>1. i = Len(young) + 1 \/ i \in 1..Len(young)
    BY <1>3, <1>5
  <2> QED
    BY <1>4, <1>5, <1>6, <2>1 DEF Ours
<1>8. ASSUME lostWrites = 0 PROVE OneHome(all, unstored', transcript, wiped)
  <2>1. OneHome(young, unstored, transcript, wiped)
    BY <1>6, <1>8
  <2>2. \A i \in 1..Len(all) :
            \/ all[i] = newText /\ i = Len(young) + 1
            \/ i \in 1..Len(young) /\ all[i] = young[i]
    BY <1>3, <1>5
  <2>3. m \notin wiped /\ \A n \in Audio : transcript[n] # m
    BY <1>1, <2>1 DEF OneHome
  <2>4. \A i \in 1..Len(young) : young[i].of # m
    BY <1>1, <2>1 DEF OneHome
  <2>5. \A i, j \in 1..Len(all) : all[i].of = all[j].of => i = j
    BY <1>4, <2>1, <2>2, <2>4 DEF OneHome
  <2>6. \A i \in 1..Len(all) : all[i].of \notin unstored' \cup wiped /\ \A n \in Audio : transcript[n] # all[i].of
    BY <1>1, <1>4, <2>1, <2>2, <2>3 DEF OneHome
  <2> QED
    BY <1>1, <2>1, <2>5, <2>6 DEF OneHome
<1>9. /\ recentVoice' \in Seq(Entry) /\ Len(recentVoice') <= MaxRecent
      /\ recentVoice' = all \/ DrawnFrom(recentVoice', all, Len(all))
  <2>1. CASE Len(all) > MaxRecent
    <3>1. Len(all) - MaxRecent + 1 \in 1..Len(all)
      BY <1>3, <1>5, <2>1, GemixVoiceConstants
    <3> QED
      BY <1>1, <1>3, <1>5, <2>1, <3>1, SuffixDrawn, GemixVoiceConstants
  <2>2. CASE ~(Len(all) > MaxRecent)
    BY <1>1, <1>3, <1>5, <2>2, GemixVoiceConstants
  <2> QED
    BY <2>1, <2>2
<1>10. Ours(recentVoice', gemixAudio) /\ (lostWrites = 0 => OneHome(recentVoice', unstored', transcript, wiped))
  <2>1. Len(all) \in Nat
    BY <1>3, <1>5
  <2>2. Ours(recentVoice', gemixAudio)
    BY <1>7, <1>9, <2>1, DrawnOurs
  <2>3. ASSUME lostWrites = 0 PROVE OneHome(recentVoice', unstored', transcript, wiped)
    <3>1. OneHome(all, unstored', transcript, wiped)
      BY <1>8, <2>3
    <3> QED
      BY <1>9, <2>1, <3>1, DrawnOneHome
  <2> QED
    BY <2>2, <2>3
<1>11. /\ voiceFile' \in {recentVoice', voiceFile, young}
       /\ lostWrites' \in 0..MaxLostWrites /\ (lostWrites' = 0 => lostWrites = 0)
  <2>1. lostWrites' = lostWrites \/ (lostWrites < MaxLostWrites /\ lostWrites' = lostWrites + 1)
    BY <1>1 DEF SavedRecent
  <2>2. \/ voiceFile' = recentVoice'
        \/ voiceFile' \in {voiceFile} \cup (IF young # recentVoice THEN {young} ELSE {})
    BY <1>1 DEF SavedRecent
  <2>3. lostWrites \in Nat /\ lostWrites <= MaxLostWrites /\ MaxLostWrites \in Nat
    BY VoicesParts, GemixVoiceConstants
  <2> QED
    BY <2>1, <2>2, <2>3
<1>12. voiceFile' \in Seq(Entry) /\ Len(voiceFile') <= MaxRecent /\ Ours(voiceFile', gemixAudio)
  BY <1>2, <1>3, <1>6, <1>9, <1>10, <1>11, VoicesParts
<1>13. unstored' \subseteq 1..Len(gemixAudio)
  BY <1>1, VoicesParts
<1>14. OwnTexts'
  BY <1>1, VoicesParts DEF OwnTexts
<1> QED
  BY <1>1, <1>9, <1>10, <1>11, <1>12, <1>13, <1>14, VoicesParts

LEMMA BindVoiceKeeps == ASSUME VoicesInv, NEW m \in Audio, BindVoice(m) PROVE VoicesInv'
<1>1. PICK i \in Claims(m) :
          /\ transcript' = [transcript EXCEPT ![m] = recentVoice[i].of]
          /\ recentVoice' = RemoveAt(recentVoice, i)
          /\ SavedRecent({voiceFile})
  BY DEF BindVoice
<1>2. /\ m \in 1..Len(gemixAudio) /\ transcript[m] = 0
      /\ UNCHANGED <<moment, gemixAudio, unstored, wiped>>
  BY VoicesParts DEF BindVoice
<1>3. i \in 1..Len(recentVoice) /\ recentVoice[i].chat = gemixAudio[m].chat
  BY VoicesParts DEF Claims
<1> DEFINE text == recentVoice[i].of
<1>4. text \in 1..Len(gemixAudio) /\ gemixAudio[text].chat = gemixAudio[m].chat
  BY <1>3, VoicesParts DEF Ours
<1>5. /\ recentVoice' \in Seq(Entry) /\ Len(recentVoice') = Len(recentVoice) - 1
      /\ DrawnFrom(recentVoice', recentVoice, Len(recentVoice))
      /\ \A j \in 1..Len(recentVoice') : \E k \in 1..Len(recentVoice) : k # i /\ recentVoice'[j] = recentVoice[k]
  <2>1. recentVoice \in Seq(Entry) /\ Len(recentVoice) \in Nat
    BY VoicesParts
  <2> QED
    <3> DEFINE q == RemoveAt(recentVoice, i)
    <3>1. /\ q \in Seq(Entry) /\ Len(q) = Len(recentVoice) - 1
          /\ DrawnFrom(q, recentVoice, Len(recentVoice))
          /\ Others(q, recentVoice, i)
      BY <1>3, <2>1, RemovedDrawn, Zenon
    <3>2. recentVoice' = q
      BY <1>1
    <3> HIDE DEF q
    <3> QED
      BY <3>1, <3>2 DEF Others
<1>6. Ours(recentVoice', gemixAudio) /\ (lostWrites = 0 => OneHome(recentVoice', unstored, transcript, wiped))
  BY <1>5, CacheShrinks
<1>7. \A n \in Audio : transcript'[n] = IF n = m THEN text ELSE transcript[n]
  BY <1>1, VoicesParts
<1>8. transcript' \in [Audio -> 0..Len(gemixAudio)]
  BY <1>1, <1>4, VoicesParts
<1>9. OwnTexts'
  BY <1>2, <1>4, <1>7, VoicesParts DEF OwnTexts
<1>10. ASSUME lostWrites = 0 PROVE OneHome(recentVoice', unstored', transcript', wiped')
  <2>1. OneHome(recentVoice, unstored, transcript, wiped)
    BY <1>10, VoicesParts
  <2>2. OneHome(recentVoice', unstored, transcript, wiped)
    BY <1>6, <1>10
  <2>3. text \notin unstored \cup wiped /\ \A n \in Audio : transcript[n] # text
    BY <1>3, <2>1 DEF OneHome
  <2>4. \A j \in 1..Len(recentVoice') : recentVoice'[j].of # text
    BY <1>3, <1>5, <2>1 DEF OneHome
  <2> HIDE DEF text
  <2>5. \A j \in 1..Len(recentVoice') : \A n \in Audio : transcript'[n] # recentVoice'[j].of
    BY <1>7, <2>2, <2>4 DEF OneHome
  <2>6. \A n \in Audio : transcript'[n] \notin unstored \cup wiped
    BY <1>7, <2>2, <2>3 DEF OneHome
  <2>7. \A n, o \in Audio : transcript'[n] = transcript'[o] /\ n # o => transcript'[n] = 0
    BY <1>7, <2>2, <2>3 DEF OneHome
  <2> QED
    BY <1>2, <2>2, <2>5, <2>6, <2>7 DEF OneHome
<1>11. /\ voiceFile' \in {recentVoice', voiceFile} /\ lostWrites' \in 0..MaxLostWrites
       /\ lostWrites' = 0 => lostWrites = 0
  BY <1>1, VoicesParts, GemixVoiceConstants DEF SavedRecent
<1>12. Len(recentVoice') <= MaxRecent
  BY <1>5, VoicesParts, GemixVoiceConstants
<1>13. voiceFile' \in Seq(Entry) /\ Len(voiceFile') <= MaxRecent /\ Ours(voiceFile', gemixAudio)
  BY <1>5, <1>6, <1>11, <1>12, VoicesParts
<1> QED
  BY <1>2, <1>5, <1>6, <1>8, <1>9, <1>10, <1>11, <1>12, <1>13, VoicesParts

LEMMA WipeVoicesKeeps == ASSUME VoicesInv, NEW c \in VoiceChats, WipeVoices(c) PROVE VoicesInv'
<1>1. /\ unstored \cap OfChat(c) = {} /\ recentVoice' = Forgotten(c)
      /\ transcript' = [m \in Audio |-> IF m \in OfChat(c) THEN 0 ELSE transcript[m]]
      /\ wiped' \in {wiped, wiped \cup OfChat(c)}
      /\ UNCHANGED <<moment, gemixAudio, unstored>>
  BY DEF WipeVoices
<1>2. OfChat(c) \subseteq 1..Len(gemixAudio) /\ \A m \in OfChat(c) : gemixAudio[m].chat = c
  BY VoicesParts DEF OfChat
<1>3. \A m \in 1..Len(gemixAudio) : gemixAudio[m].chat = c => m \in OfChat(c)
  BY VoicesParts DEF OfChat
<1>4. /\ recentVoice' \in Seq(Entry) /\ Len(recentVoice') <= Len(recentVoice)
      /\ DrawnFrom(recentVoice', recentVoice, Len(recentVoice))
      /\ \A i \in 1..Len(recentVoice') : recentVoice'[i].chat # c
  BY <1>1, VoicesParts, KeptDrawn DEF Forgotten
<1>5. Len(recentVoice') \in Nat /\ Len(recentVoice') <= MaxRecent
  BY <1>4, VoicesParts, GemixVoiceConstants
<1>6. Ours(recentVoice', gemixAudio) /\ (lostWrites = 0 => OneHome(recentVoice', unstored, transcript, wiped))
  BY <1>4, CacheShrinks
<1>7. \A m \in Audio : transcript'[m] = IF m \in OfChat(c) THEN 0 ELSE transcript[m]
  BY <1>1
<1>8. transcript' \in [Audio -> 0..Len(gemixAudio)] /\ wiped' \subseteq 1..Len(gemixAudio)
  BY <1>1, <1>2, VoicesParts
<1>9. OwnTexts'
  <2> SUFFICES ASSUME NEW m \in Audio, transcript'[m] # 0
               PROVE  m \in 1..Len(gemixAudio) /\ gemixAudio[transcript'[m]].chat = gemixAudio[m].chat
    BY <1>1 DEF OwnTexts
  <2> QED
    BY <1>7, VoicesParts DEF OwnTexts
<1>10. ASSUME lostWrites = 0 PROVE OneHome(recentVoice', unstored', transcript', wiped')
  <2>1. OneHome(recentVoice', unstored, transcript, wiped)
    BY <1>6, <1>10
  <2>2. \A i \in 1..Len(recentVoice') : recentVoice'[i].of \notin OfChat(c) /\ recentVoice'[i].of # 0
    BY <1>2, <1>4, <1>6, VoicesParts DEF Ours
  <2>3. ASSUME NEW m \in Audio PROVE transcript'[m] \notin unstored \cup wiped \cup OfChat(c)
    <3>1. 0 \notin unstored \cup wiped \cup OfChat(c)
      BY <1>2, VoicesParts
    <3>2. CASE m \notin OfChat(c) /\ transcript[m] # 0
      <4>1. m \in 1..Len(gemixAudio) /\ gemixAudio[transcript[m]].chat = gemixAudio[m].chat
        BY <3>2, VoicesParts DEF OwnTexts
      <4>2. transcript[m] \notin OfChat(c)
        BY <1>2, <1>3, <3>2, <4>1
      <4> QED
        BY <1>7, <2>1, <3>2, <4>2 DEF OneHome
    <3>3. CASE m \in OfChat(c) \/ transcript[m] = 0
      BY <1>7, <3>1, <3>3
    <3> QED
      BY <3>2, <3>3
  <2>4. \A i \in 1..Len(recentVoice') : /\ recentVoice'[i].of \notin unstored \cup wiped'
                                        /\ \A m \in Audio : transcript'[m] # recentVoice'[i].of
    BY <1>1, <1>7, <2>1, <2>2 DEF OneHome
  <2>5. \A m, n \in Audio : transcript'[m] = transcript'[n] /\ m # n => transcript'[m] = 0
    BY <1>7, <2>1 DEF OneHome
  <2>6. unstored \cap wiped' = {} /\ \A m \in Audio : transcript'[m] \notin unstored \cup wiped'
    BY <1>1, <2>1, <2>3 DEF OneHome
  <2> QED
    BY <1>1, <2>1, <2>4, <2>5, <2>6 DEF OneHome
<1>11. /\ voiceFile' \in {recentVoice', voiceFile} /\ lostWrites' \in 0..MaxLostWrites
       /\ lostWrites' = 0 => lostWrites = 0
  BY VoicesParts, GemixVoiceConstants DEF WipeVoices, SavedRecent
<1>12. voiceFile' \in Seq(Entry) /\ Len(voiceFile') <= MaxRecent /\ Ours(voiceFile', gemixAudio)
  BY <1>4, <1>5, <1>6, <1>11, VoicesParts
<1> QED
  BY <1>1, <1>4, <1>5, <1>6, <1>8, <1>9, <1>10, <1>11, <1>12, VoicesParts

LEMMA RestartVoicesKeeps == ASSUME VoicesInv, RestartVoices PROVE VoicesInv'
<1>1. lostWrites' \in 0..MaxLostWrites /\ lostWrites' # 0
  BY VoicesParts, GemixVoiceConstants DEF RestartVoices
<1>2. recentVoice' = voiceFile /\ unstored' = {} /\ UNCHANGED <<moment, gemixAudio, voiceFile, transcript, wiped>>
  BY DEF RestartVoices
<1>3. OwnTexts'
  BY <1>2, VoicesParts DEF OwnTexts
<1> QED
  BY <1>1, <1>2, <1>3, VoicesParts

LEMMA VoicesNextInv == VoicesInv /\ [GemixNext]_gemixVars => VoicesInv'
<1> SUFFICES ASSUME VoicesInv, [GemixNext]_gemixVars PROVE VoicesInv'
  OBVIOUS
<1>1. CASE Time \/ RestartVoices
  BY <1>1, TimeKeeps, RestartVoicesKeeps
<1>2. ASSUME NEW c \in VoiceChats, WipeVoices(c) PROVE VoicesInv'
  BY <1>2, WipeVoicesKeeps
<1>3. ASSUME NEW c \in VoiceChats, NEW isVoice \in BOOLEAN, SendAudio(c, isVoice) PROVE VoicesInv'
  BY <1>3, SendAudioKeeps
<1>4. ASSUME NEW m \in Audio, StoreText(m) \/ BindVoice(m) PROVE VoicesInv'
  BY <1>4, StoreTextKeeps, BindVoiceKeeps
<1>5. CASE UNCHANGED gemixVars
  <2>1. OwnTexts'
    BY <1>5, VoicesParts DEF OwnTexts, gemixVars
  <2> QED
    BY <1>5, <2>1, VoicesParts DEF gemixVars
<1> QED
  BY <1>1, <1>2, <1>3, <1>4, <1>5 DEF GemixNext

LEMMA VoicesInvHolds == VoicesInv => GemixTypeOK /\ TextIsShownOnce /\ WipedStaysWiped
<1> SUFFICES ASSUME VoicesInv PROVE GemixTypeOK /\ TextIsShownOnce /\ WipedStaysWiped
  OBVIOUS
<1>1. DOMAIN recentVoice = 1..Len(recentVoice)
  BY VoicesParts
<1>2. WipedStaysWiped
  BY <1>1, VoicesParts DEF OneHome, WipedStaysWiped
<1>3. TextIsShownOnce
  BY VoicesParts DEF OneHome, OwnTexts, TextIsShownOnce
<1> QED
  BY <1>2, <1>3 DEF VoicesInv

LEMMA VoicesInvariant == GemixInit /\ [][GemixNext]_gemixVars => []VoicesInv
BY VoicesInitInv, VoicesNextInv, PTL

\* A text GemiX spoke is on one file, of the chat it was spoken in, and never
\* again after a wipe, as long as no write of the cache is lost.
THEOREM TextsStayTheirs == GemixSpec => [](TextIsShownOnce /\ WipedStaysWiped)
<1>1. GemixSpec => []VoicesInv
  BY VoicesInvariant DEF GemixSpec
<1>2. VoicesInv => TextIsShownOnce /\ WipedStaysWiped
  BY VoicesInvHolds
<1> QED
  BY <1>1, <1>2, PTL

(***************************************************************************)
(* WorkspaceTools.  A call between two of its commands owns the lock, and  *)
(* the lock cannot expire under it: the ceilings of its commands add up to *)
(* less than LockTTL.  So what it read is what is there when it writes,    *)
(* and the copy it goes back to is of that.                                *)
(***************************************************************************)
Pcs == {"idle", "wait", "staging"} \cup Commands
Rans == (0..ShellMax + TextMax) \cup (0..Batch)
ToolRecord == [pc : Pcs, kind : ToolKinds, base : Texts, ran : Rans, undone : BOOLEAN]
LockRecord == [owner : ToolCalls \cup {Wiper, NoOwner}, left : 0..LockTTL]

Idles(c) == tool[c].pc \in {"idle", "wait"}

CallFits(c) ==
    /\ tool[c].pc = "writing" => /\ lock.owner = c /\ tool[c].ran <= TextMax
                                 /\ lock.left + tool[c].ran >= LockTTL /\ content = tool[c].base
    /\ tool[c].pc = "shell" => lock.owner = c /\ tool[c].ran <= ShellMax /\ lock.left + tool[c].ran >= LockTTL
    /\ tool[c].pc \in {"rolling", "closing"} =>
          lock.owner = c /\ tool[c].ran <= TextMax /\ lock.left + tool[c].ran + TextMax >= LockTTL
    /\ tool[c].pc = "staging" =>
          /\ lock.owner = c /\ lock.left = LockTTL
          /\ tool[c].kind = "batch" => tool[c].ran \in 0..Batch /\ pending = {c} \X (1..tool[c].ran)
    /\ tool[c].pc # "idle" => ~tool[c].undone

WipeFits == wipe = "closing" => lock.owner = Wiper /\ lock.left + TextMax >= LockTTL

CopiesFit == \A b \in backup : tool[b[1]].pc \in {"rolling", "closing"} /\ b[2] = tool[b[1]].base

BatchFits(files, c) == files \cap (ToolCalls \X (1..Batch)) \in {{}, {c} \X (1..Batch)}

ToolInv ==
    /\ ToolTypeOK /\ WipeFits /\ CopiesFit
    /\ \A c \in ToolCalls : CallFits(c) /\ BatchFits(out[c], c)

LEMMA ToolNumbers ==
    /\ TextMax \in Nat /\ ShellMax \in Nat /\ LockTTL \in Nat /\ Batch \in Nat /\ Batch > 1
    /\ TextMax + TextMax + TextMax < LockTTL /\ ShellMax < LockTTL /\ LockTTL # 0
    /\ 0 \in Rans /\ 0..Batch \subseteq Rans
    /\ \A n \in Nat : n <= ShellMax \/ n <= TextMax => n \in Rans
    /\ MaxSpill \in Nat /\ MaxMishaps \in Nat
    /\ Wiper \notin ToolCalls /\ NoOwner \notin ToolCalls /\ NoOwner # Wiper
BY ToolConstants DEF Rans

LEMMA ToolParts ==
    /\ ToolInv =>
        /\ lock \in LockRecord /\ content \in Texts /\ spill \in 0..MaxSpill /\ backup \subseteq ToolCalls \X Texts
        /\ pending \subseteq ToolCalls \X (1..Batch)
        /\ out \in [ToolCalls -> SUBSET (ToolCalls \X (Single..Batch))]
        /\ tool \in [ToolCalls -> ToolRecord] /\ wipe \in {"off", "wait", "closing"} /\ mishaps \in 0..MaxMishaps
        /\ WipeFits /\ CopiesFit /\ \A c \in ToolCalls : CallFits(c) /\ BatchFits(out[c], c)
    /\ /\ lock' \in LockRecord /\ content' \in Texts /\ spill' \in 0..MaxSpill /\ backup' \subseteq ToolCalls \X Texts
       /\ pending' \subseteq ToolCalls \X (1..Batch)
       /\ out' \in [ToolCalls -> SUBSET (ToolCalls \X (Single..Batch))]
       /\ tool' \in [ToolCalls -> ToolRecord] /\ wipe' \in {"off", "wait", "closing"} /\ mishaps' \in 0..MaxMishaps
       /\ WipeFits' /\ CopiesFit' /\ (\A c \in ToolCalls : CallFits(c)' /\ BatchFits(out'[c], c))
       => ToolInv'
BY DEF ToolInv, ToolTypeOK, LockRecord, ToolRecord, Pcs, Rans

LEMMA NoToolIs ==
    /\ NoTool \in ToolRecord /\ NoTool.pc = "idle" /\ NoTool.undone = FALSE
    /\ NoLock \in LockRecord /\ NoLock.owner = NoOwner /\ NoLock.left = 0
BY ToolNumbers DEF NoTool, ToolRecord, Pcs, ToolKinds, Texts, NoLock, LockRecord

LEMMA ToolInitInv == ToolInit => ToolInv
<1> SUFFICES ASSUME ToolInit PROVE ToolInv
  OBVIOUS
<1>1. /\ lock = NoLock /\ content = {} /\ spill = 0 /\ backup = {} /\ pending = {}
      /\ out = [c \in ToolCalls |-> {}] /\ tool = [c \in ToolCalls |-> NoTool]
      /\ wipe = "off" /\ mishaps = 0
  BY DEF ToolInit
<1>2. lock \in LockRecord /\ tool \in [ToolCalls -> ToolRecord]
  BY <1>1, NoToolIs
<1>3. ToolTypeOK
  BY <1>1, <1>2, ToolNumbers DEF ToolTypeOK, LockRecord, ToolRecord, Pcs, Rans, Texts
<1>4. WipeFits /\ CopiesFit
  BY <1>1 DEF WipeFits, CopiesFit
<1>5. ASSUME NEW c \in ToolCalls PROVE CallFits(c) /\ BatchFits(out[c], c)
  <2>1. tool[c].pc = "idle"
    BY <1>1, NoToolIs
  <2> QED
    BY <1>1, <2>1 DEF CallFits, BatchFits
<1> QED
  BY <1>3, <1>4, <1>5 DEF ToolInv

\* Who owns the lock is alone, and with a lock that may be taken nobody is
\* between two commands.
LEMMA OthersIdle ==
    ASSUME ToolInv
    PROVE  /\ lock.owner = NoOwner \/ lock.left = 0 =>
                 (\A c \in ToolCalls : Idles(c)) /\ wipe # "closing"
           /\ lock.owner = Wiper => \A c \in ToolCalls : Idles(c)
           /\ \A c \in ToolCalls : lock.owner = c =>
                 (\A d \in ToolCalls \ {c} : Idles(d)) /\ wipe # "closing"
<1>1. lock.left \in Nat /\ lock \in LockRecord
  BY ToolParts DEF LockRecord
<1>2. ASSUME NEW c \in ToolCalls, ~Idles(c) PROVE lock.owner = c /\ lock.left # 0
  <2>1. tool[c] \in ToolRecord /\ CallFits(c)
    BY ToolParts
  <2>2. tool[c].pc \in {"writing", "shell", "rolling", "closing", "staging"}
    BY <1>2, <2>1 DEF Idles, ToolRecord, Pcs, Commands
  <2>3. tool[c].ran \in Nat
    BY <2>1, ToolNumbers DEF ToolRecord, Rans
  <2> QED
    BY <1>1, <2>1, <2>2, <2>3, ToolNumbers DEF CallFits
<1>3. wipe = "closing" => lock.owner = Wiper /\ lock.left # 0
  BY <1>1, ToolParts, ToolNumbers DEF WipeFits
<1> QED
  BY <1>2, <1>3, ToolNumbers

\* A step of one call: the others are idle, or it touches nothing of theirs.
LEMMA ToolMoves ==
    ASSUME ToolInv, NEW c \in ToolCalls,
           tool' \in [ToolCalls -> ToolRecord], \A d \in ToolCalls \ {c} : tool'[d] = tool[d],
           (\A d \in ToolCalls \ {c} : Idles(d)) \/ UNCHANGED <<lock, content, pending>>,
           wipe # "closing" \/ UNCHANGED lock,
           lock' \in LockRecord, content' \in Texts, UNCHANGED <<spill, wipe, mishaps>>,
           \A b \in backup' : \/ b \in backup /\ b[1] # c
                              \/ /\ b \in {c} \X Texts /\ tool'[c].pc \in {"rolling", "closing"}
                                 /\ b[2] = tool'[c].base,
           pending' \subseteq ToolCalls \X (1..Batch),
           out' \in [ToolCalls -> SUBSET (ToolCalls \X (Single..Batch))],
           \A d \in ToolCalls \ {c} : out'[d] = out[d],
           BatchFits(out'[c], c), CallFits(c)'
    PROVE  ToolInv'
<1>1. backup' \subseteq ToolCalls \X Texts
  <2> SUFFICES ASSUME NEW b \in backup' PROVE b \in ToolCalls \X Texts
    OBVIOUS
  <2> QED
    BY ToolParts
<1>2. CopiesFit'
  <2> SUFFICES ASSUME NEW b \in backup' PROVE tool'[b[1]].pc \in {"rolling", "closing"} /\ b[2] = tool'[b[1]].base
    BY DEF CopiesFit
  <2>1. CASE b \in backup /\ b[1] # c
    <3>1. b[1] \in ToolCalls \ {c}
      BY <2>1, ToolParts
    <3> QED
      BY <2>1, <3>1, ToolParts DEF CopiesFit
  <2>2. CASE b \in {c} \X Texts /\ tool'[c].pc \in {"rolling", "closing"} /\ b[2] = tool'[c].base
    BY <2>2
  <2> QED
    BY <2>1, <2>2
<1>3. WipeFits'
  BY ToolParts DEF WipeFits
<1>4. ASSUME NEW d \in ToolCalls \ {c} PROVE CallFits(d)' /\ BatchFits(out'[d], d)
  <2>1. CallFits(d) /\ BatchFits(out[d], d) /\ tool'[d] = tool[d] /\ out'[d] = out[d]
    BY ToolParts
  <2>2. CASE Idles(d)
    <3>1. tool[d].pc \notin {"writing", "shell", "rolling", "closing", "staging"}
      BY <2>2 DEF Idles
    <3> QED
      BY <2>1, <3>1 DEF CallFits
  <2>3. CASE UNCHANGED <<lock, content, pending>>
    BY <2>1, <2>3 DEF CallFits
  <2> QED
    BY <2>1, <2>2, <2>3
<1>5. ASSUME NEW d \in ToolCalls PROVE CallFits(d)' /\ BatchFits(out'[d], d)
  BY <1>4
<1>6. spill' \in 0..MaxSpill /\ wipe' \in {"off", "wait", "closing"} /\ mishaps' \in 0..MaxMishaps
  BY ToolParts
<1> QED
  BY <1>1, <1>2, <1>3, <1>5, <1>6, ToolParts

\* A call that is not undoing its own write has no copy.
LEMMA NoCopyOf ==
    ASSUME ToolInv, NEW c \in ToolCalls, tool[c].pc \notin {"rolling", "closing"}
    PROVE  \A b \in backup : b \in backup /\ b[1] # c
BY ToolParts DEF CopiesFit

LEMMA ToolCalledKeeps == ASSUME ToolInv, NEW c \in ToolCalls, ToolCalled(c) PROVE ToolInv'
<1>1. PICK k \in ToolKinds : tool' = [tool EXCEPT ![c] = [NoTool EXCEPT !.pc = "wait", !.kind = k]]
  BY DEF ToolCalled
<1>2. tool[c].pc = "idle" /\ UNCHANGED <<lock, content, spill, backup, pending, out, wipe, mishaps>>
  BY DEF ToolCalled
<1> DEFINE r == [NoTool EXCEPT !.pc = "wait", !.kind = k]
<1>3. r \in ToolRecord /\ r.pc = "wait" /\ r.undone = FALSE
  BY ToolNumbers DEF NoTool, ToolRecord, Pcs, Texts
<1>4. tool' = [tool EXCEPT ![c] = r]
  BY <1>1
<1> HIDE DEF r
<1>5. tool' \in [ToolCalls -> ToolRecord] /\ tool'[c] = r /\ \A d \in ToolCalls \ {c} : tool'[d] = tool[d]
  BY <1>3, <1>4, ToolParts
<1>6. CallFits(c)' /\ BatchFits(out'[c], c)
  BY <1>2, <1>3, <1>5, ToolParts DEF CallFits
<1> QED
  BY <1>2, <1>5, <1>6, ToolParts, NoCopyOf, ToolMoves

\* A call that becomes idle, with the lock gone and its copy dropped.
LEMMA CallEnds ==
    ASSUME ToolInv, NEW c \in ToolCalls, NEW undone \in BOOLEAN,
           tool' = [tool EXCEPT ![c] = [NoTool EXCEPT !.undone = undone]],
           \A d \in ToolCalls \ {c} : Idles(d), wipe # "closing",
           lock' \in {lock, NoLock}, content' \in Texts, backup' \subseteq Without(c),
           pending' \in {pending, {}}, UNCHANGED <<spill, wipe, mishaps>>,
           out' \in [ToolCalls -> SUBSET (ToolCalls \X (Single..Batch))],
           \A d \in ToolCalls \ {c} : out'[d] = out[d], BatchFits(out'[c], c)
    PROVE  ToolInv'
<1> DEFINE r == [NoTool EXCEPT !.undone = undone]
<1>1. r \in ToolRecord /\ r.pc = "idle"
  BY ToolNumbers DEF NoTool, ToolRecord, Pcs, ToolKinds, Texts
<1>2. tool' = [tool EXCEPT ![c] = r]
  OBVIOUS
<1> HIDE DEF r
<1>3. tool' \in [ToolCalls -> ToolRecord] /\ tool'[c] = r /\ \A d \in ToolCalls \ {c} : tool'[d] = tool[d]
  BY <1>1, <1>2, ToolParts
<1>4. CallFits(c)'
  BY <1>1, <1>3 DEF CallFits
<1>5. \A b \in backup' : b \in backup /\ b[1] # c
  BY DEF Without
<1>6. lock' \in LockRecord /\ pending' \subseteq ToolCalls \X (1..Batch)
  BY ToolParts, NoToolIs
<1> QED
  BY <1>3, <1>4, <1>5, <1>6, ToolMoves

LEMMA FinishIs ==
    ASSUME ToolInv, NEW c \in ToolCalls, NEW result, Finish(c, result)
    PROVE  /\ lock' \in {lock, NoLock}
           /\ tool' = [tool EXCEPT ![c] = [NoTool EXCEPT !.undone = (result = "rolled_back")]]
           /\ (result = "rolled_back") \in BOOLEAN
BY DEF Finish, Released

\* One that gives up is idle again.
LEMMA GivesUp ==
    ASSUME ToolInv, NEW c \in ToolCalls, Idles(c), tool' = [tool EXCEPT ![c] = NoTool],
           \/ UNCHANGED <<lock, pending>>
           \/ /\ lock.owner = NoOwner \/ lock.left = 0
              /\ lock' \in {lock, NoLock} /\ pending' \in {pending, {}},
           UNCHANGED <<content, spill, backup, out, wipe, mishaps>>
    PROVE  ToolInv'
<1>1. tool' \in [ToolCalls -> ToolRecord] /\ tool'[c] = NoTool /\ \A d \in ToolCalls \ {c} : tool'[d] = tool[d]
  BY NoToolIs, ToolParts
<1>2. CallFits(c)'
  BY <1>1, NoToolIs DEF CallFits
<1>3. \/ (\A d \in ToolCalls \ {c} : Idles(d)) /\ wipe # "closing"
      \/ UNCHANGED <<lock, pending>>
  BY OthersIdle
<1>4. \A b \in backup' : b \in backup /\ b[1] # c
  BY NoCopyOf DEF Idles
<1>5. lock' \in LockRecord /\ pending' \subseteq ToolCalls \X (1..Batch) /\ content' \in Texts
  BY ToolParts, NoToolIs
<1>6. out' \in [ToolCalls -> SUBSET (ToolCalls \X (Single..Batch))] /\ BatchFits(out'[c], c)
  BY ToolParts
<1> QED
  BY <1>1, <1>2, <1>3, <1>4, <1>5, <1>6, ToolMoves

LEMMA BusyKeeps == ASSUME ToolInv, NEW c \in ToolCalls, Busy(c) PROVE ToolInv'
BY GivesUp DEF Busy, Idles

LEMMA RefusedKeeps ==
    ASSUME ToolInv, NEW c \in ToolCalls, TextRefused(c) \/ StageRefused(c) PROVE ToolInv'
BY GivesUp DEF TextRefused, StageRefused, Idles

\* A call takes the lock.
LEMMA AcquiredIs ==
    ASSUME ToolInv, NEW who \in ToolCalls \cup {Wiper}, Acquire(who)
    PROVE  /\ lock' \in LockRecord /\ lock'.owner = who /\ lock'.left = LockTTL
           /\ (\A d \in ToolCalls : Idles(d)) /\ wipe # "closing"
<1>1. lock' = [owner |-> who, left |-> LockTTL] /\ (lock.owner = NoOwner \/ lock.left = 0)
  BY DEF Acquire
<1> QED
  BY <1>1, OthersIdle, ToolNumbers DEF LockRecord

LEMMA CallStarts ==
    ASSUME ToolInv, NEW c \in ToolCalls, tool[c].pc = "wait", Acquire(c), UNCHANGED <<content, spill, backup, out, wipe, mishaps>>,
           pending' \in {pending, {}}, tool'[c] \in ToolRecord, tool'[c].pc \in {"writing", "shell", "staging"},
           tool'[c].pc = "writing" => tool'[c].base = content,
           tool'[c].pc = "staging" => pending' = {},
           tool'[c].ran = 0, tool'[c].undone = tool[c].undone,
           tool' \in [ToolCalls -> ToolRecord], \A d \in ToolCalls \ {c} : tool'[d] = tool[d]
    PROVE  ToolInv'
<1>1. /\ lock' \in LockRecord /\ lock'.owner = c /\ lock'.left = LockTTL
      /\ (\A d \in ToolCalls : Idles(d)) /\ wipe # "closing"
  BY AcquiredIs
<1>2. ~tool[c].undone
  BY ToolParts DEF CallFits
<1>3. {c} \X (1..0) = {}
  OBVIOUS
<1>4. CallFits(c)'
  BY <1>1, <1>2, <1>3, ToolNumbers DEF CallFits
<1>5. \A b \in backup' : b \in backup /\ b[1] # c
  BY NoCopyOf
<1>6. content' \in Texts /\ pending' \subseteq ToolCalls \X (1..Batch)
  BY ToolParts
<1>7. out' \in [ToolCalls -> SUBSET (ToolCalls \X (Single..Batch))] /\ BatchFits(out'[c], c)
  BY ToolParts
<1> QED
  BY <1>1, <1>4, <1>5, <1>6, <1>7, ToolMoves

LEMMA TextStartsKeeps == ASSUME ToolInv, NEW c \in ToolCalls, TextStarts(c) PROVE ToolInv'
<1>1. /\ tool[c].pc = "wait" /\ Acquire(c) /\ UNCHANGED <<content, spill, backup, pending, out, wipe, mishaps>>
      /\ tool' = [tool EXCEPT ![c].pc = "writing", ![c].ran = 0, ![c].base = content]
  BY DEF TextStarts
<1>2. tool \in [ToolCalls -> ToolRecord] /\ content \in Texts /\ 0 \in Rans
  BY ToolParts, ToolNumbers
<1>3. /\ tool' \in [ToolCalls -> ToolRecord] /\ tool'[c] \in ToolRecord
      /\ tool'[c].pc = "writing" /\ tool'[c].ran = 0 /\ tool'[c].base = content /\ tool'[c].undone = tool[c].undone
      /\ \A d \in ToolCalls \ {c} : tool'[d] = tool[d]
  BY <1>1, <1>2 DEF ToolRecord, Pcs, Commands
<1> QED
  BY <1>1, <1>3, CallStarts

LEMMA BecomeIs ==
    ASSUME ToolInv, NEW c \in ToolCalls, NEW pc \in {"shell", "staging", "rolling", "closing"}, Become(c, pc)
    PROVE  /\ tool' \in [ToolCalls -> ToolRecord] /\ tool'[c] \in ToolRecord
           /\ tool'[c].pc = pc /\ tool'[c].ran = 0 /\ tool'[c].undone = tool[c].undone
           /\ tool'[c].base = tool[c].base /\ tool'[c].kind = tool[c].kind
           /\ \A d \in ToolCalls \ {c} : tool'[d] = tool[d]
<1>1. tool \in [ToolCalls -> ToolRecord] /\ 0 \in Rans /\ pc \in Pcs
  BY ToolParts, ToolNumbers DEF Pcs, Commands
<1>2. tool' = [tool EXCEPT ![c].pc = pc, ![c].ran = 0]
  BY DEF Become
<1> QED
  BY <1>1, <1>2 DEF ToolRecord

LEMMA ShellStartsKeeps == ASSUME ToolInv, NEW c \in ToolCalls, ShellStarts(c) PROVE ToolInv'
<1>1. /\ tool[c].pc = "wait" /\ Acquire(c) /\ UNCHANGED <<content, spill, backup, pending, out, wipe, mishaps>>
      /\ Become(c, "shell")
  BY DEF ShellStarts
<1> QED
  BY <1>1, BecomeIs, CallStarts

LEMMA StageStartsKeeps == ASSUME ToolInv, NEW c \in ToolCalls, StageStarts(c) PROVE ToolInv'
<1>1. /\ tool[c].pc = "wait" /\ Acquire(c) /\ UNCHANGED <<content, spill, backup, out, wipe, mishaps>>
      /\ Become(c, "staging") /\ pending' = {}
  BY DEF StageStarts
<1> QED
  BY <1>1, BecomeIs, CallStarts

LEMMA TextIs == ASSUME ToolInv, NEW c \in ToolCalls PROVE NewText(c) \in Texts
BY ToolParts DEF NewText, ToolRecord, Texts

\* Between its commands a call owns the lock, and is the only one.
LEMMA OwnerAlone ==
    ASSUME ToolInv, NEW c \in ToolCalls, ~Idles(c)
    PROVE  lock.owner = c /\ lock.left # 0 /\ (\A d \in ToolCalls \ {c} : Idles(d)) /\ wipe # "closing"
<1>1. lock.owner = c
  BY ToolParts DEF CallFits, Idles, ToolRecord, Pcs, Commands
<1> QED
  BY <1>1, OthersIdle

LEMMA TextFailsKeeps == ASSUME ToolInv, NEW c \in ToolCalls, TextFails(c) PROVE ToolInv'
<1>1. tool[c].pc = "writing" /\ Finish(c, "failed") /\ UNCHANGED <<spill, backup, pending, out, wipe, mishaps>>
  BY DEF TextFails
<1>2. content' \in Texts
  BY ToolParts, TextIs DEF TextFails
<1>3. backup' \subseteq Without(c)
  BY <1>1, NoCopyOf DEF Without
<1>4. out' \in [ToolCalls -> SUBSET (ToolCalls \X (Single..Batch))] /\ BatchFits(out'[c], c)
  BY <1>1, ToolParts
<1>5. (\A d \in ToolCalls \ {c} : Idles(d)) /\ wipe # "closing"
  BY <1>1, OwnerAlone DEF Idles
<1> QED
  BY <1>1, <1>2, <1>3, <1>4, <1>5, FinishIs, CallEnds

LEMMA ShellEndsKeeps == ASSUME ToolInv, NEW c \in ToolCalls, ShellEnds(c) PROVE ToolInv'
<1>1. tool[c].pc = "shell" /\ UNCHANGED <<spill, backup, pending, out, wipe, mishaps>>
  BY DEF ShellEnds
<1>2. PICK result \in {"ok", "failed"} : Finish(c, result)
  BY DEF ShellEnds
<1>3. content' \in Texts
  BY ToolParts DEF ShellEnds, Texts
<1>4. backup' \subseteq Without(c)
  BY <1>1, NoCopyOf DEF Without
<1>5. out' \in [ToolCalls -> SUBSET (ToolCalls \X (Single..Batch))] /\ BatchFits(out'[c], c)
  BY <1>1, ToolParts
<1>6. (\A d \in ToolCalls \ {c} : Idles(d)) /\ wipe # "closing"
  BY <1>1, OwnerAlone DEF Idles
<1> QED
  BY <1>1, <1>2, <1>3, <1>4, <1>5, <1>6, FinishIs, CallEnds

LEMMA RollbackKeeps == ASSUME ToolInv, NEW c \in ToolCalls, Rollback(c) PROVE ToolInv'
<1>1. /\ tool[c].pc = "rolling" /\ UNCHANGED <<spill, pending, out, wipe, mishaps>>
      /\ backup' = Without(c)
  BY DEF Rollback
<1>2. PICK result \in {"rolled_back", "rollback_failed"} : Finish(c, result)
  BY DEF Rollback
<1>3. content' \in Texts
  BY ToolParts DEF Rollback
<1>4. out' \in [ToolCalls -> SUBSET (ToolCalls \X (Single..Batch))] /\ BatchFits(out'[c], c)
  BY <1>1, ToolParts
<1>5. (\A d \in ToolCalls \ {c} : Idles(d)) /\ wipe # "closing"
  BY <1>1, OwnerAlone DEF Idles
<1> QED
  BY <1>1, <1>2, <1>3, <1>4, <1>5, FinishIs, CallEnds

LEMMA FinalizeKeeps == ASSUME ToolInv, NEW c \in ToolCalls, Finalize(c) PROVE ToolInv'
<1>1. /\ tool[c].pc = "closing" /\ UNCHANGED <<content, spill, pending, out, wipe, mishaps>>
      /\ backup' = Without(c) /\ Finish(c, "ok")
  BY DEF Finalize
<1>2. out' \in [ToolCalls -> SUBSET (ToolCalls \X (Single..Batch))] /\ BatchFits(out'[c], c) /\ content' \in Texts
  BY <1>1, ToolParts
<1>3. (\A d \in ToolCalls \ {c} : Idles(d)) /\ wipe # "closing"
  BY <1>1, OwnerAlone DEF Idles
<1> QED
  BY <1>1, <1>2, <1>3, FinishIs, CallEnds

LEMMA TextWrittenKeeps == ASSUME ToolInv, NEW c \in ToolCalls, TextWritten(c) PROVE ToolInv'
<1>1. /\ tool[c].pc = "writing" /\ UNCHANGED <<lock, spill, pending, out, wipe, mishaps>>
      /\ content' = NewText(c) /\ backup' = backup \cup {<<c, content>>}
  BY DEF TextWritten
<1>2. PICK pc \in {"closing", "rolling"} : Become(c, pc)
  BY DEF TextWritten
<1>3. /\ tool' \in [ToolCalls -> ToolRecord] /\ tool'[c].pc = pc /\ tool'[c].ran = 0
      /\ tool'[c].undone = tool[c].undone /\ tool'[c].base = tool[c].base
      /\ \A d \in ToolCalls \ {c} : tool'[d] = tool[d]
  BY <1>2, BecomeIs
<1>4. /\ lock.owner = c /\ tool[c].ran \in Nat /\ tool[c].ran <= TextMax /\ lock.left + tool[c].ran >= LockTTL
      /\ content = tool[c].base /\ ~tool[c].undone /\ lock.left \in Nat
  BY <1>1, ToolParts, ToolNumbers DEF CallFits, LockRecord, ToolRecord, Rans
<1>5. CallFits(c)'
  BY <1>1, <1>3, <1>4, ToolNumbers DEF CallFits
<1>6. \A b \in backup' : \/ b \in backup /\ b[1] # c
                         \/ /\ b \in {c} \X Texts /\ tool'[c].pc \in {"rolling", "closing"}
                            /\ b[2] = tool'[c].base
  <2>1. \A b \in backup : b[1] # c
    BY <1>1, NoCopyOf
  <2>2. content \in Texts
    BY ToolParts
  <2> QED
    BY <1>1, <1>3, <1>4, <2>1, <2>2
<1>7. content' \in Texts /\ lock' \in LockRecord /\ pending' \subseteq ToolCalls \X (1..Batch)
  BY <1>1, TextIs, ToolParts
<1>8. out' \in [ToolCalls -> SUBSET (ToolCalls \X (Single..Batch))] /\ BatchFits(out'[c], c)
  BY <1>1, ToolParts
<1>9. (\A d \in ToolCalls \ {c} : Idles(d)) /\ wipe # "closing"
  BY <1>1, OwnerAlone DEF Idles
<1> QED
  BY <1>1, <1>3, <1>5, <1>6, <1>7, <1>8, <1>9, ToolMoves

LEMMA StageFileKeeps == ASSUME ToolInv, NEW c \in ToolCalls, StageFile(c) PROVE ToolInv'
<1>1. /\ tool[c].pc = "staging" /\ tool[c].kind = "batch" /\ tool[c].ran < Batch
      /\ UNCHANGED <<lock, content, spill, backup, out, wipe, mishaps>>
      /\ pending' = pending \cup {<<c, tool[c].ran + 1>>}
      /\ tool' = [tool EXCEPT ![c].ran = @ + 1]
  BY DEF StageFile
<1>2. /\ lock.owner = c /\ lock.left = LockTTL /\ tool[c].ran \in 0..Batch /\ pending = {c} \X (1..tool[c].ran)
      /\ ~tool[c].undone
  BY <1>1, ToolParts DEF CallFits
<1> DEFINE n == tool[c].ran + 1
<1>3. n \in 1..Batch /\ n \in Rans /\ 1..n = (1..tool[c].ran) \cup {n}
  BY <1>1, <1>2, ToolNumbers
<1>4. /\ tool' \in [ToolCalls -> ToolRecord] /\ tool'[c].pc = "staging" /\ tool'[c].ran = n
      /\ tool'[c].undone = tool[c].undone /\ \A d \in ToolCalls \ {c} : tool'[d] = tool[d]
  BY <1>1, <1>3, ToolParts DEF ToolRecord
<1> HIDE DEF n
<1>5. pending' = {c} \X (1..n) /\ pending' \subseteq ToolCalls \X (1..Batch)
  <2>1. pending' = pending \cup {<<c, n>>}
    BY <1>1 DEF n
  <2>2. {c} \X (1..n) = ({c} \X (1..tool[c].ran)) \cup {<<c, n>>}
    BY <1>3
  <2>3. <<c, n>> \in ToolCalls \X (1..Batch) /\ pending \subseteq ToolCalls \X (1..Batch)
    BY <1>3, ToolParts
  <2> QED
    BY <1>2, <2>1, <2>2, <2>3
<1>6. CallFits(c)'
  BY <1>1, <1>2, <1>3, <1>4, <1>5 DEF CallFits
<1>7. \A b \in backup' : b \in backup /\ b[1] # c
  BY <1>1, NoCopyOf
<1>8. content' \in Texts /\ lock' \in LockRecord
  BY <1>1, ToolParts
<1>9. out' \in [ToolCalls -> SUBSET (ToolCalls \X (Single..Batch))] /\ BatchFits(out'[c], c)
  BY <1>1, ToolParts
<1>10. (\A d \in ToolCalls \ {c} : Idles(d)) /\ wipe # "closing"
  BY <1>1, OwnerAlone DEF Idles
<1> QED
  BY <1>1, <1>4, <1>5, <1>6, <1>7, <1>8, <1>9, <1>10, ToolMoves

LEMMA PublishKeeps == ASSUME ToolInv, NEW c \in ToolCalls, Publish(c) PROVE ToolInv'
<1> DEFINE files == IF tool[c].kind = "batch" THEN pending ELSE {<<c, Single>>}
<1>1. /\ tool[c].pc = "staging" /\ Finish(c, "ok") /\ UNCHANGED <<content, spill, backup, wipe, mishaps>>
      /\ tool[c].kind = "batch" => tool[c].ran = Batch
      /\ out' = [out EXCEPT ![c] = files] /\ pending' = {}
  BY DEF Publish
<1>2. files \in SUBSET (ToolCalls \X (Single..Batch)) /\ BatchFits(files, c)
  <2>1. CASE tool[c].kind = "batch"
    <3>1. files = {c} \X (1..Batch)
      BY <1>1, <2>1, ToolParts DEF CallFits
    <3>2. files \subseteq ToolCalls \X (Single..Batch) /\ files \cap (ToolCalls \X (1..Batch)) = {c} \X (1..Batch)
      BY <3>1, ToolNumbers DEF Single
    <3> QED
      BY <3>2 DEF BatchFits
  <2>2. CASE tool[c].kind # "batch"
    <3>1. files = {<<c, 0>>} /\ 0 \in 0..Batch
      BY <2>2, ToolNumbers DEF Single
    <3>2. files \subseteq ToolCalls \X (Single..Batch) /\ files \cap (ToolCalls \X (1..Batch)) = {}
      BY <3>1 DEF Single
    <3> QED
      BY <3>2 DEF BatchFits
  <2> QED
    BY <2>1, <2>2
<1> HIDE DEF files
<1>3. /\ out' \in [ToolCalls -> SUBSET (ToolCalls \X (Single..Batch))] /\ BatchFits(out'[c], c)
      /\ \A d \in ToolCalls \ {c} : out'[d] = out[d]
  BY <1>1, <1>2, ToolParts
<1>4. backup' \subseteq Without(c)
  BY <1>1, NoCopyOf DEF Without
<1>5. (\A d \in ToolCalls \ {c} : Idles(d)) /\ wipe # "closing" /\ content' \in Texts
  BY <1>1, OwnerAlone, ToolParts DEF Idles
<1> QED
  BY <1>1, <1>3, <1>4, <1>5, FinishIs, CallEnds

\* A step of none of the calls: what fits them still does.
LEMMA CallsStay ==
    ASSUME ToolInv, UNCHANGED <<tool, out, content>>,
           backup' \in {backup, {}}, pending' = pending, spill' \in 0..MaxSpill, mishaps' \in 0..MaxMishaps,
           wipe' \in {"off", "wait", "closing"}, WipeFits',
           lock' = lock \/ (lock' \in LockRecord /\ \A c \in ToolCalls : Idles(c))
    PROVE  ToolInv'
<1>1. lock' \in LockRecord /\ backup' \subseteq ToolCalls \X Texts /\ CopiesFit'
  BY ToolParts DEF CopiesFit
<1>2. ASSUME NEW c \in ToolCalls PROVE CallFits(c)' /\ BatchFits(out'[c], c)
  <2>1. CallFits(c) /\ BatchFits(out[c], c)
    BY ToolParts
  <2>2. CASE lock' = lock
    BY <2>1, <2>2 DEF CallFits
  <2>3. CASE Idles(c)
    <3>1. tool[c].pc \notin {"writing", "shell", "rolling", "closing", "staging"}
      BY <2>3 DEF Idles
    <3> QED
      BY <2>1, <3>1 DEF CallFits
  <2> QED
    BY <2>2, <2>3
<1> QED
  BY <1>1, <1>2, ToolParts

LEMMA WipeAskedKeeps == ASSUME ToolInv, WipeAsked PROVE ToolInv'
<1>1. wipe' = "wait" /\ UNCHANGED <<lock, content, spill, backup, pending, out, tool, mishaps>>
  BY DEF WipeAsked
<1>2. WipeFits'
  BY <1>1 DEF WipeFits
<1> QED
  BY <1>1, <1>2, ToolParts, CallsStay

LEMMA WipeStartsKeeps == ASSUME ToolInv, WipeStarts PROVE ToolInv'
<1>1. UNCHANGED <<content, spill, backup, pending, out, tool, mishaps>>
  BY DEF WipeStarts
<1>2. CASE Acquire(Wiper) /\ wipe' = "closing"
  <2>1. lock' \in LockRecord /\ lock'.owner = Wiper /\ lock'.left = LockTTL /\ \A d \in ToolCalls : Idles(d)
    BY <1>2, AcquiredIs
  <2>2. WipeFits'
    BY <2>1, ToolNumbers DEF WipeFits
  <2> QED
    BY <1>1, <1>2, <2>1, <2>2, ToolParts, CallsStay
<1>3. CASE wipe' = "off" /\ UNCHANGED lock
  <2>1. WipeFits'
    BY <1>3 DEF WipeFits
  <2> QED
    BY <1>1, <1>3, <2>1, ToolParts, CallsStay
<1> QED
  BY <1>2, <1>3 DEF WipeStarts

LEMMA BackgroundKeeps == ASSUME ToolInv, Background PROVE ToolInv'
<1>1. UNCHANGED <<lock, content, backup, pending, out, tool, wipe, mishaps>>
  BY DEF Background
<1>2. spill' \in 0..MaxSpill
  BY ToolParts, ToolNumbers DEF Background
<1>3. WipeFits'
  BY <1>1, ToolParts DEF WipeFits
<1> QED
  BY <1>1, <1>2, <1>3, ToolParts, CallsStay

LEMMA ReplacedKeeps == ASSUME ToolInv, ContainerReplaced PROVE ToolInv'
<1>1. UNCHANGED <<lock, content, spill, pending, out, tool, wipe>> /\ backup' = {}
  BY DEF ContainerReplaced
<1>2. mishaps' \in 0..MaxMishaps
  BY ToolParts, ToolNumbers DEF ContainerReplaced
<1>3. WipeFits'
  BY <1>1, ToolParts DEF WipeFits
<1> QED
  BY <1>1, <1>2, <1>3, ToolParts, CallsStay

\* Nobody is between two commands: everything may go.
LEMMA AllIdleKeeps ==
    ASSUME ToolInv, tool' \in [ToolCalls -> ToolRecord],
           \A c \in ToolCalls : tool'[c].pc \in {"idle", "wait"} /\ (tool'[c].pc # "idle" => ~tool'[c].undone),
           lock' \in LockRecord, content' \in Texts, spill' \in 0..MaxSpill, mishaps' \in 0..MaxMishaps,
           backup' = {}, pending' \in {pending, {}}, wipe' = "off",
           out' \in [ToolCalls -> SUBSET (ToolCalls \X (Single..Batch))],
           \A c \in ToolCalls : BatchFits(out'[c], c)
    PROVE  ToolInv'
<1>1. WipeFits' /\ CopiesFit'
  BY DEF WipeFits, CopiesFit
<1>2. ASSUME NEW c \in ToolCalls PROVE CallFits(c)'
  <2>1. tool'[c].pc \notin {"writing", "shell", "rolling", "closing", "staging"}
    OBVIOUS
  <2> QED
    BY <2>1 DEF CallFits
<1>3. backup' \subseteq ToolCalls \X Texts /\ pending' \subseteq ToolCalls \X (1..Batch)
  BY ToolParts
<1> QED
  BY <1>1, <1>2, <1>3, ToolParts

LEMMA NothingIsWhole == {} \in SUBSET (ToolCalls \X (Single..Batch)) /\ \A c \in ToolCalls : BatchFits({}, c)
BY DEF BatchFits

LEMMA WipeEndsKeeps == ASSUME ToolInv, WipeEnds PROVE ToolInv'
<1>1. /\ wipe = "closing" /\ wipe' = "off" /\ content' = {} /\ spill' = 0 /\ pending' = {} /\ UNCHANGED <<tool, mishaps>>
      /\ lock' \in {lock, NoLock} /\ backup' \in {backup, {}} /\ out' = [c \in ToolCalls |-> {}]
  BY DEF WipeEnds, Released
<1>2. \A c \in ToolCalls : Idles(c)
  BY <1>1, OthersIdle, ToolParts DEF WipeFits
<1>3. backup = {}
  <2>1. \A b \in backup : b[1] \in ToolCalls /\ tool[b[1]].pc \in {"rolling", "closing"}
    BY ToolParts DEF CopiesFit
  <2> QED
    BY <1>2, <2>1 DEF Idles
<1>4. lock' \in LockRecord /\ content' \in Texts /\ spill' \in 0..MaxSpill
  BY <1>1, NoToolIs, ToolParts, ToolNumbers DEF Texts
<1>5. out' \in [ToolCalls -> SUBSET (ToolCalls \X (Single..Batch))] /\ \A c \in ToolCalls : BatchFits(out'[c], c)
  BY <1>1, NothingIsWhole
<1>6. ASSUME NEW c \in ToolCalls
      PROVE  tool'[c].pc \in {"idle", "wait"} /\ (tool'[c].pc # "idle" => ~tool'[c].undone)
  BY <1>1, <1>2, ToolParts DEF Idles, CallFits
<1>7. tool' \in [ToolCalls -> ToolRecord] /\ mishaps' \in 0..MaxMishaps /\ backup' = {}
  BY <1>1, <1>3, ToolParts
<1> QED
  BY <1>1, <1>4, <1>5, <1>6, <1>7, AllIdleKeeps

LEMMA ProcessDiesKeeps == ASSUME ToolInv, ProcessDies PROVE ToolInv'
<1>1. /\ tool' = [c \in ToolCalls |-> NoTool] /\ wipe' = "off" /\ backup' = {} /\ UNCHANGED <<spill, pending>>
      /\ lock' = IF lock.owner = NoOwner THEN lock ELSE [lock EXCEPT !.owner = Wiper]
      /\ out' = [c \in ToolCalls |-> IF tool[c].pc = "staging" /\ tool[c].kind = "one"
                                     THEN {<<c, Single>>} ELSE out[c]]
  BY DEF ProcessDies
<1>2. mishaps' \in 0..MaxMishaps
  BY ToolParts, ToolNumbers DEF ProcessDies
<1>3. content' \in Texts
  <2>1. \A c \in ToolCalls : NewText(c) \in Texts
    BY TextIs
  <2>2. content \in Texts /\ {} \in Texts
    BY ToolParts DEF Texts
  <2> QED
    BY <2>1, <2>2 DEF ProcessDies
<1>4. lock' \in LockRecord
  BY <1>1, ToolParts DEF LockRecord
<1>5. ASSUME NEW c \in ToolCalls
      PROVE  out'[c] \in SUBSET (ToolCalls \X (Single..Batch)) /\ BatchFits(out'[c], c)
  <2>1. {<<c, Single>>} \subseteq ToolCalls \X (Single..Batch)
    BY ToolNumbers DEF Single
  <2>2. BatchFits({<<c, Single>>}, c)
    BY DEF Single, BatchFits
  <2> QED
    BY <1>1, <2>1, <2>2, ToolParts
<1>6. out' \in [ToolCalls -> SUBSET (ToolCalls \X (Single..Batch))]
  BY <1>1, <1>5
<1>7. tool' \in [ToolCalls -> ToolRecord] /\ \A c \in ToolCalls : tool'[c].pc = "idle"
  BY <1>1, NoToolIs
<1> QED
  BY <1>1, <1>2, <1>3, <1>4, <1>5, <1>6, <1>7, ToolParts, AllIdleKeeps

LEMMA LockTickKeeps == ASSUME ToolInv, LockTick PROVE ToolInv'
<1>1. /\ lock.left > 0
      /\ \A c \in ToolCalls : tool[c].pc # "staging"
      /\ \A c \in ToolCalls : tool[c].pc \in Commands => tool[c].ran < Ceiling(c)
      /\ wipe = "closing" => lock.left > LockTTL - TextMax
      /\ lock' = [lock EXCEPT !.left = @ - 1]
      /\ tool' = [c \in ToolCalls |-> IF tool[c].pc \in Commands THEN [tool[c] EXCEPT !.ran = @ + 1] ELSE tool[c]]
      /\ UNCHANGED <<content, spill, backup, pending, out, wipe, mishaps>>
  BY DEF LockTick
<1>2. /\ lock' \in LockRecord /\ lock'.owner = lock.owner /\ lock'.left = lock.left - 1
      /\ lock.left \in Nat /\ lock.left <= LockTTL
  BY <1>1, ToolParts, ToolNumbers DEF LockRecord
<1>3. ASSUME NEW c \in ToolCalls
      PROVE  /\ tool'[c] \in ToolRecord /\ tool'[c].pc = tool[c].pc /\ tool'[c].base = tool[c].base
             /\ tool'[c].undone = tool[c].undone
             /\ tool[c].pc \in Commands =>
                   /\ tool[c].ran \in Nat /\ tool'[c].ran = tool[c].ran + 1
                   /\ tool[c].ran < Ceiling(c)
  <2>1. tool[c] \in ToolRecord
    BY ToolParts
  <2>2. CASE tool[c].pc \notin Commands
    BY <1>1, <2>1, <2>2
  <2>3. CASE tool[c].pc \in Commands
    <3>1. tool[c].ran \in Nat /\ tool[c].ran < Ceiling(c) /\ Ceiling(c) \in {ShellMax, TextMax}
      BY <1>1, <2>1, <2>3, ToolNumbers DEF ToolRecord, Rans, Ceiling
    <3>2. tool[c].ran + 1 \in Rans
      BY <3>1, ToolNumbers DEF Rans
    <3>3. tool'[c] = [tool[c] EXCEPT !.ran = @ + 1]
      BY <1>1, <2>3
    <3> QED
      BY <2>1, <3>1, <3>2, <3>3 DEF ToolRecord
  <2> QED
    BY <2>2, <2>3
<1>4. tool' \in [ToolCalls -> ToolRecord]
  <2>1. tool' = [c \in ToolCalls |-> tool'[c]]
    BY <1>1
  <2> QED
    BY <1>3, <2>1
<1>5. ASSUME NEW c \in ToolCalls PROVE CallFits(c)' /\ BatchFits(out'[c], c)
  <2>1. CallFits(c) /\ BatchFits(out[c], c) /\ tool[c].pc # "staging"
    BY <1>1, ToolParts
  <2>2. tool[c].pc \in Commands => Ceiling(c) = IF tool[c].pc = "shell" THEN ShellMax ELSE TextMax
    BY DEF Ceiling
  <2> QED
    BY <1>1, <1>2, <1>3, <2>1, <2>2, ToolNumbers DEF CallFits, Commands
<1>6. CopiesFit'
  BY <1>1, <1>3, ToolParts DEF CopiesFit
<1>7. WipeFits'
  BY <1>1, <1>2, ToolParts, ToolNumbers DEF WipeFits
<1> QED
  BY <1>1, <1>2, <1>4, <1>5, <1>6, <1>7, ToolParts

LEMMA ToolNextInv == ToolInv /\ [ToolNext]_toolVars => ToolInv'
<1> SUFFICES ASSUME ToolInv, [ToolNext]_toolVars PROVE ToolInv'
  OBVIOUS
<1>1. ASSUME NEW c \in ToolCalls,
             \/ ToolCalled(c) \/ Busy(c) \/ TextStarts(c) \/ TextRefused(c) \/ TextFails(c) \/ TextWritten(c)
             \/ Rollback(c) \/ Finalize(c)
      PROVE  ToolInv'
  BY <1>1, ToolCalledKeeps, BusyKeeps, TextStartsKeeps, RefusedKeeps, TextFailsKeeps, TextWrittenKeeps,
     RollbackKeeps, FinalizeKeeps
<1>2. ASSUME NEW c \in ToolCalls,
             \/ ShellStarts(c) \/ ShellEnds(c)
             \/ StageStarts(c) \/ StageRefused(c) \/ StageFile(c) \/ Publish(c)
      PROVE  ToolInv'
  BY <1>2, ShellStartsKeeps, ShellEndsKeeps, StageStartsKeeps, RefusedKeeps, StageFileKeeps, PublishKeeps
<1>3. CASE WipeAsked \/ WipeStarts \/ WipeEnds
  BY <1>3, WipeAskedKeeps, WipeStartsKeeps, WipeEndsKeeps
<1>4. CASE Background \/ LockTick \/ ContainerReplaced \/ ProcessDies
  BY <1>4, BackgroundKeeps, LockTickKeeps, ReplacedKeeps, ProcessDiesKeeps
<1>5. CASE UNCHANGED toolVars
  <2>1. WipeFits'
    BY <1>5, ToolParts DEF WipeFits, toolVars
  <2> QED
    BY <1>5, <2>1, ToolParts, CallsStay DEF toolVars
<1> QED
  BY <1>1, <1>2, <1>3, <1>4, <1>5 DEF ToolNext

LEMMA ToolInvHolds == ToolInv => ToolTypeOK /\ BatchIsWhole
<1> SUFFICES ASSUME ToolInv PROVE ToolTypeOK /\ BatchIsWhole
  OBVIOUS
<1> QED
  BY DEF ToolInv, BatchIsWhole, BatchFits

LEMMA ToolInvariant == ToolInit /\ [][ToolNext]_toolVars => []ToolInv
BY ToolInitInv, ToolNextInv, PTL

\* What moves a call that writes or goes back: the end of its own command.
LEMMA OwnSteps ==
    ASSUME ToolInv, ToolNext, NEW c \in ToolCalls
    PROVE  /\ tool[c].pc = "writing" /\ tool'[c].pc \in {"closing", "rolling"} => TextWritten(c)
           /\ tool[c].pc = "rolling" /\ tool'[c].undone => Rollback(c)
<1>1. tool \in [ToolCalls -> ToolRecord] /\ (tool[c].pc # "idle" => ~tool[c].undone)
  BY ToolParts DEF CallFits
<1>2. ASSUME NEW d \in ToolCalls, d # c,
             \/ ToolCalled(d) \/ Busy(d) \/ TextStarts(d) \/ TextRefused(d) \/ TextFails(d) \/ TextWritten(d)
             \/ Rollback(d) \/ Finalize(d) \/ ShellStarts(d) \/ ShellEnds(d)
             \/ StageStarts(d) \/ StageRefused(d) \/ StageFile(d) \/ Publish(d)
      PROVE  tool'[c] = tool[c]
  <2>1. CASE ToolCalled(d) \/ Busy(d) \/ TextStarts(d) \/ TextRefused(d) \/ StageRefused(d) \/ StageFile(d)
    BY <1>1, <1>2, <2>1 DEF ToolCalled, Busy, TextStarts, TextRefused, StageRefused, StageFile
  <2>2. CASE TextFails(d) \/ Rollback(d) \/ Finalize(d) \/ ShellEnds(d) \/ Publish(d)
    BY <1>1, <1>2, <2>2 DEF TextFails, Rollback, Finalize, ShellEnds, Publish, Finish
  <2>3. CASE TextWritten(d) \/ ShellStarts(d) \/ StageStarts(d)
    BY <1>1, <1>2, <2>3 DEF TextWritten, ShellStarts, StageStarts, Become
  <2> QED
    BY <1>2, <2>1, <2>2, <2>3
<1>3. CASE tool[c].pc = "writing" /\ tool'[c].pc \in {"closing", "rolling"}
  <2>1. tool'[c] # tool[c]
    BY <1>3
  <2>2. ~(ToolCalled(c) \/ Busy(c) \/ TextStarts(c) \/ TextRefused(c) \/ Rollback(c) \/ Finalize(c)
          \/ ShellStarts(c) \/ ShellEnds(c) \/ StageStarts(c) \/ StageRefused(c) \/ StageFile(c) \/ Publish(c))
    BY <1>3 DEF ToolCalled, Busy, TextStarts, TextRefused, Rollback, Finalize, ShellStarts, ShellEnds,
                StageStarts, StageRefused, StageFile, Publish
  <2>3. ~TextFails(c)
    BY <1>1, <1>3 DEF TextFails, Finish, NoTool
  <2>4. ~(WipeAsked \/ WipeStarts \/ WipeEnds \/ Background \/ ContainerReplaced \/ ProcessDies)
    BY <1>3, <2>1, NoToolIs DEF WipeAsked, WipeStarts, WipeEnds, Background, ContainerReplaced, ProcessDies
  <2>5. ~LockTick
    BY <1>1, <1>3 DEF LockTick, ToolRecord
  <2> QED
    BY <1>2, <1>3, <2>1, <2>2, <2>3, <2>4, <2>5 DEF ToolNext
<1>4. CASE tool[c].pc = "rolling" /\ tool'[c].undone
  <2>1. tool'[c] # tool[c]
    BY <1>1, <1>4
  <2>2. ~(ToolCalled(c) \/ Busy(c) \/ TextStarts(c) \/ TextRefused(c) \/ TextFails(c) \/ TextWritten(c) \/ Finalize(c)
          \/ ShellStarts(c) \/ ShellEnds(c) \/ StageStarts(c) \/ StageRefused(c) \/ StageFile(c) \/ Publish(c))
    BY <1>4 DEF ToolCalled, Busy, TextStarts, TextRefused, TextFails, TextWritten, Finalize, ShellStarts, ShellEnds,
                StageStarts, StageRefused, StageFile, Publish
  <2>3. ~(WipeAsked \/ WipeStarts \/ WipeEnds \/ Background \/ ContainerReplaced \/ ProcessDies)
    BY <1>4, <2>1, NoToolIs DEF WipeAsked, WipeStarts, WipeEnds, Background, ContainerReplaced, ProcessDies
  <2>4. ~LockTick
    BY <1>1, <1>4 DEF LockTick, ToolRecord
  <2> QED
    BY <1>2, <1>4, <2>1, <2>2, <2>3, <2>4 DEF ToolNext
<1> QED
  BY <1>3, <1>4

LEMMA EditAdds ==
    ASSUME ToolInv, ToolNext, NEW c \in ToolCalls,
           tool[c].kind = "edit", tool[c].pc = "writing", tool'[c].pc \in {"closing", "rolling"}
    PROVE  content' = content \cup {c}
<1>1. TextWritten(c)
  BY OwnSteps
<1>2. content = tool[c].base
  BY ToolParts DEF CallFits
<1> QED
  BY <1>1, <1>2 DEF TextWritten, NewText

LEMMA RollbackRestores ==
    ASSUME ToolInv, ToolNext, NEW c \in ToolCalls, tool[c].pc = "rolling", tool'[c].undone
    PROVE  content' = tool[c].base
<1>1. Rollback(c)
  BY OwnSteps
<1>2. CASE Finish(c, "rollback_failed")
  <2>1. tool'[c].undone = FALSE
    BY <1>2, ToolParts DEF Finish, NoTool
  <2> QED
    BY <2>1
<1>3. CASE \E b \in backup : b[1] = c /\ content' = b[2]
  BY <1>3, ToolParts DEF CopiesFit
<1> QED
  BY <1>1, <1>2, <1>3 DEF Rollback

LEMMA ToolSteps ==
    ToolInv /\ [ToolNext]_toolVars =>
        /\ [\A c \in ToolCalls :
              tool[c].kind = "edit" /\ tool[c].pc = "writing" /\ tool'[c].pc \in {"closing", "rolling"}
                  => content' = content \cup {c}]_toolVars
        /\ [\A c \in ToolCalls :
              tool[c].pc = "rolling" /\ tool'[c].undone => content' = tool[c].base]_toolVars
BY EditAdds, RollbackRestores

\* A batch is there in full or not at all, an edit adds to what is in the
\* file when it is written, and "rolled back" is true: whatever other calls,
\* shells, wipes, containers and deaths do between the awaits of a call.
THEOREM ToolsKeepFiles == ToolSpec => []BatchIsWhole /\ EditLosesNothing /\ RolledBackMeansUndone
<1>1. ToolSpec => []ToolInv
  BY ToolInvariant DEF ToolSpec
<1>2. ToolInv => BatchIsWhole
  BY ToolInvHolds
<1> QED
  BY <1>1, <1>2, ToolSteps, PTL DEF ToolSpec, EditLosesNothing, RolledBackMeansUndone

(***************************************************************************)
(* FileReading, read_file.  A reader keeps the copy it hashed, so what it  *)
(* stores under its key is a parse of the bytes of the key; and an entry   *)
(* is never older than its last use, but for the debounce, which is why a  *)
(* sweep by age is a sweep by use.                                         *)
(***************************************************************************)
Sounds == {"speech", "silent", "long", "banned"}
ReadRecord == [pc : {"idle", "look", "parse"}, of : Contents \cup {NoEntry}, key : Keys \cup {NoEntry}]

\* x may stand in the cache under k.
TrueOf(k, x) ==
    x # NoEntry =>
        /\ x.of = k.of /\ x.route = k.route
        /\ x.status \in {Heard(Sound[k.of]), "content_policy"} \/ x.lost
        /\ x.age <= x.unused + Debounce

ReadFits(r) ==
    read[r].pc # "idle" =>
        /\ read[r].of \in Contents
        /\ read[r].key # NoEntry => read[r].key = [of |-> read[r].of, route |-> route]

CacheInv ==
    /\ route \in Routes /\ file \in Contents
    /\ cache \in [Keys -> Entries \cup {NoEntry}] /\ read \in [Readers -> ReadRecord]
    /\ IsFiniteSet(Stored)
    /\ \A k \in Keys : TrueOf(k, cache[k])
    /\ \A r \in Readers : ReadFits(r)

LEMMA ReadingNumbers ==
    /\ TTL \in Nat /\ Debounce \in Nat /\ CacheCap \in Nat /\ NumClips \in Nat /\ PerTurn \in Nat /\ Debounce <= TTL
    /\ Workers \in Nat \ {0} /\ 0 \in 0..TTL + 1
    /\ Routes \subseteq {"none", "cloudflare", "xai", "xai>cloudflare"} /\ Sound \in [Contents -> Sounds]
BY ReadingConstants DEF Sounds

\* What a chain says of a sound: a failure, or what there is to hear in it.
LEMMA TranscriptionTells ==
    ASSUME route \in Routes, NEW x \in Sounds, NEW status \in Transcription(x)
    PROVE  /\ status \in Statuses
           /\ Deterministic(status) => status \in {Heard(x), "content_policy"}
           /\ Deterministic(status) /\ x \in {"speech", "silent"} => status = Heard(x)
<1>1. route \in {"none", "cloudflare", "xai", "xai>cloudflare"}
  BY ReadingNumbers
<1>2. Heard(x) \in {"no_speech", "too_long", "ok"} /\ (x = "long" => Heard(x) = "too_long")
  BY DEF Heard, Sounds
<1>3. CASE route = "none"
  <2>1. status = "unconfigured"
    BY <1>3 DEF Transcription
  <2> QED
    BY <2>1 DEF Statuses, Deterministic
<1>4. CASE route # "none" /\ x = "long"
  <2>1. status = "too_long"
    BY <1>4 DEF Transcription
  <2> QED
    BY <1>2, <1>4, <2>1 DEF Statuses, Deterministic
<1>5. CASE route # "none" /\ x # "long"
  <2>1. \/ status \in {Heard(x), "error", "timeout"}
        \/ status = "content_policy" /\ x = "banned"
    BY <1>1, <1>5 DEF Transcription, CloudflareResults, XaiResults
  <2> QED
    BY <1>2, <2>1 DEF Statuses, Deterministic
<1> QED
  BY <1>3, <1>4, <1>5

LEMMA CacheInitInv == ReadingInit => CacheInv
<1> SUFFICES ASSUME ReadingInit PROVE CacheInv
  OBVIOUS
<1>1. /\ route \in Routes /\ file \in Contents /\ cache = [k \in Keys |-> NoEntry]
      /\ read = [r \in Readers |-> NoRead]
  BY DEF ReadingInit
<1>2. NoRead \in ReadRecord /\ NoRead.pc = "idle"
  BY DEF NoRead, ReadRecord
<1>3. cache \in [Keys -> Entries \cup {NoEntry}] /\ \A k \in Keys : cache[k] = NoEntry
  BY <1>1
<1>4. Stored = {}
  BY <1>3 DEF Stored
<1>5. IsFiniteSet(Stored)
  BY <1>4, FS_EmptySet
<1>6. \A k \in Keys : TrueOf(k, cache[k])
  BY <1>3 DEF TrueOf
<1>7. read \in [Readers -> ReadRecord] /\ \A r \in Readers : ReadFits(r)
  BY <1>1, <1>2 DEF ReadFits
<1> QED
  BY <1>1, <1>3, <1>5, <1>6, <1>7 DEF CacheInv

\* A step that stores at most one entry more, and reads as it should.
LEMMA CacheMoves ==
    ASSUME CacheInv, route' = route, file' \in Contents,
           cache' \in [Keys -> Entries \cup {NoEntry}], \A k \in Keys : TrueOf(k, cache'[k]),
           NEW o, \A k \in Keys : cache'[k] # NoEntry => cache[k] # NoEntry \/ k = o,
           read' \in [Readers -> ReadRecord], \A r \in Readers : ReadFits(r)'
    PROVE  CacheInv'
<1>1. Stored' \subseteq Stored \cup {o}
  BY DEF Stored
<1>2. IsFiniteSet(Stored)
  BY DEF CacheInv
<1>3. IsFiniteSet(Stored \cup {o})
  BY <1>2, FS_AddElement
<1>4. IsFiniteSet(Stored')
  BY <1>1, <1>3, FS_Subset
<1>5. route' \in Routes
  BY DEF CacheInv
<1> QED
  BY <1>4, <1>5 DEF CacheInv

\* Entries only go, and readers only end.
LEMMA EntriesLeave ==
    ASSUME CacheInv, route' = route, file' \in Contents,
           \A k \in Keys : cache'[k] \in {cache[k], NoEntry}, cache' \in [Keys -> Entries \cup {NoEntry}],
           read' \in [Readers -> ReadRecord],
           \A r \in Readers : read'[r].pc # "idle" =>
               read[r].pc # "idle" /\ read'[r].of = read[r].of /\ read'[r].key = read[r].key
    PROVE  CacheInv'
<1>1. \A k \in Keys : TrueOf(k, cache'[k])
  BY DEF CacheInv, TrueOf
<1>2. \A r \in Readers : ReadFits(r)'
  BY DEF CacheInv, ReadFits
<1> QED
  BY <1>1, <1>2, CacheMoves

LEMMA EndsIs ==
    ASSUME CacheInv, NEW r \in Readers, Ends(r)
    PROVE  /\ read' \in [Readers -> ReadRecord]
           /\ \A q \in Readers : read'[q].pc # "idle" =>
                 read[q].pc # "idle" /\ read'[q].of = read[q].of /\ read'[q].key = read[q].key
           /\ \A q \in Readers : ReadFits(q) => (route' = route => ReadFits(q)')
<1>1. NoRead \in ReadRecord /\ NoRead.pc = "idle"
  BY DEF NoRead, ReadRecord
<1>2. \A q \in Readers : read'[q] = IF q = r THEN NoRead ELSE read[q]
  BY DEF CacheInv, Ends
<1> QED
  BY <1>1, <1>2 DEF CacheInv, Ends, ReadFits

LEMMA ReadFileKeeps ==
    ASSUME CacheInv, NEW r \in Readers, NEW hashed \in BOOLEAN, ReadFile(r, hashed) PROVE CacheInv'
<1> DEFINE x == [pc |-> "look", of |-> file, key |-> IF hashed THEN [of |-> file, route |-> route] ELSE NoEntry]
<1>1. read' = [read EXCEPT ![r] = x] /\ UNCHANGED <<route, file, cache>>
  BY DEF ReadFile
<1>2. /\ x \in ReadRecord /\ x.of = file /\ file \in Contents
      /\ x.key # NoEntry => x.key = [of |-> file, route |-> route]
  BY DEF CacheInv, ReadRecord, Keys
<1> HIDE DEF x
<1>3. read' \in [Readers -> ReadRecord] /\ \A q \in Readers : read'[q] = IF q = r THEN x ELSE read[q]
  BY <1>1, <1>2 DEF CacheInv
<1>4. \A q \in Readers : ReadFits(q)'
  BY <1>1, <1>2, <1>3 DEF CacheInv, ReadFits
<1> QED
  BY <1>1, <1>3, <1>4, CacheMoves DEF CacheInv

LEMMA LookUpKeeps == ASSUME CacheInv, NEW r \in Readers, LookUp(r) PROVE CacheInv'
<1> DEFINE k == read[r].key
           hit == k # NoEntry /\ cache[k] # NoEntry /\ cache[k].age <= TTL
<1>1. read[r] \in ReadRecord /\ read[r].pc = "look"
  BY DEF CacheInv, LookUp
<1>2. /\ UNCHANGED <<route, file>>
      /\ \/ /\ hit /\ Ends(r)
            /\ cache' = [cache EXCEPT ![k].age = IF @ > Debounce THEN 0 ELSE @, ![k].unused = 0]
         \/ /\ read' = [read EXCEPT ![r].pc = "parse"]
            /\ cache' = cache \/ (hit /\ cache' = [cache EXCEPT ![k] = NoEntry])
  BY DEF LookUp
<1>3. k # NoEntry => k \in Keys
  BY <1>1 DEF ReadRecord
<1>4. CASE /\ hit /\ Ends(r)
           /\ cache' = [cache EXCEPT ![k].age = IF @ > Debounce THEN 0 ELSE @, ![k].unused = 0]
  <2>1. k \in Keys /\ cache[k] \in Entries /\ cache[k] # NoEntry /\ TrueOf(k, cache[k])
    BY <1>3, <1>4 DEF CacheInv
  <2> DEFINE x == cache'[k]
  <2>2. /\ cache' \in [Keys -> Entries \cup {NoEntry}] /\ \A q \in Keys \ {k} : cache'[q] = cache[q]
        /\ x.age = IF cache[k].age > Debounce THEN 0 ELSE cache[k].age
        /\ x.unused = 0 /\ x.of = cache[k].of /\ x.route = cache[k].route
        /\ x.status = cache[k].status /\ x.lost = cache[k].lost
    BY <1>4, <2>1, ReadingNumbers DEF CacheInv, Entries
  <2>3. cache[k].age \in Nat
    BY <2>1, ReadingNumbers DEF Entries
  <2>4. TrueOf(k, x)
    BY <2>1, <2>2, <2>3, ReadingNumbers DEF TrueOf
  <2>5. \A q \in Keys : TrueOf(q, cache'[q])
    BY <2>2, <2>4 DEF CacheInv
  <2>6. read' \in [Readers -> ReadRecord] /\ \A q \in Readers : ReadFits(q)'
    BY <1>2, <1>4, EndsIs DEF CacheInv
  <2> QED
    BY <1>2, <2>2, <2>5, <2>6, CacheMoves DEF CacheInv
<1>5. CASE /\ read' = [read EXCEPT ![r].pc = "parse"]
           /\ cache' = cache \/ (hit /\ cache' = [cache EXCEPT ![k] = NoEntry])
  <2>1. /\ read' \in [Readers -> ReadRecord] /\ \A q \in Readers \ {r} : read'[q] = read[q]
        /\ read'[r].of = read[r].of /\ read'[r].key = read[r].key
    BY <1>5 DEF CacheInv, ReadRecord
  <2>2. cache' \in [Keys -> Entries \cup {NoEntry}] /\ \A q \in Keys : cache'[q] \in {cache[q], NoEntry}
    BY <1>3, <1>5 DEF CacheInv
  <2>3. \A q \in Readers : read'[q].pc # "idle" =>
            read[q].pc # "idle" /\ read'[q].of = read[q].of /\ read'[q].key = read[q].key
    BY <1>1, <2>1
  <2> QED
    BY <1>2, <2>1, <2>2, <2>3, EntriesLeave DEF CacheInv
<1> QED
  BY <1>2, <1>4, <1>5

LEMMA ParseKeeps == ASSUME CacheInv, NEW r \in Readers, NEW ok \in BOOLEAN, Parse(r, ok) PROVE CacheInv'
<1>1. read[r].pc = "parse" /\ Ends(r) /\ UNCHANGED <<route, file>> /\ read[r] \in ReadRecord /\ ReadFits(r)
  BY DEF Parse, CacheInv
<1>2. PICK result \in ParseResults(Source(r)) : StoreParse(r, result, ok)
  BY DEF Parse
<1> DEFINE k == read[r].key
           x == [of |-> Source(r), route |-> route, status |-> result.status, lost |-> result.lost,
                 good |-> TRUE, age |-> 0, unused |-> 0]
<1>3. \/ UNCHANGED cache
      \/ k # NoEntry /\ Deterministic(result.status) /\ cache' = [cache EXCEPT ![k] = x]
  BY <1>2 DEF StoreParse
<1>4. read' \in [Readers -> ReadRecord] /\ \A q \in Readers : ReadFits(q)'
  BY <1>1, EndsIs DEF CacheInv
<1>5. CASE UNCHANGED cache
  BY <1>1, <1>4, <1>5, CacheMoves DEF CacheInv
<1>6. CASE k # NoEntry /\ Deterministic(result.status) /\ cache' = [cache EXCEPT ![k] = x]
  <2>1. /\ read[r].of \in Contents /\ k = [of |-> read[r].of, route |-> route] /\ k \in Keys /\ Source(r) = read[r].of
        /\ route \in Routes
    BY <1>1, <1>6 DEF ReadFits, ReadRecord, Source, CacheInv
  <2>2. Sound[read[r].of] \in Sounds
    BY <2>1, ReadingNumbers
  <2>3. /\ result.status \in Statuses /\ result.lost \in BOOLEAN
        /\ result.status \in {Heard(Sound[read[r].of]), "content_policy"} \/ result.lost
    <3>1. \/ result.status \in Transcription(Sound[read[r].of]) /\ result.lost \in BOOLEAN
          \/ result.status = "no_speech" /\ result.lost = TRUE
      <4> DEFINE heard == Transcription(Sound[read[r].of])
      <4>1. \/ result \in [status : heard, lost : {FALSE}]
            \/ result \in [status : heard, lost : BOOLEAN]
            \/ result = [status |-> "no_speech", lost |-> TRUE]
        BY <2>1 DEF ParseResults, AudioResults, VideoResults
      <4> HIDE DEF heard
      <4>2. CASE result \in [status : heard, lost : {FALSE}]
        BY <4>2 DEF heard
      <4>3. CASE result \in [status : heard, lost : BOOLEAN]
        BY <4>3 DEF heard
      <4>4. CASE result = [status |-> "no_speech", lost |-> TRUE]
        BY <4>4
      <4> QED
        BY <4>1, <4>2, <4>3, <4>4
    <3>2. CASE result.status \in Transcription(Sound[read[r].of])
      BY <1>6, <2>1, <2>2, <3>1, <3>2, TranscriptionTells DEF Statuses
    <3> QED
      BY <3>1, <3>2 DEF Statuses
  <2>4. /\ x \in Entries /\ x.of = k.of /\ x.route = k.route /\ x.status = result.status /\ x.lost = result.lost
        /\ x.age = 0 /\ x.unused = 0 /\ k.of = read[r].of
    BY <2>1, <2>3, ReadingNumbers DEF Entries
  <2> HIDE DEF x
  <2>5. TrueOf(k, x)
    BY <2>3, <2>4, ReadingNumbers DEF TrueOf
  <2>6. /\ cache' \in [Keys -> Entries \cup {NoEntry}]
        /\ \A q \in Keys : cache'[q] = IF q = k THEN x ELSE cache[q]
    BY <1>6, <2>1, <2>4 DEF CacheInv
  <2>7. \A q \in Keys : TrueOf(q, cache'[q])
    BY <2>5, <2>6 DEF CacheInv
  <2>8. \A q \in Keys : cache'[q] # NoEntry => cache[q] # NoEntry \/ q = k
    BY <2>6
  <2> QED
    BY <1>1, <1>4, <2>6, <2>7, <2>8, CacheMoves DEF CacheInv
<1> QED
  BY <1>3, <1>5, <1>6

LEMMA SweepIs ==
    ASSUME CacheInv, Sweep
    PROVE  \E kept \in SUBSET Stored :
              /\ kept = Stored' /\ Cardinality(kept) <= CacheCap
              /\ \A k \in Stored \ kept :
                    \/ PastTime(k)
                    \/ Cardinality(kept) = CacheCap /\ \A o \in kept : cache[o].age <= cache[k].age
              /\ cache' = [k \in Keys |-> IF k \in kept THEN cache[k] ELSE NoEntry]
<1>1. PICK kept \in SUBSET Stored :
          /\ Cardinality(kept) <= CacheCap
          /\ \A k \in Stored \ kept :
                \/ PastTime(k)
                \/ Cardinality(kept) = CacheCap /\ \A o \in kept : cache[o].age <= cache[k].age
          /\ cache' = [k \in Keys |-> IF k \in kept THEN cache[k] ELSE NoEntry]
  BY DEF Sweep
<1>2. kept = Stored'
  BY <1>1 DEF Stored
<1> QED
  BY <1>1, <1>2

LEMMA FileStepsKeep ==
    ASSUME CacheInv,
           \/ \E s \in Contents : Edit(s)
           \/ \E r \in Readers : ParseFails(r)
           \/ Sweep \/ ClearParserCache
    PROVE  CacheInv'
<1>1. CASE \E s \in Contents : Edit(s)
  BY <1>1, EntriesLeave DEF Edit, CacheInv
<1>2. ASSUME NEW r \in Readers, ParseFails(r) PROVE CacheInv'
  <2>1. Ends(r) /\ UNCHANGED <<route, file, cache>>
    BY <1>2 DEF ParseFails
  <2> QED
    BY <2>1, EndsIs, EntriesLeave DEF CacheInv
<1>3. CASE Sweep \/ ClearParserCache
  <2>1. UNCHANGED <<route, file, read>>
    BY <1>3 DEF Sweep, ClearParserCache
  <2>2. PICK kept : cache' = [k \in Keys |-> IF k \in kept THEN cache[k] ELSE NoEntry]
    <3>1. CASE Sweep
      BY <3>1, SweepIs
    <3>2. CASE ClearParserCache
      <4> DEFINE none == {}
      <4>1. cache' = [k \in Keys |-> IF k \in none THEN cache[k] ELSE NoEntry]
        BY <3>2 DEF ClearParserCache
      <4> HIDE DEF none
      <4> QED
        BY <4>1
    <3> QED
      BY <1>3, <3>1, <3>2
  <2>3. cache' \in [Keys -> Entries \cup {NoEntry}] /\ \A k \in Keys : cache'[k] \in {cache[k], NoEntry}
    BY <2>2 DEF CacheInv
  <2> QED
    BY <2>1, <2>3, EntriesLeave DEF CacheInv
<1> QED
  BY <1>1, <1>2, <1>3

LEMMA DamageKeeps == ASSUME CacheInv, NEW k \in Keys, Damage(k) PROVE CacheInv'
<1>1. /\ cache[k] # NoEntry /\ cache' = [cache EXCEPT ![k].good = FALSE] /\ UNCHANGED <<route, file, read>>
  BY DEF Damage
<1>2. cache[k] \in Entries /\ TrueOf(k, cache[k])
  BY <1>1 DEF CacheInv
<1> DEFINE x == cache'[k]
<1>3. /\ cache' \in [Keys -> Entries \cup {NoEntry}] /\ \A q \in Keys \ {k} : cache'[q] = cache[q]
      /\ x.of = cache[k].of /\ x.route = cache[k].route /\ x.status = cache[k].status /\ x.lost = cache[k].lost
      /\ x.age = cache[k].age /\ x.unused = cache[k].unused
  BY <1>1, <1>2 DEF CacheInv, Entries
<1>4. \A q \in Keys : TrueOf(q, cache'[q])
  <2>1. TrueOf(k, x)
    BY <1>1, <1>2, <1>3 DEF TrueOf
  <2> QED
    BY <1>3, <2>1 DEF CacheInv
<1>5. \A q \in Keys : cache'[q] # NoEntry => cache[q] # NoEntry \/ q = k
  BY <1>3
<1>6. \A r \in Readers : ReadFits(r)'
  BY <1>1 DEF CacheInv, ReadFits
<1> QED
  BY <1>1, <1>3, <1>4, <1>5, <1>6, CacheMoves DEF CacheInv

LEMMA OlderIs ==
    ASSUME NEW m \in 0..TTL + 1, NEW n \in 0..TTL + 1
    PROVE  Older(m) \in 0..TTL + 1 /\ (m <= n + Debounce => Older(m) <= Older(n) + Debounce)
BY ReadingNumbers DEF Older

LEMMA TimePassesKeeps == ASSUME CacheInv, TimePasses PROVE CacheInv'
<1>1. /\ UNCHANGED <<route, file, read>>
      /\ cache' = [k \in Keys |-> IF cache[k] = NoEntry THEN NoEntry
                                  ELSE [cache[k] EXCEPT !.age = Older(@), !.unused = Older(@)]]
  BY DEF TimePasses
<1>2. ASSUME NEW k \in Keys
      PROVE  cache'[k] \in Entries \cup {NoEntry} /\ TrueOf(k, cache'[k]) /\ (cache'[k] # NoEntry => cache[k] # NoEntry)
  <2>1. cache[k] \in Entries \cup {NoEntry} /\ TrueOf(k, cache[k])
    BY DEF CacheInv
  <2>2. CASE cache[k] = NoEntry
    BY <1>1, <2>2 DEF TrueOf
  <2>3. CASE cache[k] # NoEntry
    <3> DEFINE x == [cache[k] EXCEPT !.age = Older(@), !.unused = Older(@)]
    <3>1. cache[k] \in Entries /\ cache'[k] = x
      BY <1>1, <2>1, <2>3
    <3>2. cache[k].age \in 0..TTL + 1 /\ cache[k].unused \in 0..TTL + 1
      BY <3>1 DEF Entries
    <3>3. Older(cache[k].age) \in 0..TTL + 1 /\ Older(cache[k].unused) \in 0..TTL + 1
      BY <3>2, OlderIs
    <3>4. /\ x \in Entries /\ x.of = cache[k].of /\ x.route = cache[k].route /\ x.status = cache[k].status
          /\ x.lost = cache[k].lost /\ x.age = Older(cache[k].age) /\ x.unused = Older(cache[k].unused)
      BY <3>1, <3>3 DEF Entries
    <3> HIDE DEF x
    <3>5. x.age <= x.unused + Debounce
      BY <2>1, <2>3, <3>2, <3>4, OlderIs DEF TrueOf
    <3>6. TrueOf(k, x)
      BY <2>1, <2>3, <3>4, <3>5 DEF TrueOf
    <3> QED
      BY <2>3, <3>1, <3>4, <3>6
  <2> QED
    BY <2>2, <2>3
<1>3. cache' \in [Keys -> Entries \cup {NoEntry}]
  <2>1. cache' = [k \in Keys |-> cache'[k]]
    BY <1>1
  <2> QED
    BY <1>2, <2>1
<1>4. \A r \in Readers : ReadFits(r)'
  BY <1>1 DEF CacheInv, ReadFits
<1>5. route' = route /\ file' \in Contents /\ read' \in [Readers -> ReadRecord]
  BY <1>1 DEF CacheInv
<1> DEFINE o == NoEntry
<1>6. (\A k \in Keys : TrueOf(k, cache'[k])) /\ \A k \in Keys : cache'[k] # NoEntry => cache[k] # NoEntry \/ k = o
  BY <1>2
<1> HIDE DEF o
<1> QED
  BY <1>3, <1>4, <1>5, <1>6, CacheMoves

LEMMA RestartReadingKeeps == ASSUME CacheInv, RestartReading PROVE CacheInv'
<1>1. route' \in Routes /\ read' = [r \in Readers |-> NoRead] /\ UNCHANGED <<file, cache>>
  BY DEF RestartReading
<1>2. NoRead \in ReadRecord /\ NoRead.pc = "idle"
  BY DEF NoRead, ReadRecord
<1>3. read' \in [Readers -> ReadRecord] /\ \A r \in Readers : ReadFits(r)'
  BY <1>1, <1>2 DEF ReadFits
<1>4. Stored' = Stored /\ \A k \in Keys : TrueOf(k, cache'[k])
  BY <1>1 DEF CacheInv, Stored
<1> QED
  BY <1>1, <1>3, <1>4 DEF CacheInv

LEMMA CacheNextInv == CacheInv /\ [FileNext]_fileVars => CacheInv'
<1> SUFFICES ASSUME CacheInv, [FileNext]_fileVars PROVE CacheInv'
  OBVIOUS
<1>1. CASE ReadNext
  <2>1. ASSUME NEW r \in Readers, LookUp(r) PROVE CacheInv'
    BY <2>1, LookUpKeeps
  <2>2. ASSUME NEW r \in Readers, NEW b \in BOOLEAN, ReadFile(r, b) \/ Parse(r, b) PROVE CacheInv'
    BY <2>2, ReadFileKeeps, ParseKeeps
  <2>3. ASSUME NEW k \in Keys, Damage(k) PROVE CacheInv'
    BY <2>3, DamageKeeps
  <2> QED
    BY <1>1, <2>1, <2>2, <2>3, FileStepsKeep, TimePassesKeeps DEF ReadNext
<1>2. CASE VoiceNext \/ UNCHANGED fileVars
  <2>1. UNCHANGED <<route, file, cache, read>>
    BY <1>2 DEF VoiceNext, Speak, ProjectVoices, WorkerTakes, VoicesProjected, Transcribed, fileVars, readingVars
  <2>2. \A r \in Readers : ReadFits(r)'
    BY <2>1 DEF CacheInv, ReadFits
  <2>3. Stored' = Stored
    BY <2>1 DEF Stored
  <2> QED
    BY <2>1, <2>2, <2>3 DEF CacheInv
<1>3. CASE RestartReading
  BY <1>3, RestartReadingKeeps
<1> QED
  BY <1>1, <1>2, <1>3 DEF FileNext

LEMMA CacheInvHolds == CacheInv => CacheIsTrue
BY DEF CacheInv, CacheIsTrue, Stored, TrueOf

LEMMA CacheInvariant == ReadingInit /\ [][FileNext]_fileVars => []CacheInv
BY CacheInitInv, CacheNextInv, PTL

\* What goes was past its time, or older than all the cache has room for.
LEMMA SweepSpares ==
    ASSUME CacheInv, Sweep
    PROVE  /\ Cardinality(Stored') <= CacheCap
           /\ \A k \in Stored \ Stored' :
                 \/ cache[k].unused + Debounce >= TTL
                 \/ Cardinality({o \in Stored : cache[o].age <= cache[k].age}) > CacheCap
<1>1. PICK kept \in SUBSET Stored :
          /\ kept = Stored' /\ Cardinality(kept) <= CacheCap
          /\ \A k \in Stored \ kept :
                \/ PastTime(k)
                \/ Cardinality(kept) = CacheCap /\ \A o \in kept : cache[o].age <= cache[k].age
  BY SweepIs
<1>2. ASSUME NEW k \in Stored \ kept
      PROVE  \/ cache[k].unused + Debounce >= TTL
             \/ Cardinality({o \in Stored : cache[o].age <= cache[k].age}) > CacheCap
  <2>1. cache[k] \in Entries /\ cache[k].age <= cache[k].unused + Debounce
    BY DEF CacheInv, Stored, TrueOf
  <2>2. cache[k].age \in Nat /\ cache[k].unused \in Nat
    BY <2>1, ReadingNumbers DEF Entries
  <2>3. CASE PastTime(k)
    BY <2>1, <2>2, <2>3, ReadingNumbers DEF PastTime
  <2>4. CASE Cardinality(kept) = CacheCap /\ \A o \in kept : cache[o].age <= cache[k].age
    <3> DEFINE young == {o \in Stored : cache[o].age <= cache[k].age}
    <3>1. kept \subseteq young /\ k \in young /\ k \notin kept
      BY <2>2, <2>4
    <3>2. IsFiniteSet(Stored) /\ young \subseteq Stored
      BY DEF CacheInv
    <3>3. IsFiniteSet(young)
      BY <3>2, FS_Subset
    <3> HIDE DEF young
    <3>4. IsFiniteSet(kept)
      BY <3>1, <3>3, FS_Subset
    <3>5. Cardinality(kept \cup {k}) = Cardinality(kept) + 1 /\ kept \cup {k} \subseteq young
      BY <3>1, <3>4, FS_AddElement
    <3>6. Cardinality(kept \cup {k}) <= Cardinality(young) /\ Cardinality(young) \in Nat
      BY <3>3, <3>5, FS_Subset, FS_CardinalityType
    <3>7. Cardinality(young) > CacheCap
      BY <2>4, <3>5, <3>6, ReadingNumbers
    <3> QED
      BY <3>7 DEF young
  <2> QED
    BY <1>1, <2>3, <2>4
<1> QED
  BY <1>1, <1>2

(***************************************************************************)
(* FileReading, the voice notes.  What a turn takes up is the newest of    *)
(* what is missing, so what it leaves is older than all of it: a note is   *)
(* taken by its rank, the number of missing notes that are newer.          *)
(***************************************************************************)
Rank(c) == Cardinality({d \in Pending : d > c})

LEMMA RanksFall ==
    ASSUME spoken \in 0..NumClips
    PROVE  /\ IsFiniteSet(Pending) /\ Pending \subseteq Clips /\ \A c \in Pending : Rank(c) \in Nat
           /\ \A c, d \in Pending : c < d => Rank(d) < Rank(c)
<1>1. Pending \subseteq 1..spoken /\ 1..spoken \subseteq Clips
  BY ReadingNumbers DEF Pending, Clips
<1>2. IsFiniteSet(Pending)
  <2>1. 1 \in Int /\ spoken \in Int
    BY ReadingNumbers
  <2>2. IsFiniteSet(1..spoken)
    BY <2>1, FS_Interval, ZenonT(20)
  <2> QED
    BY <1>1, <2>2, FS_Subset, ZenonT(20)
<1>3. ASSUME NEW c \in Pending PROVE IsFiniteSet({e \in Pending : e > c}) /\ Rank(c) \in Nat
  <2>1. {e \in Pending : e > c} \subseteq Pending
    OBVIOUS
  <2>2. IsFiniteSet({e \in Pending : e > c})
    BY <1>2, <2>1, FS_Subset
  <2> QED
    BY <2>2, FS_CardinalityType DEF Rank
<1>4. ASSUME NEW c \in Pending, NEW d \in Pending, c < d PROVE Rank(d) < Rank(c)
  <2> DEFINE C == {e \in Pending : e > c}
             D == {e \in Pending : e > d}
  <2>1. \A e \in Pending : e \in Int
    BY <1>1
  <2>2. D \cup {d} \subseteq C /\ d \notin D
    <3>1. ASSUME NEW e \in D PROVE e \in C
      <4>1. e \in Int /\ c \in Int /\ d \in Int /\ e > d /\ e \in Pending
        BY <2>1
      <4>2. e > c
        BY <1>4, <4>1
      <4> QED
        BY <4>1, <4>2
    <3>2. d \in C /\ d \notin D
      BY <1>4, <2>1
    <3> HIDE DEF C, D
    <3> QED
      BY <3>1, <3>2
  <2>3. IsFiniteSet(C) /\ IsFiniteSet(D) /\ Rank(c) = Cardinality(C) /\ Rank(d) = Cardinality(D)
        /\ Rank(c) \in Nat /\ Rank(d) \in Nat
    BY <1>3 DEF Rank
  <2> HIDE DEF C, D
  <2>4. Cardinality(D \cup {d}) = Cardinality(D) + 1
    BY <2>2, <2>3, FS_AddElement
  <2>5. Cardinality(D \cup {d}) <= Cardinality(C)
    BY <2>2, <2>3, FS_Subset
  <2> QED
    BY <2>3, <2>4, <2>5
<1> QED
  BY <1>1, <1>2, <1>3, <1>4

LEMMA RanksFill ==
    ASSUME spoken \in 0..NumClips
    PROVE  /\ IsFiniteSet(Newest(PerTurn)) /\ Cardinality(Newest(PerTurn)) \in Nat
           /\ \A c \in Newest(PerTurn) : Rank(c) + 1 \in 1..Cardinality(Newest(PerTurn))
           /\ \A i \in 1..Cardinality(Newest(PerTurn)) : \E c \in Newest(PerTurn) : Rank(c) = i - 1
<1> DEFINE New == Newest(PerTurn)
           N == Cardinality(New)
<1>1. New \subseteq Pending /\ \A c \in New : c \in Pending /\ c \in Int /\ Rank(c) \in Nat /\ Rank(c) < PerTurn
  BY RanksFall DEF Newest, Rank, Clips
<1>2. IsFiniteSet(New) /\ N \in Nat
  BY <1>1, RanksFall, FS_Subset, FS_CardinalityType
<1>3. ASSUME NEW c \in New PROVE Rank(c) + 1 \in 1..N
  <2> DEFINE C == {e \in Pending : e > c}
  <2>1. ASSUME NEW e \in C PROVE e \in New
    <3>1. e \in Pending /\ c < e /\ e \in Int
      BY <1>1, <2>1, RanksFall DEF Clips
    <3>2. Rank(e) < Rank(c) /\ Rank(e) \in Nat
      BY <1>1, <3>1, RanksFall
    <3> QED
      BY <1>1, <3>1, <3>2, ReadingNumbers DEF Newest, Rank
  <2>2. c \notin C /\ C \cup {c} \subseteq New
    BY <1>1, <2>1
  <2>3. IsFiniteSet(C) /\ Rank(c) = Cardinality(C)
    BY <1>2, <2>2, FS_Subset DEF Rank
  <2> HIDE DEF C
  <2>4. Cardinality(C \cup {c}) = Cardinality(C) + 1
    BY <2>2, <2>3, FS_AddElement
  <2>5. Cardinality(C \cup {c}) <= N
    BY <1>2, <2>2, FS_Subset
  <2> QED
    BY <1>1, <1>2, <2>3, <2>4, <2>5
<1>4. ASSUME NEW i \in 1..N PROVE \E c \in New : Rank(c) = i - 1
  <2> SUFFICES ASSUME \A c \in New : Rank(c) # i - 1 PROVE FALSE
    OBVIOUS
  <2> DEFINE below == 0..(N - 1)
             T == below \ {i - 1}
             f == [c \in New |-> Rank(c)]
  <2>1. IsFiniteSet(below) /\ Cardinality(below) = N /\ i - 1 \in below
    <3> HIDE DEF New, N
    <3>1. 0 \in Int /\ N - 1 \in Int
      BY <1>2
    <3>2. IsFiniteSet(0..(N - 1)) /\ Cardinality(0..(N - 1)) = IF 0 > N - 1 THEN 0 ELSE (N - 1) - 0 + 1
      BY <3>1, FS_Interval, ZenonT(20)
    <3>3. N > 0 /\ i - 1 \in 0..(N - 1)
      BY <1>2
    <3>4. ~(0 > N - 1) /\ (N - 1) - 0 + 1 = N
      BY <1>2, <3>3
    <3> QED
      BY <3>2, <3>3, <3>4
  <2>2. IsFiniteSet(T) /\ Cardinality(T) = N - 1
    <3> HIDE DEF below
    <3> QED
      BY <2>1, FS_RemoveElement
  <2>3. f \in [New -> T]
    <3>1. \A c \in New : Rank(c) \in T
      BY <1>1, <1>2, <1>3
    <3> QED
      BY <3>1
  <2>4. \A c \in New : f[c] = Rank(c)
    OBVIOUS
  <2>5. N - 1 < N
    BY <1>2
  <2> HIDE DEF T, f, New
  <2>6. \E x, y \in New : x # y /\ f[x] = f[y]
    BY <1>2, <2>2, <2>3, <2>5, FS_PigeonHole
  <2>7. PICK x \in New, y \in New : x # y /\ Rank(x) = Rank(y)
    BY <2>4, <2>6
  <2>8. x < y \/ y < x
    BY <1>1, <2>7
  <2> QED
    BY <1>1, <2>7, <2>8, RanksFall
<1> QED
  BY <1>2, <1>3, <1>4

Queued(p) == {p.queue[i] : i \in 1..Len(p.queue)}

LEMMA NewestFirstIs ==
    ASSUME spoken \in 0..NumClips
    PROVE  /\ NewestFirst \in Seq(Clips)
           /\ {NewestFirst[i] : i \in 1..Len(NewestFirst)} = Newest(PerTurn)
           /\ \A d \in Pending \ Newest(PerTurn), c \in Newest(PerTurn) : d < c
<1> DEFINE N == Cardinality(Newest(PerTurn))
<1>1. N \in Nat /\ Newest(PerTurn) \subseteq Clips /\ Newest(PerTurn) \subseteq Pending
  BY RanksFall, RanksFill DEF Newest
<1>2. ASSUME NEW i \in 1..N PROVE NewestFirst[i] \in Newest(PerTurn) /\ Rank(NewestFirst[i]) = i - 1
  <2>1. \E c \in Newest(PerTurn) : Rank(c) = i - 1
    BY RanksFill
  <2>2. NewestFirst[i] = CHOOSE c \in Newest(PerTurn) : Rank(c) = i - 1
    BY DEF NewestFirst, Rank
  <2> QED
    BY <2>1, <2>2
<1>3. NewestFirst = [i \in 1..N |-> CHOOSE c \in Newest(PerTurn) : Rank(c) = i - 1]
  BY DEF NewestFirst, Rank
<1>4. NewestFirst \in [1..N -> Clips]
  <2>1. \A i \in 1..N : (CHOOSE c \in Newest(PerTurn) : Rank(c) = i - 1) \in Clips
    BY <1>1, <1>2, <1>3
  <2> QED
    BY <1>3, <2>1
<1>5. NewestFirst \in Seq(Clips) /\ Len(NewestFirst) = N
  BY <1>1, <1>4
<1>6. ASSUME NEW c \in Newest(PerTurn) PROVE \E i \in 1..N : NewestFirst[i] = c
  <2> DEFINE i == Rank(c) + 1
  <2>1. i \in 1..N /\ Rank(c) \in Nat /\ c \in Pending
    BY <1>1, RanksFall, RanksFill
  <2> DEFINE e == NewestFirst[i]
  <2>2. e \in Newest(PerTurn) /\ Rank(e) = Rank(c)
    <3>1. e \in Newest(PerTurn) /\ Rank(e) = i - 1
      BY <1>2, <2>1
    <3> QED
      BY <2>1, <3>1
  <2> HIDE DEF e
  <2>3. e \in Pending /\ e \in Int /\ c \in Int
    BY <1>1, <2>2 DEF Clips
  <2>4. ~(c < e) /\ ~(e < c)
    BY <2>1, <2>2, <2>3, RanksFall
  <2>5. e = c
    BY <2>3, <2>4
  <2> QED
    BY <2>1, <2>5 DEF e
<1>7. ASSUME NEW d \in Pending \ Newest(PerTurn), NEW c \in Newest(PerTurn) PROVE d < c
  <2>1. d \in Int /\ c \in Int /\ d # c /\ c \in Pending
    BY <1>1, RanksFall DEF Clips
  <2>2. Rank(c) < PerTurn /\ ~(Rank(d) < PerTurn) /\ Rank(c) \in Nat /\ Rank(d) \in Nat
    BY <2>1, RanksFall DEF Newest, Rank
  <2>3. ~(c < d)
    BY <2>1, <2>2, RanksFall, ReadingNumbers
  <2> QED
    BY <2>1, <2>3
<1> HIDE DEF N
<1>8. {NewestFirst[i] : i \in 1..N} = Newest(PerTurn)
  BY <1>2, <1>6
<1> QED
  BY <1>5, <1>7, <1>8

ProjectionRecord ==
    [pc : {"idle", "work"}, queue : Seq(Clips), running : SUBSET Clips,
     shown : [Clips -> Statuses \cup {"plain"}], started : SUBSET Clips, upto : 0..NumClips]

\* What a turn shows as it is, it still takes up, or all it takes up is newer.
LeftIsOlder(p) ==
    p.pc = "work" =>
        \A d \in 1..p.upto :
            p.shown[d] = "plain" =>
                \/ d \in Queued(p) \cup p.running
                \/ \A c \in p.started \cup Queued(p) : d < c

HeardRight(c, x) == x # NoEntry => x.status = Heard(Sound[clipContent[c]])

VoiceInv ==
    /\ route \in Routes /\ spoken \in 0..NumClips
    /\ records \in [Clips -> Records \cup {NoEntry}] /\ projected \in ProjectionRecord
    /\ \A c \in Clips : HeardRight(c, records[c])
    /\ LeftIsOlder(projected)

LEMMA ClipSounds ==
    \A c \in Clips : clipContent[c] \in Contents /\ Sound[clipContent[c]] \in {"speech", "silent"}
<1> SUFFICES ASSUME NEW c \in Clips
             PROVE  clipContent[c] \in Contents /\ Sound[clipContent[c]] \in {"speech", "silent"}
  OBVIOUS
<1>1. CASE c % 3 = 0
  <2>1. clipContent[c] = CHOOSE s \in Contents : Sound[s] = "silent"
    BY <1>1 DEF clipContent
  <2>2. \E s \in Contents : Sound[s] = "silent"
    BY ReadingConstants
  <2> QED
    BY <2>1, <2>2
<1>2. CASE ~(c % 3 = 0)
  <2>1. clipContent[c] = CHOOSE s \in Contents : Sound[s] = "speech"
    BY <1>2 DEF clipContent
  <2>2. \E s \in Contents : Sound[s] = "speech"
    BY ReadingConstants
  <2> QED
    BY <2>1, <2>2
<1> QED
  BY <1>1, <1>2

LEMMA NoProjectionFits ==
    NoProjection \in ProjectionRecord /\ LeftIsOlder(NoProjection)
<1>1. <<>> \in Seq(Clips) /\ 0 \in 0..NumClips
  BY ReadingNumbers
<1>2. [c \in Clips |-> "plain"] \in [Clips -> Statuses \cup {"plain"}]
  OBVIOUS
<1> QED
  BY <1>1, <1>2 DEF NoProjection, ProjectionRecord, LeftIsOlder

LEMMA VoiceInitInv == ReadingInit => VoiceInv
<1> SUFFICES ASSUME ReadingInit PROVE VoiceInv
  OBVIOUS
<1>1. route \in Routes /\ spoken = 0 /\ records = [c \in Clips |-> NoEntry] /\ projected = NoProjection
  BY DEF ReadingInit
<1>2. records \in [Clips -> Records \cup {NoEntry}] /\ \A c \in Clips : HeardRight(c, records[c])
  BY <1>1 DEF HeardRight
<1> QED
  BY <1>1, <1>2, NoProjectionFits, ReadingNumbers DEF VoiceInv

\* The first projection of a turn: the newest missing notes are its queue.
LEMMA ProjectVoicesKeeps == VoiceInv /\ ProjectVoices => VoiceInv'
<1> SUFFICES ASSUME VoiceInv, ProjectVoices PROVE VoiceInv'
  OBVIOUS
<1> DEFINE plainly == [c \in Clips |-> IF c > spoken THEN "plain"
                                     ELSE IF Known(c) THEN records[c].status
                                     ELSE IF route = "none" THEN "unconfigured" ELSE "plain"]
           line == IF route = "none" THEN <<>> ELSE NewestFirst
           p == [pc |-> "work", queue |-> line, running |-> {}, shown |-> plainly, started |-> {}, upto |-> spoken]
<1>1. /\ projected' = p
      /\ route' = route /\ spoken' = spoken /\ records' = records
  BY DEF ProjectVoices
<1>2. spoken \in 0..NumClips /\ spoken \in Nat /\ route \in Routes
  BY ReadingNumbers DEF VoiceInv
<1>3. \A c \in Clips : Known(c) => records[c].status \in Statuses
  BY DEF VoiceInv, Known, Records
<1>4. "plain" \notin Statuses /\ "unconfigured" \in Statuses
  BY DEF Statuses
<1>5. plainly \in [Clips -> Statuses \cup {"plain"}]
  <2>1. \A c \in Clips : plainly[c] \in Statuses \cup {"plain"}
    BY <1>3, <1>4
  <2> QED
    BY <2>1
<1>6. \A d \in 1..spoken : plainly[d] = "plain" => route # "none" /\ d \in Pending
  <2> SUFFICES ASSUME NEW d \in 1..spoken, plainly[d] = "plain"
               PROVE  route # "none" /\ d \in Pending
    OBVIOUS
  <2>1. d \in Clips /\ ~(d > spoken)
    BY <1>2, ReadingNumbers DEF Clips
  <2>2. ~Known(d) /\ route # "none"
    BY <1>3, <1>4, <2>1
  <2> QED
    BY <2>2 DEF Pending
<1>7. line \in Seq(Clips)
  BY <1>2, NewestFirstIs
<1>8. p \in ProjectionRecord
  <2> HIDE DEF plainly, line
  <2> QED
    BY <1>2, <1>5, <1>7 DEF ProjectionRecord
<1>9. p.pc = "work" /\ p.queue = line /\ p.running = {} /\ p.shown = plainly /\ p.started = {} /\ p.upto = spoken
  OBVIOUS
<1> HIDE DEF p, plainly
<1>10. LeftIsOlder(p)
  <2> SUFFICES ASSUME NEW d \in 1..spoken, plainly[d] = "plain"
               PROVE  d \in Queued(p) \cup p.running \/ \A c \in p.started \cup Queued(p) : d < c
    BY <1>9 DEF LeftIsOlder
  <2>1. d \in Pending /\ line = NewestFirst
    BY <1>6
  <2>2. Queued(p) = Newest(PerTurn)
    BY <1>2, <1>9, <2>1, NewestFirstIs DEF Queued
  <2> QED
    BY <1>2, <1>9, <2>1, <2>2, NewestFirstIs
<1> QED
  BY <1>1, <1>8, <1>10 DEF VoiceInv

LEMMA WorkerTakesKeeps == VoiceInv /\ WorkerTakes => VoiceInv'
<1> SUFFICES ASSUME VoiceInv, WorkerTakes PROVE VoiceInv'
  OBVIOUS
<1> DEFINE q == projected.queue
           p == [projected EXCEPT !.queue = Tail(q), !.running = @ \cup {Head(q)}, !.started = @ \cup {Head(q)}]
<1>1. /\ q # <<>> /\ projected' = p
      /\ route' = route /\ spoken' = spoken /\ records' = records
  BY DEF WorkerTakes
<1>2. projected \in ProjectionRecord /\ q \in Seq(Clips) /\ LeftIsOlder(projected)
  BY DEF VoiceInv, ProjectionRecord
<1>3. /\ p.pc = projected.pc /\ p.queue = Tail(q) /\ p.running = projected.running \cup {Head(q)}
      /\ p.started = projected.started \cup {Head(q)} /\ p.shown = projected.shown /\ p.upto = projected.upto
  BY <1>2 DEF ProjectionRecord
<1>4. Tail(q) \in Seq(Clips) /\ Head(q) \in Clips /\ Len(q) \in Nat /\ Len(q) > 0
      /\ Len(Tail(q)) = Len(q) - 1 /\ Head(q) = q[1] /\ \A i \in 1..Len(q) - 1 : Tail(q)[i] = q[i + 1]
  BY <1>1, <1>2
<1>5. p \in ProjectionRecord
  <2> HIDE DEF q
  <2> QED
    BY <1>2, <1>4 DEF ProjectionRecord
<1> HIDE DEF p
<1>6. Queued(p) \cup {Head(q)} = Queued(projected)
  <2>1. ASSUME NEW i \in 1..Len(q) PROVE q[i] \in Queued(p) \cup {Head(q)}
    <3>1. CASE i = 1
      BY <1>4, <3>1
    <3>2. CASE i # 1
      <4>1. i - 1 \in 1..Len(Tail(q)) /\ Tail(q)[i - 1] = q[i]
        BY <1>4, <3>2
      <4> QED
        BY <1>3, <4>1 DEF Queued
    <3> QED
      BY <3>1, <3>2
  <2>2. ASSUME NEW i \in 1..Len(Tail(q)) PROVE Tail(q)[i] \in Queued(projected)
    <3>1. i + 1 \in 1..Len(q) /\ Tail(q)[i] = q[i + 1]
      BY <1>4
    <3> QED
      BY <3>1 DEF Queued
  <2>3. Head(q) \in Queued(projected)
    <3>1. 1 \in 1..Len(q)
      BY <1>4
    <3> QED
      BY <1>4, <3>1 DEF Queued
  <2> QED
    BY <1>3, <2>1, <2>2, <2>3 DEF Queued
<1>7. /\ Queued(p) \cup p.running = Queued(projected) \cup projected.running
      /\ p.started \cup Queued(p) = projected.started \cup Queued(projected)
  BY <1>3, <1>6
<1>8. LeftIsOlder(p)
  BY <1>2, <1>3, <1>7 DEF LeftIsOlder
<1> QED
  BY <1>1, <1>5, <1>8 DEF VoiceInv

LEMMA TranscribedKeeps ==
    ASSUME VoiceInv, NEW c \in Clips, NEW ok \in BOOLEAN, Transcribed(c, ok)
    PROVE  VoiceInv'
<1>1. PICK status \in Transcription(Sound[clipContent[c]]) :
          /\ projected' = [projected EXCEPT !.running = @ \ {c}, !.shown[c] = status]
          /\ records' = IF ok /\ Deterministic(status)
                        THEN [records EXCEPT ![c] = [status |-> status, route |-> route]] ELSE records
  BY DEF Transcribed
<1>2. route' = route /\ spoken' = spoken /\ route \in Routes
  BY DEF Transcribed, VoiceInv
<1>3. Sound[clipContent[c]] \in {"speech", "silent"} /\ Sound[clipContent[c]] \in Sounds
  BY ClipSounds DEF Sounds
<1>4. status \in Statuses /\ (Deterministic(status) => status = Heard(Sound[clipContent[c]]))
  BY <1>2, <1>3, TranscriptionTells
<1> DEFINE x == [status |-> status, route |-> route]
           p == [projected EXCEPT !.running = @ \ {c}, !.shown[c] = status]
<1>5. records' \in [Clips -> Records \cup {NoEntry}] /\ \A d \in Clips : HeardRight(d, records'[d])
  <2>1. x \in Records /\ x.status = status
    BY <1>2, <1>4 DEF Records
  <2> HIDE DEF x
  <2>2. CASE ok /\ Deterministic(status)
    <3>1. records' = [records EXCEPT ![c] = x]
      BY <1>1, <2>2 DEF x
    <3>2. \A d \in Clips : records'[d] = IF d = c THEN x ELSE records[d]
      BY <3>1 DEF VoiceInv
    <3>3. HeardRight(c, x)
      BY <1>4, <2>1, <2>2 DEF HeardRight
    <3> QED
      BY <2>1, <3>1, <3>2, <3>3 DEF VoiceInv
  <2>3. CASE ~(ok /\ Deterministic(status))
    BY <1>1, <2>3 DEF VoiceInv
  <2> QED
    BY <2>2, <2>3
<1>6. projected \in ProjectionRecord /\ LeftIsOlder(projected)
  BY DEF VoiceInv
<1>7. /\ p.pc = projected.pc /\ p.queue = projected.queue /\ p.running = projected.running \ {c}
      /\ p.started = projected.started /\ p.shown = [projected.shown EXCEPT ![c] = status]
      /\ p.upto = projected.upto
  BY <1>6 DEF ProjectionRecord
<1>8. projected.shown \in [Clips -> Statuses \cup {"plain"}] /\ projected.upto \in 0..NumClips
  BY <1>6 DEF ProjectionRecord
<1>9. p.shown \in [Clips -> Statuses \cup {"plain"}] /\ \A d \in Clips : p.shown[d] = IF d = c THEN status ELSE projected.shown[d]
  BY <1>4, <1>7, <1>8
<1>10. p \in ProjectionRecord
  <2>1. [projected.shown EXCEPT ![c] = status] \in [Clips -> Statuses \cup {"plain"}]
    BY <1>4, <1>8
  <2> QED
    BY <1>6, <2>1 DEF ProjectionRecord
<1>11. projected' = p
  BY <1>1
<1> HIDE DEF p
<1>12. LeftIsOlder(p)
  <2> SUFFICES ASSUME p.pc = "work", NEW d \in 1..p.upto, p.shown[d] = "plain"
               PROVE  d \in Queued(p) \cup p.running \/ \A e \in p.started \cup Queued(p) : d < e
    BY DEF LeftIsOlder
  <2>1. d \in Clips /\ Queued(p) = Queued(projected)
    BY <1>7, <1>8, ReadingNumbers DEF Clips, Queued
  <2>2. d # c /\ projected.shown[d] = "plain"
    BY <1>4, <1>9, <2>1 DEF Statuses
  <2>3. d \in Queued(projected) \cup projected.running \/ \A e \in projected.started \cup Queued(projected) : d < e
    BY <1>6, <1>7, <2>2 DEF LeftIsOlder
  <2> QED
    BY <1>7, <2>1, <2>2, <2>3
<1> QED
  BY <1>2, <1>5, <1>10, <1>11, <1>12 DEF VoiceInv

LEMMA VoiceNextInv == VoiceInv /\ [FileNext]_fileVars => VoiceInv'
<1> SUFFICES ASSUME VoiceInv, [FileNext]_fileVars PROVE VoiceInv'
  OBVIOUS
<1>1. CASE ReadNext \/ UNCHANGED fileVars
  <2>1. UNCHANGED <<route, spoken, records, projected>>
    BY <1>1 DEF ReadNext, Edit, LookUp, ParseFails, ReadFile, Parse, Sweep, ClearParserCache, TimePasses, Damage,
                fileVars, voiceVars
  <2> QED
    BY <2>1 DEF VoiceInv
<1>2. CASE RestartReading
  <2>1. route' \in Routes /\ projected' = NoProjection /\ UNCHANGED <<spoken, records>>
    BY <1>2 DEF RestartReading
  <2> QED
    BY <2>1, NoProjectionFits DEF VoiceInv
<1>3. CASE Speak
  <2>1. spoken < NumClips /\ spoken' = spoken + 1 /\ UNCHANGED <<route, records, projected>>
    BY <1>3 DEF Speak
  <2>2. spoken' \in 0..NumClips
    BY <2>1, ReadingNumbers DEF VoiceInv
  <2> QED
    BY <2>1, <2>2 DEF VoiceInv
<1>4. CASE VoicesProjected
  <2>1. projected' = NoProjection /\ UNCHANGED <<route, spoken, records>>
    BY <1>4 DEF VoicesProjected
  <2> QED
    BY <2>1, NoProjectionFits DEF VoiceInv
<1>5. CASE \E c \in Clips, ok \in BOOLEAN : Transcribed(c, ok)
  BY <1>5, TranscribedKeeps
<1> QED
  BY <1>1, <1>2, <1>3, <1>4, <1>5, ProjectVoicesKeeps, WorkerTakesKeeps DEF FileNext, VoiceNext

LEMMA VoiceInvHolds == VoiceInv => VoicesAreTrue
<1> SUFFICES ASSUME VoiceInv PROVE VoicesAreTrue
  OBVIOUS
<1>1. \A c \in Clips : records[c] # NoEntry => records[c].status = Heard(Sound[clipContent[c]])
  BY DEF VoiceInv, HeardRight
<1>2. ASSUME projected.pc = "work", projected.queue = <<>>, projected.running = {},
             NEW c \in projected.started, NEW d \in 1..projected.upto, projected.shown[d] = "plain"
      PROVE  d < c
  <2>1. Queued(projected) = {}
    BY <1>2 DEF Queued
  <2> QED
    BY <1>2, <2>1 DEF VoiceInv, LeftIsOlder
<1> QED
  BY <1>1, <1>2 DEF VoicesAreTrue

LEMMA VoiceInvariant == ReadingInit /\ [][FileNext]_fileVars => []VoiceInv
BY VoiceInitInv, VoiceNextInv, PTL

LEMMA ReadingIsTyped == CacheInv /\ VoiceInv => ReadingTypeOK
<1> SUFFICES ASSUME CacheInv, VoiceInv PROVE ReadingTypeOK
  OBVIOUS
<1>1. /\ route \in Routes /\ file \in Contents /\ cache \in [Keys -> Entries \cup {NoEntry}]
      /\ read \in [Readers -> [pc : {"idle", "look", "parse"}, of : Contents \cup {NoEntry}, key : Keys \cup {NoEntry}]]
  BY DEF CacheInv, ReadRecord
<1>2. spoken \in 0..NumClips /\ records \in [Clips -> Records \cup {NoEntry}] /\ projected \in ProjectionRecord
  BY DEF VoiceInv
<1>3. /\ projected.pc \in {"idle", "work"} /\ projected.running \cup projected.started \subseteq Clips
      /\ projected.shown \in [Clips -> Statuses \cup {"plain"}] /\ projected.upto \in 0..NumClips
      /\ projected.queue \in Seq(Clips)
  BY <1>2 DEF ProjectionRecord
<1>4. \A i \in 1..Len(projected.queue) : projected.queue[i] \in Clips
  BY <1>3
<1> QED
  BY <1>1, <1>2, <1>3, <1>4 DEF ReadingTypeOK

\* A step of read_file that sweeps spares what it should.
LEMMA SweepStepFair == CacheInv /\ [FileNext]_fileVars =>
    [Sweep => /\ Cardinality(Stored') <= CacheCap
              /\ \A k \in Stored \ Stored' :
                    \/ cache[k].unused + Debounce >= TTL
                    \/ Cardinality({o \in Stored : cache[o].age <= cache[k].age}) > CacheCap]_cache
BY SweepSpares

\* A cached parse is that of its key's bytes by its key's deployment, the
\* sweep takes only what is past its time or beyond the cap, and a voice note
\* is shown as what was said in it, the newest first: for every cache, chain
\* of services and number of notes.
THEOREM WhatIsReadIsTrue == FileSpec => [](CacheIsTrue /\ VoicesAreTrue) /\ SweepIsFair
<1>1. FileSpec => []CacheInv /\ []VoiceInv
  BY CacheInvariant, VoiceInvariant, PTL DEF FileSpec
<1> QED
  BY <1>1, CacheInvHolds, VoiceInvHolds, SweepStepFair, PTL DEF FileSpec, SweepIsFair

(***************************************************************************)
(* The composition: every part takes its own component's steps or none.    *)
(***************************************************************************)
LEMMA PartsMove ==
    [MCNext]_mcVars =>
        /\ [PoolNext]_poolVars /\ [ToolNext]_toolVars /\ [GuardNext]_guardVars /\ [AttNext]_attVars
        /\ [FileNext]_fileVars /\ [GemixNext]_gemixVars
        /\ [ReplyNext]_replyVars /\ [SendNext]_sendVars /\ [LinkNext]_linkVars
<1> SUFFICES ASSUME [MCNext]_mcVars
             PROVE  /\ [PoolNext]_poolVars /\ [ToolNext]_toolVars /\ [GuardNext]_guardVars /\ [AttNext]_attVars
                    /\ [FileNext]_fileVars /\ [GemixNext]_gemixVars
                    /\ [ReplyNext]_replyVars /\ [SendNext]_sendVars /\ [LinkNext]_linkVars
  OBVIOUS
<1>1. CASE MCNext
  <2>1. [PoolNext]_poolVars /\ [ToolNext]_toolVars /\ [GuardNext]_guardVars
    BY <1>1 DEF MCNext, Moves
  <2>2. [AttNext]_attVars /\ [GemixNext]_gemixVars
    BY <1>1 DEF MCNext, Moves
  <2>3. [ReplyNext]_replyVars /\ [SendNext]_sendVars /\ [LinkNext]_linkVars
    BY <1>1 DEF MCNext, Moves
  <2>4. [FileNext]_fileVars
    BY <1>1 DEF MCNext, FileNext
  <2> QED
    BY <2>1, <2>2, <2>3, <2>4
<1>2. CASE UNCHANGED mcVars
  BY <1>2 DEF mcVars, deliveryVars, replyVars, sendVars, poolVars, toolVars, guardVars, attVars,
              fileVars, gemixVars, linkVars
<1> QED
  BY <1>1, <1>2

\* One container for a workspace, no more than the cap, and no more written
\* than fits between two polls: the run's property, for every instance.
THEOREM ContainersStayBounded == MCSpec => []ContainersBounded
<1>1. MCSpec => []ContainerInv
  <2>1. MCInit => PoolInit
    BY DEF MCInit
  <2>2. [MCNext]_mcVars => [PoolNext]_poolVars
    BY PartsMove
  <2> QED
    BY <2>1, <2>2, ContainerInvariant, PTL DEF MCSpec
<1>2. MCSpec => []GuardInv
  <2>1. MCInit => GuardInit
    BY DEF MCInit
  <2>2. [MCNext]_mcVars => [GuardNext]_guardVars
    BY PartsMove
  <2> QED
    BY <2>1, <2>2, GuardInvariant, PTL DEF MCSpec
<1>3. ContainerInv /\ GuardInv => ContainersBounded
  BY ContainersHold, GuardInvHolds DEF ContainersBounded
<1> QED
  BY <1>1, <1>2, <1>3, PTL

\* The run's property of the tags, for every instance.
THEOREM TagsAlwaysResolve == MCSpec => []TagsResolve
<1>1. MCInit => AttInit
  BY DEF MCInit
<1>2. [MCNext]_mcVars => [AttNext]_attVars
  BY PartsMove
<1>3. AttInv => TagsResolve
  BY AttInvHolds DEF TagsResolve
<1> QED
  BY <1>1, <1>2, <1>3, AttInvariant, PTL DEF MCSpec

LEMMA ReplyInvariant == MCSpec => []ReplyFine(reply, reached)
<1>1. MCInit => ReplyFine(reply, reached)
  BY NoReplyFine DEF MCInit, DeliveryInit
<1>2. ReplyFine(reply, reached) /\ [MCNext]_mcVars => ReplyFine(reply, reached)'
  BY PartsMove, ReplyNextFine
<1> QED
  BY <1>1, <1>2, PTL DEF MCSpec

LEMMA SendInvariant == MCSpec => []SendInv
<1>1. MCInit => SendInv
  BY SendInitInv DEF MCInit
<1>2. SendInv /\ [MCNext]_mcVars => SendInv'
  BY PartsMove, SendNextInv
<1> QED
  BY <1>1, <1>2, PTL DEF MCSpec

\* The receipt of a reply tells what reached the user, save the files that
\* went before a staging that threw, which it lists; a conversation gets one
\* text of a kind, the audit log's files are there, and a link that is
\* handed out works until it expires: for every instance.
THEOREM AnswersAreDelivered == MCSpec => []AnswersDelivered
<1>1. MCSpec => []LinkInv
  <2>1. MCInit => LinkInit
    BY DEF MCInit
  <2>2. [MCNext]_mcVars => [LinkNext]_linkVars
    BY PartsMove
  <2> QED
    BY <2>1, <2>2, LinkInvariant, PTL DEF MCSpec
<1>2. LinkInv => LinkBacked
  BY LinkInvHolds
<1>3. ReplyFine(reply, reached) /\ SendInv => DeliveryHonest
  BY FineIsHonest, SendInvHolds DEF DeliveryHonest
<1>4. LinkBacked /\ DeliveryHonest => AnswersDelivered
  BY DEF AnswersDelivered
<1> QED
  BY <1>1, <1>2, <1>3, <1>4, ReplyInvariant, SendInvariant, PTL

\* The run's property of the voice texts, for every instance.
THEOREM GemixTextsStay == MCSpec => []GemixTextsKept
<1>1. MCInit => GemixInit
  BY DEF MCInit
<1>2. [MCNext]_mcVars => [GemixNext]_gemixVars
  BY PartsMove
<1>3. VoicesInv => GemixTextsKept
  BY VoicesInvHolds DEF GemixTextsKept
<1> QED
  BY <1>1, <1>2, <1>3, VoicesInvariant, PTL DEF MCSpec

\* The run's property of the tools, for every instance.
THEOREM FilesStayWhole == MCSpec => FilesKept
<1>1. MCInit => ToolInit
  BY DEF MCInit
<1>2. [MCNext]_mcVars => [ToolNext]_toolVars
  BY PartsMove
<1>3. ToolInv => (part = "tools" => BatchIsWhole)
  BY ToolInvHolds
<1> QED
  BY <1>1, <1>2, <1>3, ToolInvariant, ToolSteps, PTL
  DEF MCSpec, FilesKept, EditLosesNothing, RolledBackMeansUndone

\* The run's property of the files that are read, for every instance.
THEOREM ReadingStaysTrue == MCSpec => FilesReadTrue
<1>1. MCInit => ReadingInit
  BY DEF MCInit
<1>2. [MCNext]_mcVars => [FileNext]_fileVars
  BY PartsMove
<1>3. CacheInv /\ VoiceInv => (part \in {"reading", "voices"} => CacheIsTrue /\ VoicesAreTrue)
  BY CacheInvHolds, VoiceInvHolds
<1>4. MCSpec => []CacheInv /\ []VoiceInv
  BY <1>1, <1>2, CacheInvariant, VoiceInvariant, PTL DEF MCSpec
<1> QED
  BY <1>2, <1>3, <1>4, SweepStepFair, PTL DEF MCSpec, FilesReadTrue, SweepIsFair

LEMMA DeliveryIsTyped == ReplyFine(reply, reached) /\ SendInv => DeliveryTypeOK
<1> SUFFICES ASSUME ReplyFine(reply, reached), SendInv PROVE DeliveryTypeOK
  OBVIOUS
<1>1. reply \in ReplyRecord /\ reached \subseteq Pieces /\ CountsFine(reply)
  BY DEF ReplyFine
<1>2. IsFiniteSet(Files) /\ Cardinality(Files) \in Nat /\ reply.links \subseteq Files
  BY <1>1, FileNames DEF ReplyRecord
<1>3. Cardinality(reply.links) \in Nat
  BY <1>2, FS_Subset, FS_CardinalityType
<1>4. /\ reply.pc \in {"idle", "voice", "footer", "text", "files", "links", "done"}
      /\ reply.direct \in Nat /\ reply.linked \in Nat
  BY <1>1 DEF ReplyRecord
<1>5. reply.direct <= 5 + Cardinality(Files) /\ reply.linked + Cardinality(reply.links) <= Cardinality(Files)
  BY <1>1 DEF CountsFine
<1>6. reply.direct \in 0..7 + Cardinality(Files) /\ reply.linked \in 0..Cardinality(Files)
  BY <1>2, <1>3, <1>4, <1>5
<1>7. reply \in [pc : {"idle", "voice", "footer", "text", "files", "links", "done"},
                 platform : {"whatsapp", "discord"}, wants : SUBSET {"voice", "footer", "text"},
                 route : [Files -> {"none", "direct", "link"}], text : BOOLEAN,
                 direct : 0..7 + Cardinality(Files), linked : 0..Cardinality(Files),
                 failed : SUBSET (Parts \cup Groups \cup Files),
                 links : SUBSET Files]
  <2> DEFINE Directs == 0..7 + Cardinality(Files)
             Links == 0..Cardinality(Files)
             Failures == Parts \cup Groups \cup Files
  <2>1. reply.direct \in Directs /\ reply.linked \in Links
    BY <1>6
  <2>2. reply \in [pc : {"idle", "voice", "footer", "text", "files", "links", "done"},
                   platform : {"whatsapp", "discord"}, wants : SUBSET {"voice", "footer", "text"},
                   route : [Files -> {"none", "direct", "link"}], text : BOOLEAN, direct : Nat, linked : Nat,
                   failed : SUBSET Failures, links : SUBSET Files]
    BY <1>1 DEF ReplyRecord
  <2> HIDE DEF Directs, Links, Failures
  <2>3. reply \in [pc : {"idle", "voice", "footer", "text", "files", "links", "done"},
                   platform : {"whatsapp", "discord"}, wants : SUBSET {"voice", "footer", "text"},
                   route : [Files -> {"none", "direct", "link"}], text : BOOLEAN, direct : Directs, linked : Links,
                   failed : SUBSET Failures, links : SUBSET Files]
    BY <2>1, <2>2
  <2> QED
    BY <2>3 DEF Directs, Links, Failures
<1>8. /\ send \in [Sends -> Unrecorded \cup {"prune", "gone"} \cup Finished]
      /\ contacted \subseteq Dests /\ accepted \in [Dests -> {0, 1}] /\ audit \in Seq(AuditRecord)
      /\ copies \subseteq Sends /\ damaged \in BOOLEAN
  BY DEF SendInv, SendTyped
<1>9. \A d \in DOMAIN accepted : accepted[d] \in 0..Cardinality(Sends)
  <2> SUFFICES ASSUME NEW d \in Dests PROVE accepted[d] \in 0..Cardinality(Sends)
    BY <1>8
  <2>1. PICK s \in Sends : d = Dest[s]
    BY DEF Dests
  <2>2. IsFiniteSet(Sends) /\ Sends # {}
    BY <2>1, DeliveryConstants
  <2>3. Cardinality(Sends) \in Nat /\ Cardinality(Sends) # 0
    BY <2>2, FS_CardinalityType, FS_EmptySet, ZenonT(20)
  <2>4. accepted[d] \in {0, 1}
    BY <1>8
  <2> QED
    BY <2>3, <2>4
<1>10. \A i \in 1..Len(audit) : audit[i] \in [of : Sends, file : BOOLEAN]
  <2>1. \A i \in 1..Len(audit) : audit[i] \in AuditRecord
    BY <1>8
  <2> QED
    BY <2>1 DEF AuditRecord
<1>11. send \in [Sends -> {"new", "attaching", "audit", "retain", "save", "prune",
                           "refused", "failed", "gone", "ok", "degraded"}]
  BY <1>8 DEF Unrecorded, Finished
<1>12. contacted \subseteq {Dest[s] : s \in Sends}
  BY <1>8 DEF Dests
<1> QED
  BY <1>1, <1>7, <1>8, <1>9, <1>10, <1>11, <1>12 DEF DeliveryTypeOK

\* Every variable of the components stays in its type, for every instance.
THEOREM DataIsTyped == MCSpec => []TypeOK
<1>1. MCInit => PoolInit /\ ToolInit /\ GuardInit /\ AttInit /\ ReadingInit /\ GemixInit /\ LinkInit
  BY DEF MCInit
<1>2. MCSpec => []ContainerInv /\ []ToolInv /\ []GuardInv
  BY <1>1, PartsMove, ContainerInvariant, ToolInvariant, GuardInvariant, PTL DEF MCSpec
<1>3. MCSpec => []AttInv /\ []CacheInv /\ []VoiceInv
  BY <1>1, PartsMove, AttInvariant, CacheInvariant, VoiceInvariant, PTL DEF MCSpec
<1>4. MCSpec => []VoicesInv /\ []LinkInv
  BY <1>1, PartsMove, VoicesInvariant, LinkInvariant, PTL DEF MCSpec
<1>5. ContainerInv /\ ToolInv /\ GuardInv => PoolTypeOK /\ ToolTypeOK /\ GuardTypeOK
  BY InvTyped, ToolInvHolds DEF ContainerInv, GuardInv
<1>6. AttInv /\ VoicesInv /\ LinkInv => AttTypeOK /\ GemixTypeOK /\ LinkTypeOK
  BY VoicesInvHolds DEF AttInv, LinkInv
<1>7. PoolTypeOK /\ ToolTypeOK /\ GuardTypeOK /\ AttTypeOK /\ GemixTypeOK /\ LinkTypeOK
        /\ ReadingTypeOK /\ DeliveryTypeOK => TypeOK
  BY DEF TypeOK
<1> QED
  BY <1>2, <1>3, <1>4, <1>5, <1>6, <1>7, ReadingIsTyped, DeliveryIsTyped, ReplyInvariant, SendInvariant, PTL
====
