---- MODULE TempLinks ----
(***************************************************************************)
(* The download links sent when a platform will not carry a file: the      *)
(* staging directory, the registry of tokens and the loopback server       *)
(* (utils/tempFileServer.js, attachmentFallback.js).  Time is a clock, the *)
(* recipients' requests are external.                                      *)
(***************************************************************************)
EXTENDS Integers, FiniteSets

CONSTANTS
    Tokens,          \* links the process can make, each of a file of its own
    LinkTTL,         \* TUNNEL_TOKEN_TTL_TEMP_MS
    OrphanAge,       \* TUNNEL_TOKEN_TTL_HISTORY_MS, the age at which staging is swept
    MaxRequests,     \* MAX_TOKEN_REQUESTS
    LastTick         \* bound on the clock

ASSUME LinkConstants ==
    /\ LinkTTL \in Nat \ {0} /\ MaxRequests \in Nat /\ LastTick \in Nat
    /\ OrphanAge \in Nat /\ LinkTTL < OrphanAge

Absent == -1

VARIABLES
    clock,
    staged,      \* per token: when its file was written under .tempfiles/, or Absent
    owned,       \* the tokens whose file is the conversation's own, under data/
    pruned,      \* the own files edited away or pruned since
    entry,       \* fileRegistry: expiry and requests, or NoLink
    handed,      \* the links their recipient has
    server       \* "off", "starting", "listening"

linkVars == <<clock, staged, owned, pruned, entry, handed, server>>

NoLink == [expires |-> Absent, requests |-> 0]

LinkTypeOK ==
    /\ clock \in 0..LastTick
    /\ staged \in [Tokens -> {Absent} \cup 0..LastTick]
    /\ owned \subseteq Tokens /\ pruned \subseteq owned
    /\ entry \in [Tokens -> [expires : {Absent} \cup 0..LastTick + LinkTTL, requests : 0..MaxRequests + 1]]
    /\ handed \subseteq Tokens
    /\ server \in {"off", "starting", "listening"}

LinkInit ==
    /\ clock = 0
    /\ staged = [t \in Tokens |-> Absent] /\ owned \in SUBSET Tokens /\ pruned = {}
    /\ entry = [t \in Tokens |-> NoLink]
    /\ handed = {} /\ server = "off"

Registered(t) == entry[t].expires # Absent
Servable(t) == IF t \in owned THEN t \notin pruned ELSE staged[t] # Absent

(* _materializeAttachmentPath, or the zip of several: a fresh name.        *)
Stage(t) ==
    /\ t \notin owned /\ staged[t] = Absent /\ ~Registered(t) /\ t \notin handed
    /\ staged' = [staged EXCEPT ![t] = clock]
    /\ UNCHANGED <<clock, owned, pruned, entry, handed, server>>

(* registerTempFile.  The zip of a bundle takes a while (at most a clock   *)
(* tick) between the two.                                                  *)
Register(t) ==
    /\ Servable(t) /\ ~Registered(t) /\ t \notin handed
    /\ t \notin owned => clock <= staged[t] + 1
    /\ entry' = [entry EXCEPT ![t] = [expires |-> clock + LinkTTL, requests |-> 0]]
    /\ handed' = handed \cup {t}
    /\ UNCHANGED <<clock, staged, owned, pruned, server>>

(* _expireEntry: the token goes, and its file when it was staged.          *)
Expire(gone) ==
    /\ entry' = [t \in Tokens |-> IF t \in gone THEN NoLink ELSE entry[t]]
    /\ staged' = [t \in Tokens |-> IF t \in gone THEN Absent ELSE staged[t]]

Request(t) ==
    /\ server = "listening" /\ t \in handed
    /\ IF ~Registered(t) THEN UNCHANGED <<entry, staged>>                              \* 404
       ELSE IF entry[t].expires <= clock THEN Expire({t})                  \* 410
       ELSE IF entry[t].requests >= MaxRequests                                                 \* 429
       THEN /\ entry' = [entry EXCEPT ![t].requests = MaxRequests + 1]
            /\ UNCHANGED <<staged>>
       ELSE IF ~Servable(t) THEN Expire({t})                                 \* 404
       ELSE /\ entry' = [entry EXCEPT ![t].requests = @ + 1]
            /\ UNCHANGED staged
    /\ UNCHANGED <<clock, owned, pruned, handed, server>>

(* The conversation's file is edited away or pruned under the link.        *)
OwnFileGoes(t) ==
    /\ t \in owned \ pruned /\ pruned' = pruned \cup {t}
    /\ UNCHANGED <<clock, staged, owned, entry, handed, server>>

(* cleanupExpiredFiles: the registry first, then staging older than any    *)
(* link can be.                                                            *)
Expired == {t \in Tokens : Registered(t) /\ entry[t].expires <= clock}
Orphans == {t \in Tokens : staged[t] # Absent /\ clock - staged[t] > OrphanAge}

CleanUp ==
    /\ entry' = [t \in Tokens |-> IF t \in Expired THEN NoLink ELSE entry[t]]
    /\ staged' = [t \in Tokens |-> IF t \in Expired \cup Orphans THEN Absent ELSE staged[t]]

CleanUpTimer ==
    /\ server = "listening" /\ CleanUp
    /\ UNCHANGED <<clock, owned, pruned, handed, server>>

StartServer ==
    /\ server = "off" /\ server' = "starting"
    /\ UNCHANGED <<clock, staged, owned, pruned, entry, handed>>

(* The first listen fails the startup; a later error closes the server.    *)
Listening ==
    /\ server = "starting"
    /\ \/ server' = "listening" /\ CleanUp
       \/ server' = "off" /\ UNCHANGED <<entry, staged>>
    /\ UNCHANGED <<clock, owned, pruned, handed>>

ServerFails ==
    /\ server = "listening" /\ server' = "off"
    /\ UNCHANGED <<clock, staged, owned, pruned, entry, handed>>

(* The registry is memory: a new process clears the staging it cannot      *)
(* serve, unless the removal fails.                                        *)
NewProcess ==
    /\ server' = "off"
    /\ entry' = [t \in Tokens |-> NoLink]
    /\ staged' \in {[t \in Tokens |-> Absent], staged}
    /\ UNCHANGED <<clock, owned, pruned, handed>>

LinkTick ==
    /\ clock < LastTick /\ clock' = clock + 1
    /\ UNCHANGED <<staged, owned, pruned, entry, handed, server>>

LinkNext ==
    \/ \E t \in Tokens : Stage(t) \/ Register(t) \/ Request(t) \/ OwnFileGoes(t)
    \/ CleanUpTimer \/ StartServer \/ Listening \/ ServerFails \/ NewProcess \/ LinkTick

LinkSpec == LinkInit /\ [][LinkNext]_linkVars

(* A link to a staged file works for as long as its message said: neither  *)
(* the sweep of old staging nor another link's end takes the file first.   *)
LinkBacked ==
    \A t \in Tokens \ owned : Registered(t) /\ entry[t].expires > clock => staged[t] # Absent
====
