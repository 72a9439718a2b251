---- MODULE ServiceCall ----
(***************************************************************************)
(* One authenticated call to an xAI media endpoint, beside others on the   *)
(* same pool: _runXaiServiceRequest (ai/apiClient.js), with the provider's *)
(* account in use (credentialRegistry.js), over OAuth accounts.            *)
(*                                                                         *)
(* Which account a get or a refresh gives is the credential store's        *)
(* business; the others of the pool may be rotated to at any time.         *)
(***************************************************************************)
EXTENDS Integers, FiniteSets

CONSTANTS
    ServiceCalls,   \* calls under way
    PoolAccounts,   \* stored accounts
    MaxXaiTries,    \* MAX_API_RETRIES
    NoAccount

ASSUME ServiceConstants == MaxXaiTries \in Nat \ {0} /\ NoAccount \notin PoolAccounts

VARIABLES
    svc,            \* the calls
    inUse,          \* _currentAccountId of the shared provider
    health          \* lastStatus of each account

serviceVars == <<svc, inUse, health>>

MaybeAccount == PoolAccounts \cup {NoAccount}
Refusals == {"401", "403"}          \* 403: the token could not be validated
Passing == {"401", "busy", "slow"}  \* _isRetryableXaiError: 401, 429 and 5xx, timeouts

ServiceTypeOK ==
    /\ inUse \in MaybeAccount /\ health \in [PoolAccounts -> {"ok", "auth_failed", "quota"}]
    /\ svc \in [ServiceCalls ->
          [pc : {"ready", "sent", "answered", "failed"}, attempt : 1..MaxXaiTries, force : BOOLEAN,
           rejected : MaybeAccount, refreshed : BOOLEAN, account : MaybeAccount, aborted : BOOLEAN,
           requests : 0..MaxXaiTries + 1, forced : 0..MaxXaiTries + 1]]

ServiceInit ==
    /\ inUse = NoAccount /\ health = [a \in PoolAccounts |-> "ok"]
    /\ svc = [c \in ServiceCalls |->
          [pc |-> "ready", attempt |-> 1, force |-> FALSE, rejected |-> NoAccount, refreshed |-> FALSE,
           account |-> NoAccount, aborted |-> FALSE, requests |-> 0, forced |-> 0]]

CallerAborts(c) ==
    /\ svc[c].pc \in {"ready", "sent"} /\ ~svc[c].aborted
    /\ svc' = [svc EXCEPT ![c].aborted = TRUE]
    /\ UNCHANGED <<inUse, health>>

(* The abort is looked at before the credential, and fetch looks again.    *)
Aborted(c) ==
    /\ svc[c].aborted /\ svc[c].pc \in {"ready", "sent"}
    /\ svc' = [svc EXCEPT ![c].pc = "failed"]
    /\ UNCHANGED <<inUse, health>>

(* markStatus: a call that has no account blames the one in use.           *)
Blamed(c) == IF svc[c].account = NoAccount THEN inUse ELSE svc[c].account

\* Fault: the account in use now is blamed.
HealthOfInUse(c, status) ==
    health' = IF inUse = NoAccount THEN health ELSE [health EXCEPT ![inUse] = status]

HealthMarked(c, status) ==
    health' = IF Blamed(c) = NoAccount THEN health ELSE [health EXCEPT ![Blamed(c)] = status]

(* credentialAccess.get gives an account, the rejected one refreshed or    *)
(* another, and the request goes out.                                      *)
RequestSent(c, a) ==
    /\ svc[c].pc = "ready" /\ ~svc[c].aborted
    /\ inUse' = a
    /\ svc' = [svc EXCEPT
          ![c].pc = "sent", ![c].account = a, ![c].force = FALSE, ![c].rejected = NoAccount,
          ![c].requests = @ + 1, ![c].forced = IF svc[c].force THEN @ + 1 ELSE @]
    /\ UNCHANGED health

(* The next attempt, or the end of the call.                               *)
RetriesOrEnds(c) ==
    svc' = [svc EXCEPT ![c].account = NoAccount,
               ![c].pc = IF svc[c].attempt = MaxXaiTries THEN "failed" ELSE "ready",
               ![c].attempt = IF @ < MaxXaiTries THEN @ + 1 ELSE @]

(* The store or the token endpoint fails: the refresh asked for is still   *)
(* due.  Only what looks like a timeout is tried again.                    *)
NoCredential(c) ==
    /\ svc[c].pc = "ready" /\ ~svc[c].aborted
    /\ \E a \in MaybeAccount : inUse' = IF a = NoAccount THEN inUse ELSE a
    /\ \/ RetriesOrEnds(c)
       \/ svc' = [svc EXCEPT ![c].pc = "failed"]
    /\ UNCHANGED health

Answer(c, answer) ==
    /\ svc[c].pc = "sent" /\ ~svc[c].aborted
    /\ UNCHANGED inUse
    /\ \/ answer = "ok" /\ HealthMarked(c, "ok") /\ svc' = [svc EXCEPT ![c].pc = "answered"]
       \/ /\ answer \in Refusals /\ ~svc[c].refreshed
          /\ HealthMarked(c, "auth_failed")
          /\ svc' = [svc EXCEPT
                ![c].pc = "ready", ![c].force = TRUE, ![c].rejected = svc[c].account, ![c].refreshed = TRUE,
                ![c].account = NoAccount]
       \/ /\ answer \in Passing /\ (answer = "401" => svc[c].refreshed) /\ svc[c].attempt < MaxXaiTries
          /\ RetriesOrEnds(c) /\ UNCHANGED health
       \/ /\ answer \in Refusals => svc[c].refreshed
          /\ answer \in Passing => svc[c].attempt = MaxXaiTries
          /\ answer # "ok"
          /\ svc' = [svc EXCEPT ![c].pc = "failed"]
          /\ \/ answer \in {"spent", "403"} /\ HealthMarked(c, "quota")
             \/ answer = "401" /\ HealthMarked(c, "auth_failed")
             \/ answer \in {"bad", "busy", "slow"} /\ UNCHANGED health

ServiceNext ==
    \E c \in ServiceCalls :
       \/ CallerAborts(c) \/ Aborted(c) \/ NoCredential(c)
       \/ \E a \in PoolAccounts : RequestSent(c, a)
       \/ \E answer \in Refusals \cup {"ok", "busy", "slow", "spent", "bad"} : Answer(c, answer)

ServiceSpec == ServiceInit /\ [][ServiceNext]_serviceVars

(***************************************************************************)
(* Properties.                                                             *)
(***************************************************************************)

(* Retries stay within the budget: one request more than it, after the one *)
(* forced refresh that a call may ask for, and no request once its caller  *)
(* has given up.                                                           *)
RetriesBounded ==
    [][\A c \in ServiceCalls :
          /\ svc'[c].requests <= MaxXaiTries + 1 /\ svc'[c].forced <= 1
          /\ svc[c].aborted => svc'[c].requests = svc[c].requests]_serviceVars

(* An account loses its good standing only through a call whose last       *)
(* request it carried, whatever the calls beside it rotate to meanwhile.   *)
BlameIsEarned ==
    [][\A a \in PoolAccounts :
          health'[a] \notin {"ok", health[a]} =>
             \E c \in ServiceCalls : svc[c].pc = "sent" /\ svc[c].account = a /\ svc'[c].pc # "sent"]_serviceVars
====
