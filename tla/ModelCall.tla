---- MODULE ModelCall ----
(***************************************************************************)
(* One model call of the Responses runtime: callAI, the attempt loop of    *)
(* ai/transport/openAIResponsesTransport.js, and the reading of one event  *)
(* stream (responseStreamReader.js, responsesProtocol.js).                 *)
(*                                                                         *)
(* An output item is the event that last wrote it.  The terminal event may *)
(* carry an array of items too, and that array may miss some of them.      *)
(***************************************************************************)
EXTENDS Integers, FiniteSets

CONSTANTS
    Items,        \* output items of one response
    MaxAttempts   \* MAX_COLD_ATTEMPTS

ASSUME CallConstants == MaxAttempts \in Nat \ {0}

VARIABLES
    req,     \* the attempt loop
    strm     \* the stream being read, or the last one read

callVars == <<req, strm>>

Kinds == {"AUTH", "RATE_LIMIT", "QUOTA", "TRANSIENT", "TIMEOUT", "UNSUPPORTED_INPUT", "MALFORMED"}
Retryable == {"TRANSIENT", "RATE_LIMIT"}           \* isRetryableKind

(* What an HTTP status and its body mean.                                  *)
StatusKinds ==
    [s401 |-> {"AUTH"}, s403 |-> {"AUTH", "QUOTA"}, s429 |-> {"RATE_LIMIT", "QUOTA"}, s408 |-> {"TIMEOUT"},
     s504 |-> {"TIMEOUT"}, s5xx |-> {"TRANSIENT"}, s4xx |-> {"UNSUPPORTED_INPUT", "MALFORMED"}]

NoStream == [item |-> [i \in Items |-> "none"], seen |-> FALSE, status |-> "none",
             error |-> "none", malformed |-> FALSE, runsOn |-> FALSE]

CallTypeOK ==
    /\ req \in [pc : {"ready", "sent", "reading", "failed", "answered"}, attempt : 1..MaxAttempts + 1,
                refreshed : BOOLEAN, expired : BOOLEAN, kind : Kinds \cup {"none"},
                sent : 0..MaxAttempts + 1]
    /\ strm \in [item : [Items -> {"none", "added", "done", "array"}], seen : BOOLEAN,
                 status : {"none", "completed", "incomplete", "failed"},
                 error : Kinds \cup {"none"}, malformed : BOOLEAN, runsOn : BOOLEAN]

CallInit ==
    /\ req = [pc |-> "ready", attempt |-> 1, refreshed |-> FALSE, expired |-> FALSE,
              kind |-> "none", sent |-> 0]
    /\ strm = NoStream

Fail(kind) == req' = [req EXCEPT !.pc = "failed", !.kind = kind]

(* The next attempt, after a backoff cut short by the budget.              *)
Again == req' = [req EXCEPT !.pc = "ready", !.attempt = @ + 1]

(* A failure that may be replayed, while attempts are left.                *)
RetryOr(kind, unsafe) ==
    IF kind \in Retryable /\ ~unsafe /\ req.attempt < MaxAttempts THEN Again ELSE Fail(kind)

(***************************************************************************)
(* The attempt loop.                                                       *)
(***************************************************************************)
BudgetEnds ==
    /\ req.pc \in {"ready", "sent", "reading"} /\ ~req.expired
    /\ req' = [req EXCEPT !.expired = TRUE]
    /\ UNCHANGED strm

Send ==
    /\ req.pc = "ready" /\ ~req.expired /\ req.attempt <= MaxAttempts
    /\ req' = [req EXCEPT !.pc = "sent", !.sent = @ + 1]
    /\ strm' = NoStream

CannotSend ==
    /\ req.pc = "ready"
    /\ \/ req.expired /\ Fail("TIMEOUT")
       \/ ~req.expired /\ req.attempt > MaxAttempts /\ Fail("TRANSIENT")
       \/ ~req.expired /\ req.attempt <= MaxAttempts /\ Fail("AUTH")     \* credentials.get threw
    /\ UNCHANGED strm

Unreachable ==
    /\ req.pc = "sent"
    /\ IF req.expired THEN Fail("TIMEOUT") ELSE RetryOr("TRANSIENT", FALSE)
    /\ UNCHANGED strm

(* An HTTP error.  An AUTH failure is worth one refresh in a call, and a   *)
(* refresh that works costs no attempt.  A Retry-After that the budget     *)
(* does not cover ends the call.                                           *)
HttpFails(kind) ==
    /\ req.pc = "sent"
    /\ \/ RetryOr(kind, req.expired)                  \* with AUTH: no refresh left, or it failed
       \/ /\ kind = "AUTH" /\ ~req.refreshed
          /\ req' = [req EXCEPT !.pc = "ready", !.refreshed = TRUE]
    /\ UNCHANGED strm

WaitTooLong(kind) ==
    /\ req.pc = "sent" /\ kind \in Retryable /\ Fail(kind)
    /\ UNCHANGED strm

NotAStream == req.pc = "sent" /\ Fail("MALFORMED") /\ UNCHANGED strm

Opens == req.pc = "sent" /\ req' = [req EXCEPT !.pc = "reading"] /\ UNCHANGED strm

(***************************************************************************)
(* Events of the stream.                                                   *)
(***************************************************************************)
Reading == req.pc = "reading" /\ ~req.expired

(* _upsert: a completed item is final.                                     *)
Upsert(old, new) == IF old \in {"done", "array"} THEN old ELSE new

ItemEvent(i, event) ==
    /\ Reading /\ event \in {"added", "done"}
    /\ strm' = [strm EXCEPT !.item[i] = Upsert(@, event), !.seen = TRUE]
    /\ UNCHANGED req

Terminal(status, listed, complete) ==
    /\ Reading /\ strm.status = "none"
    /\ status = "completed" => complete = listed
    /\ strm' = [strm EXCEPT
         !.status = status,
         !.seen = @ \/ listed # {},
         !.item = [i \in Items |-> IF i \notin listed THEN @[i]
                                   ELSE Upsert(@[i], IF i \in complete THEN "array" ELSE "added")]]
    /\ UNCHANGED req

ErrorEvent(kind) ==
    /\ Reading /\ strm' = [strm EXCEPT !.error = kind] /\ UNCHANGED req

MalformedEvent ==
    /\ Reading /\ ~strm.malformed /\ strm' = [strm EXCEPT !.malformed = TRUE] /\ UNCHANGED req

(* A schedule_tasks call that streams fragments without end is cut.        *)
ScheduleRunsOn ==
    /\ Reading /\ \E i \in Items : strm.item[i] = "added"
    /\ RetryOr("TRANSIENT", FALSE)
    /\ strm' = [strm EXCEPT !.runsOn = TRUE]

Breaks ==
    /\ req.pc = "reading"
    /\ IF req.expired THEN Fail("TIMEOUT")
       ELSE RetryOr(IF strm.seen THEN "MALFORMED" ELSE "TRANSIENT", strm.seen)
    /\ UNCHANGED strm

(* The stream ended.  A stream with whole items and no terminal event is   *)
(* taken as it is.                                                         *)
Closes ==
    LET unfinished == \E i \in Items : strm.item[i] = "added"
        whole == \E i \in Items : strm.item[i] \in {"done", "array"}
    IN  /\ req.pc = "reading"
        /\ UNCHANGED strm
        /\ CASE strm.malformed -> RetryOr("MALFORMED", strm.seen)
             [] ~strm.malformed /\ strm.error # "none" -> RetryOr(strm.error, strm.seen)
             [] ~strm.malformed /\ strm.error = "none" ->
                  IF strm.status = "failed" \/ unfinished \/ (strm.status = "none" /\ strm.seen /\ ~whole)
                  THEN Fail("MALFORMED")
                  ELSE IF strm.status = "none" /\ ~strm.seen THEN RetryOr("TRANSIENT", FALSE)
                  ELSE req' = [req EXCEPT !.pc = "answered"]

CallNext ==
    \/ BudgetEnds \/ Send \/ CannotSend \/ Unreachable \/ NotAStream \/ Opens
    \/ MalformedEvent \/ ScheduleRunsOn \/ Breaks \/ Closes
    \/ \E status \in DOMAIN StatusKinds : \E kind \in StatusKinds[status] : HttpFails(kind) \/ WaitTooLong(kind)
    \/ \E kind \in Kinds : ErrorEvent(kind)
    \/ \E i \in Items : ItemEvent(i, "added") \/ ItemEvent(i, "done")
    \/ \E status \in {"completed", "incomplete", "failed"}, listed \in SUBSET Items :
          \E complete \in SUBSET listed : Terminal(status, listed, complete)

CallSpec == CallInit /\ [][CallNext]_callVars

(***************************************************************************)
(* Properties.                                                             *)
(***************************************************************************)

(* A request goes out again only when the answer to the last one had not   *)
(* begun: what the model has already said is not asked for twice,          *)
(* whichever way its stream ended.  The one exception is the code's own, a *)
(* schedule_tasks call that runs on.                                       *)
ReplaysNothing ==
    [][req.pc = "reading" /\ req'.pc = "ready" => ~strm.seen \/ strm'.runsOn]_callVars

(* An answer handed to the turn is whole: no item in it is unfinished, and *)
(* the stream reported no failure.                                         *)
AnswerIsWhole ==
    req.pc = "answered" =>
        /\ \A i \in Items : strm.item[i] # "added"
        /\ strm.error = "none" /\ strm.status # "failed" /\ ~strm.malformed
====
