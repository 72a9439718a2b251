---- MODULE ReminderPromise ----
(***************************************************************************)
(* What scheduled reminders promise their owners, whatever happens to the  *)
(* process that sends them: within an occurrence a destination receives a  *)
(* reminder at most once, a one-time reminder disappears as delivered only *)
(* when every destination has it, a reminder reported as failed or removed *)
(* by its owner sends nothing more, and a series only moves forward.       *)
(***************************************************************************)
EXTENDS Integers

CONSTANTS
    Tasks,      \* reminders
    Recurring,  \* those with a recurrence
    Dests,      \* destination keys
    DestsOf,    \* the destinations of each reminder
    MaxOcc      \* occurrences up to the UNTIL of a series

VARIABLES
    life,    \* new, stored, done, ended, removed or wiped
    occ,     \* the occurrence a reminder stands at
    failed,  \* a terminal failure is recorded on it
    got      \* destinations that received the current occurrence

vars == <<life, occ, failed, got>>

Init ==
    /\ life = [t \in Tasks |-> "new"]
    /\ occ = [t \in Tasks |-> 1]
    /\ failed = [t \in Tasks |-> FALSE]
    /\ got = [t \in Tasks |-> {}]

Create(t) ==
    /\ life[t] = "new"
    /\ life' = [life EXCEPT ![t] = "stored"]
    /\ UNCHANGED <<occ, failed, got>>

\* A message on its way when a wipe deletes the reminder still arrives.
Receive(t, d) ==
    /\ life[t] \in {"stored", "wiped"}
    /\ ~failed[t]
    /\ d \notin got[t]
    /\ got' = [got EXCEPT ![t] = @ \cup {d}]
    /\ UNCHANGED <<life, occ, failed>>

Deliver(t) ==
    /\ t \notin Recurring
    /\ life[t] = "stored"
    /\ got[t] = DestsOf[t]
    /\ life' = [life EXCEPT ![t] = "done"]
    /\ UNCHANGED <<occ, failed, got>>

Fail(t) ==
    /\ t \notin Recurring
    /\ life[t] = "stored"
    /\ ~failed[t]
    /\ failed' = [failed EXCEPT ![t] = TRUE]
    /\ UNCHANGED <<life, occ, got>>

Advance(t) ==
    /\ t \in Recurring
    /\ life[t] = "stored"
    /\ IF occ[t] < MaxOcc
       THEN /\ occ' = [occ EXCEPT ![t] = @ + 1]
            /\ got' = [got EXCEPT ![t] = {}]
            /\ life' = life
       ELSE /\ life' = [life EXCEPT ![t] = "ended"]
            /\ UNCHANGED <<occ, got>>
    /\ failed' = failed

Remove(t) ==
    /\ life[t] = "stored"
    /\ life' = [life EXCEPT ![t] = "removed"]
    /\ UNCHANGED <<occ, failed, got>>

WipeAll ==
    /\ life' = [t \in Tasks |-> IF life[t] = "stored" THEN "wiped" ELSE life[t]]
    /\ UNCHANGED <<occ, failed, got>>

Next ==
    \/ \E t \in Tasks : Create(t) \/ Deliver(t) \/ Fail(t) \/ Advance(t) \/ Remove(t)
    \/ \E t \in Tasks, d \in Dests : Receive(t, d)
    \/ WipeAll

Spec == Init /\ [][Next]_vars
====
