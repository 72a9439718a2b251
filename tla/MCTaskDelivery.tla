---- MODULE MCTaskDelivery ----
(* Small instances of TaskDelivery for TLC. *)
EXTENDS TaskDelivery

CONSTANTS once, series, wa, group

\* A one-time reminder for a user and a group, a series for the user.
MCDestsOf == [t \in Tasks |-> IF t = once THEN {wa, group} ELSE {wa}]
====
