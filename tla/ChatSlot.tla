---- MODULE ChatSlot ----
(***************************************************************************)
(* What the response lock and the batcher promise together: a conversation *)
(* is one slot.  Messages open it in the order they arrive, at most once   *)
(* each; it collects a batch, answers it, and only then is free again.     *)
(***************************************************************************)
EXTENDS Integers

CONSTANT Openers   \* messages, numbered in order of arrival

VARIABLES
    stage,    \* "free", "collecting" or "answering"
    working,  \* the openers at work: none or one
    served    \* messages that opened the slot so far

slotVars == <<stage, working, served>>

Init ==
    /\ stage = "free"
    /\ working = {}
    /\ served = {}

Open(m) ==
    /\ stage = "free"
    /\ \A s \in served : s < m
    /\ stage' = "collecting"
    /\ working' = {m}
    /\ served' = served \cup {m}

Answer ==
    /\ stage = "collecting"
    /\ stage' = "answering"
    /\ UNCHANGED <<working, served>>

Finish ==
    /\ stage = "answering"
    /\ stage' = "free"
    /\ working' = {}
    /\ UNCHANGED served

Next == (\E m \in Openers : Open(m)) \/ Answer \/ Finish

Spec == Init /\ [][Next]_slotVars
====
