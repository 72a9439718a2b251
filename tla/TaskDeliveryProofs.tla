---- MODULE TaskDeliveryProofs ----
(***************************************************************************)
(* Theorems about TaskDelivery for any set of reminders, any number of     *)
(* attempts, crashes and failed writes, and any claim lifetime.            *)
(***************************************************************************)
EXTENDS TaskDelivery, TLAPS

Working == {"round", "dispatch", "sending", "sent", "finalise"}

----
(* Types. *)

LEMMA NothingTyped ==
    /\ NoClaim \in Nat
    /\ NoStates \in [Dests -> Statuses]
    /\ NoSnap \in [Tasks -> [claim : Nat, status : [Dests -> Statuses]]]
    /\ Nobody \in [task : Tasks \cup {"none"}, claim : Nat]
    /\ NoDest \in Dests \cup {NoDest}
<1>1. NoClaim \in Nat
    BY DEF NoClaim
<1>2. NoStates \in [Dests -> Statuses]
    BY DEF NoStates, Statuses
<1>3. NoSnap \in [Tasks -> [claim : Nat, status : [Dests -> Statuses]]]
    BY <1>1, <1>2 DEF NoSnap
<1>4. Nobody \in [task : Tasks \cup {"none"}, claim : Nat]
    BY <1>1 DEF Nobody
<1> QED
    BY <1>1, <1>2, <1>3, <1>4

LEMMA TypeInit == Init => TypeOK
<1> SUFFICES ASSUME Init PROVE TypeOK
    OBVIOUS
<1>1. FileOK
    BY NothingTyped, TaskConstants DEF Init, FileOK, Lives
<1>2. CycleOK
  <2>1. round \in 1 .. MaxAttempts
      BY TaskConstants DEF Init
  <2>2. cur \in [task : Tasks \cup {"none"}, claim : Nat] /\ dest \in Dests \cup {NoDest}
        /\ snap \in [Tasks -> [claim : Nat, status : [Dests -> Statuses]]]
      BY NothingTyped DEF Init
  <2> QED BY <2>1, <2>2 DEF Init, CycleOK
<1>3. WorldOK /\ me \in Nat
    BY TaskConstants DEF Init, WorldOK
<1> QED
    BY <1>1, <1>2, <1>3 DEF TypeOK

LEMMA FileFrame == FileOK /\ UNCHANGED file => FileOK'
    BY DEF FileOK, file
LEMMA CycleFrame == CycleOK /\ UNCHANGED cycle => CycleOK'
    BY DEF CycleOK, cycle
LEMMA WorldFrame == WorldOK /\ UNCHANGED world => WorldOK'
    BY DEF WorldOK, world

\* So does the cycle when it has no task in hand.
LEMMA ForgetTyped ==
    ASSUME Forget
    PROVE /\ cur' \in [task : Tasks \cup {"none"}, claim : Nat]
          /\ round' \in 1 .. MaxAttempts
          /\ todo' \subseteq Dests
          /\ dest' \in Dests \cup {NoDest}
          /\ erred' \in BOOLEAN /\ outcome' \in BOOLEAN
<1>1. cur' \in [task : Tasks \cup {"none"}, claim : Nat]
    BY NothingTyped DEF Forget
<1>2. round' \in 1 .. MaxAttempts
    BY TaskConstants DEF Forget
<1>3. todo' \subseteq Dests
    BY DEF Forget
<1>4. dest' \in Dests \cup {NoDest}
    BY NothingTyped DEF Forget
<1>5. erred' \in BOOLEAN /\ outcome' \in BOOLEAN
    BY DEF Forget
<1> QED
    BY <1>1, <1>2, <1>3, <1>4, <1>5

\* DropClaim leaves the claim's fields well typed.
LEMMA DropClaimTyped ==
    ASSUME FileOK, NEW t \in Tasks, DropClaim(t)
    PROVE /\ claim' \in [Tasks -> Nat] /\ owner' \in [Tasks -> Nat]
          /\ left' \in [Tasks -> 0 .. ClaimTTL]
          /\ status' \in [Tasks -> [Dests -> Statuses]]
          /\ attempts' \in [Tasks -> [Dests -> 0 .. MaxAttempts]]
    BY NothingTyped, TaskConstants DEF FileOK, DropClaim

LEMMA TypeStep == TypeOK /\ [Next]_vars => TypeOK'
<1> SUFFICES ASSUME TypeOK, [Next]_vars PROVE TypeOK'
    OBVIOUS
<1>0. FileOK /\ CycleOK /\ WorldOK /\ me \in Nat
    BY DEF TypeOK
<1>1. CASE UNCHANGED vars
  <2>1. FileOK'
      BY <1>1, <1>0, FileFrame DEF vars
  <2>2. CycleOK'
      BY <1>1, <1>0, CycleFrame DEF vars
  <2>3. WorldOK' /\ me' \in Nat
      BY <1>1, <1>0, WorldFrame DEF vars
  <2> QED BY <2>1, <2>2, <2>3 DEF TypeOK
<1>2. CASE Prepare
  <2>1. FileOK'
      BY <1>2, <1>0, TaskConstants DEF Prepare, Interrupted, Statuses, FileOK
  <2>2. CycleOK'
      BY <1>2, <1>0, <2>1, TaskConstants DEF Prepare, FileOK, CycleOK
  <2>3. WorldOK' /\ me' \in Nat
      BY <1>2, <1>0, WorldFrame DEF Prepare
  <2> QED BY <2>1, <2>2, <2>3 DEF TypeOK
<1>3. CASE EndCycle
  <2>1. FileOK'
      BY <1>3, <1>0, FileFrame DEF EndCycle
  <2>2. CycleOK'
      BY <1>3, <1>0, NothingTyped DEF EndCycle, CycleOK
  <2>3. WorldOK' /\ me' \in Nat
      BY <1>3, <1>0, WorldFrame DEF EndCycle
  <2> QED BY <2>1, <2>2, <2>3 DEF TypeOK
<1>4. ASSUME NEW t \in Tasks, PickClaim(t) PROVE TypeOK'
  <2>1. FileOK'
      BY <1>4, <1>0, FileFrame DEF PickClaim
  <2>2. CycleOK'
      BY <1>4, <1>0, TaskConstants DEF PickClaim, Process, AllDelivered, CycleOK
  <2>3. WorldOK' /\ me' \in Nat
      BY <1>4, <1>0, WorldFrame DEF PickClaim
  <2> QED BY <2>1, <2>2, <2>3 DEF TypeOK
<1>5. ASSUME NEW t \in Tasks, PassBy(t) PROVE TypeOK'
  <2>1. FileOK'
      BY <1>5, <1>0, FileFrame DEF PassBy
  <2>2. CycleOK'
      BY <1>5, <1>0, TaskConstants DEF PassBy, CycleOK
  <2>3. WorldOK' /\ me' \in Nat
      BY <1>5, <1>0, WorldFrame DEF PassBy
  <2> QED BY <2>1, <2>2, <2>3 DEF TypeOK
<1>6. ASSUME NEW t \in Tasks, PickDue(t) PROVE TypeOK'
  <2>1. FileOK'
      BY <1>6, <1>0, TaskConstants DEF PickDue, Statuses, FileOK, WorldOK
  <2>2. CycleOK'
      BY <1>6, <1>0, TaskConstants DEF PickDue, Process, AllDelivered, CycleOK, WorldOK
  <2>3. WorldOK' /\ me' \in Nat
      BY <1>6, <1>0, TaskConstants DEF PickDue, WorldOK
  <2> QED BY <2>1, <2>2, <2>3 DEF TypeOK
<1>7. CASE ReadRound
  <2>1. FileOK'
      BY <1>7, <1>0, FileFrame DEF ReadRound
  <2>2. CycleOK'
      BY <1>7, <1>0, ForgetTyped DEF ReadRound, Cancelled, Pending, CycleOK
  <2>3. WorldOK' /\ me' \in Nat
      BY <1>7, <1>0, WorldFrame DEF ReadRound
  <2> QED BY <2>1, <2>2, <2>3 DEF TypeOK
<1>8. ASSUME NEW d \in Dests, Begin(d) PROVE TypeOK'
  <2>1. FileOK'
    <3>1. CASE UNCHANGED file
        BY <3>1, <1>0, FileFrame
    <3>2. CASE Mine /\ owner[cur.task] = me /\ d \in Pending(status[cur.task], attempts[cur.task])
               /\ ~UNCHANGED file
      <4>1. cur.task \in Tasks /\ attempts[cur.task][d] \in 0 .. MaxAttempts /\ attempts[cur.task][d] < MaxAttempts
          BY <1>8, <3>2, <1>0 DEF Begin, Pending, CycleOK, FileOK
      <4>2. status' = [status EXCEPT ![cur.task][d] = "sending"]
            /\ attempts' = [attempts EXCEPT ![cur.task][d] = @ + 1]
            /\ left' = [left EXCEPT ![cur.task] = ClaimTTL]
            /\ UNCHANGED <<life, occ, due, failure, claim, owner>>
          BY <1>8, <3>2 DEF Begin, NextAttempt
      <4> QED BY <4>1, <4>2, <1>8, <1>0, TaskConstants DEF FileOK, Statuses
    <3> QED BY <1>8, <3>1, <3>2 DEF Begin, file
  <2>2. CycleOK'
      BY <1>8, <1>0, ForgetTyped DEF Begin, Cancelled, CycleOK
  <2>3. WorldOK' /\ me' \in Nat
      BY <1>8, <1>0, WorldFrame DEF Begin
  <2> QED BY <2>1, <2>2, <2>3 DEF TypeOK
<1>9. CASE Accept
  <2>1. FileOK'
      BY <1>9, <1>0, FileFrame DEF Accept
  <2>2. CycleOK'
      BY <1>9, <1>0, TaskConstants DEF Accept, CycleOK
  <2>3. WorldOK' /\ me' \in Nat
      BY <1>9, <1>0 DEF Accept, WorldOK, CycleOK
  <2> QED BY <2>1, <2>2, <2>3 DEF TypeOK
<1>10. CASE Reject
  <2>1. FileOK'
      BY <1>10, <1>0, FileFrame DEF Reject
  <2>2. CycleOK'
      BY <1>10, <1>0 DEF Reject, CycleOK
  <2>3. WorldOK' /\ me' \in Nat
      BY <1>10, <1>0, WorldFrame DEF Reject
  <2> QED BY <2>1, <2>2, <2>3 DEF TypeOK
<1>11. CASE Settle
  <2>1. FileOK'
    <3>1. CASE UNCHANGED file
        BY <3>1, <1>0, FileFrame
    <3>2. CASE ~UNCHANGED file
      <4>1. PICK v \in Statuses : status' = [status EXCEPT ![cur.task][dest] = v]
        <5>1. SettledAs(erred, attempts[cur.task][dest]) \in Statuses
            BY DEF SettledAs, Statuses
        <5>2. status' = [status EXCEPT ![cur.task][dest] = SettledAs(erred, attempts[cur.task][dest])]
            BY <1>11, <3>2 DEF Settle, file
        <5> QED BY <5>1, <5>2, Zenon
      <4>5. left' = [left EXCEPT ![cur.task] = ClaimTTL]
          BY <1>11, <3>2 DEF Settle, file
      <4>6. UNCHANGED <<life, occ, due, failure, claim, owner, attempts>>
          BY <1>11, <3>2 DEF Settle, file
      <4>3. status' \in [Tasks -> [Dests -> Statuses]]
        <5>1. cur.task \in Tasks /\ dest \in Dests
            BY <1>11, <1>0 DEF Settle, CycleOK
        <5>2. status \in [Tasks -> [Dests -> Statuses]]
            BY <1>0 DEF FileOK
        <5> QED BY <4>1, <5>1, <5>2
      <4>4. left' \in [Tasks -> 0 .. ClaimTTL]
        <5>1. left \in [Tasks -> 0 .. ClaimTTL] /\ ClaimTTL \in 0 .. ClaimTTL
            BY <1>0, TaskConstants DEF FileOK
        <5> QED BY <4>5, <5>1
      <4> QED BY <4>3, <4>4, <4>6, <1>0 DEF FileOK
    <3> QED BY <3>1, <3>2
  <2>2. CycleOK'
      BY <1>11, <1>0, ForgetTyped, NothingTyped DEF Settle, CycleOK
  <2>3. WorldOK' /\ me' \in Nat
      BY <1>11, <1>0, WorldFrame DEF Settle
  <2> QED BY <2>1, <2>2, <2>3 DEF TypeOK
<1>12. CASE EndRound
  <2>1. FileOK'
      BY <1>12, <1>0, FileFrame DEF EndRound
  <2>2. CycleOK'
    <3>1. CASE Cancelled
        BY <1>12, <3>1, <1>0, ForgetTyped DEF EndRound, Cancelled, CycleOK
    <3>2. CASE Mine
      <4>1. round' \in 1 .. MaxAttempts
          BY <1>12, <3>2, <1>0, TaskConstants DEF EndRound, Cancelled, CycleOK
      <4>2. outcome' \in BOOLEAN
          BY <1>12, <3>2, <1>0 DEF EndRound, Cancelled, OutcomeNow, AllDelivered, CycleOK
      <4>3. pc' \in {"round", "finalise"} /\ UNCHANGED <<resume, fresh, snap, cur, todo, dest, erred>>
          BY <1>12, <3>2 DEF EndRound, Cancelled
      <4> QED BY <1>12, <4>1, <4>2, <4>3, <1>0 DEF EndRound, CycleOK
    <3> QED BY <1>12, <3>1, <3>2 DEF EndRound
  <2>3. WorldOK' /\ me' \in Nat
      BY <1>12, <1>0, WorldFrame DEF EndRound
  <2> QED BY <2>1, <2>2, <2>3 DEF TypeOK
<1>13. CASE Finalise
  <2>1. FileOK'
    <3>1. CASE ~Mine
        BY <1>13, <3>1, <1>0, FileFrame DEF Finalise, Continues
    <3>2. CASE Mine
      <4>1. cur.task \in Tasks
          BY <1>13, <1>0 DEF Finalise, Continues, CycleOK
      <4>2. DropClaim(cur.task)
          BY <1>13, <3>2 DEF Finalise, Continues
      <4>3. life' \in [Tasks -> Lives] /\ due' \in [Tasks -> BOOLEAN]
          BY <1>13, <3>2, <4>1, <1>0 DEF Finalise, Continues, Lives, FileOK
      <4>5. failure' \in [Tasks -> BOOLEAN]
        <5>1. (cur.task \notin Recurring /\ ~outcome) \in BOOLEAN
            OBVIOUS
        <5>2. failure' = [failure EXCEPT ![cur.task] = cur.task \notin Recurring /\ ~outcome]
            BY <1>13, <3>2, Zenon DEF Finalise, Continues
        <5> QED BY <5>1, <5>2, <1>0, Zenon DEF FileOK
      <4>4. occ' \in [Tasks -> 1 .. MaxOcc]
        <5>1. \/ occ' = occ
              \/ occ[cur.task] < MaxOcc /\ occ' = [occ EXCEPT ![cur.task] = @ + 1]
            BY <1>13, <3>2, Zenon DEF Finalise, Continues
        <5> QED BY <5>1, <1>0, <4>1, TaskConstants DEF FileOK
      <4> QED BY <4>1, <4>2, <4>3, <4>4, <4>5, <1>0, DropClaimTyped DEF FileOK
    <3> QED BY <3>1, <3>2
  <2>2. CycleOK'
      BY <1>13, <1>0, ForgetTyped DEF Finalise, Continues, CycleOK
  <2>3. WorldOK' /\ me' \in Nat
      BY <1>13, <1>0 DEF Finalise, Continues, WorldOK, CycleOK
  <2> QED BY <2>1, <2>2, <2>3 DEF TypeOK
<1>14. CASE IoFails
  <2>1. FileOK'
      BY <1>14, <1>0, FileFrame DEF IoFails
  <2>2. CycleOK'
      BY <1>14, <1>0, ForgetTyped DEF IoFails, CycleOK
  <2>3. WorldOK' /\ me' \in Nat
      BY <1>14, <1>0, TaskConstants DEF IoFails, WorldOK
  <2> QED BY <2>1, <2>2, <2>3 DEF TypeOK
<1>15. CASE Crash
  <2>1. FileOK'
      BY <1>15, <1>0, FileFrame DEF Crash
  <2>2. CycleOK'
      BY <1>15, <1>0, ForgetTyped, NothingTyped DEF Crash, CycleOK
  <2>3. WorldOK' /\ me' \in Nat
      BY <1>15, <1>0, TaskConstants DEF Crash, WorldOK
  <2> QED BY <2>1, <2>2, <2>3 DEF TypeOK
<1>16. CASE Restart
  <2>1. FileOK'
      BY <1>16, <1>0, FileFrame DEF Restart
  <2>2. CycleOK'
      BY <1>16, <1>0 DEF Restart, CycleOK
  <2>3. WorldOK' /\ me' \in Nat
      BY <1>16, <1>0, WorldFrame DEF Restart
  <2> QED BY <2>1, <2>2, <2>3 DEF TypeOK
<1>17. ASSUME NEW t \in Tasks, Create(t) PROVE TypeOK'
  <2>1. FileOK'
      BY <1>17, <1>0 DEF Create, Lives, FileOK
  <2>2. CycleOK'
      BY <1>17, <1>0, CycleFrame DEF Create
  <2>3. WorldOK' /\ me' \in Nat
      BY <1>17, <1>0, WorldFrame DEF Create
  <2> QED BY <2>1, <2>2, <2>3 DEF TypeOK
<1>18. ASSUME NEW t \in Tasks, ComesDue(t) PROVE TypeOK'
  <2>1. FileOK'
      BY <1>18, <1>0 DEF ComesDue, FileOK
  <2>2. CycleOK'
      BY <1>18, <1>0, CycleFrame DEF ComesDue
  <2>3. WorldOK' /\ me' \in Nat
      BY <1>18, <1>0, WorldFrame DEF ComesDue
  <2> QED BY <2>1, <2>2, <2>3 DEF TypeOK
<1>19. ASSUME NEW t \in Tasks, Remove(t) PROVE TypeOK'
  <2>1. FileOK'
      BY <1>19, <1>0, DropClaimTyped DEF Remove, Lives, FileOK
  <2>2. CycleOK'
      BY <1>19, <1>0, CycleFrame DEF Remove
  <2>3. WorldOK' /\ me' \in Nat
      BY <1>19, <1>0, WorldFrame DEF Remove
  <2> QED BY <2>1, <2>2, <2>3 DEF TypeOK
<1>20. CASE Wipe
  <2>1. FileOK'
      BY <1>20, <1>0, NothingTyped, TaskConstants DEF Wipe, Lives, FileOK
  <2>2. CycleOK'
      BY <1>20, <1>0, CycleFrame DEF Wipe
  <2>3. WorldOK' /\ me' \in Nat
      BY <1>20, <1>0, WorldFrame DEF Wipe
  <2> QED BY <2>1, <2>2, <2>3 DEF TypeOK
<1>21. CASE Tick
  <2>1. FileOK'
      BY <1>21, <1>0, TaskConstants DEF Tick, Down, FileOK
  <2>2. CycleOK'
      BY <1>21, <1>0, CycleFrame DEF Tick
  <2>3. WorldOK' /\ me' \in Nat
      BY <1>21, <1>0, WorldFrame DEF Tick
  <2> QED BY <2>1, <2>2, <2>3 DEF TypeOK
<1> QED
    BY <1>1, <1>2, <1>3, <1>4, <1>5, <1>6, <1>7, <1>8, <1>9, <1>10, <1>11, <1>12, <1>13,
       <1>14, <1>15, <1>16, <1>17, <1>18, <1>19, <1>20, <1>21 DEF Next, Delivery

\* The file and the cycle only hold the values the code puts there.
THEOREM TypeCorrect == Spec => []TypeOK
    BY TypeInit, TypeStep, PTL DEF Spec

----
(* The inductive invariant. *)

\* What the file says of a reminder without a claim.
ClaimInv ==
    \A t \in Tasks :
        /\ life[t] # "stored" => claim[t] = NoClaim
        /\ claim[t] = NoClaim => status[t] = NoStates
        /\ failure[t] => claim[t] = NoClaim /\ t \notin Recurring
        /\ life[t] = "new" => ~failure[t]

\* The cycle works under claims of its own instance, and a claim its snapshot
\* shows is as the snapshot shows it until the cycle comes to it.
HandInv ==
    /\ pc \notin Working \cup {"pick"} => resume = {}
    /\ pc \in Working => cur.claim # NoClaim /\ cur.task \notin resume
    /\ pc \in Working /\ Mine => owner[cur.task] = me
    /\ \A t \in resume :
          /\ snap[t].claim # NoClaim
          /\ claim[t] = snap[t].claim => owner[t] = me /\ status[t] = snap[t].status

\* What a claim says of a destination, against what WhatsApp accepted.
SendInv ==
    \A t \in Tasks, d \in Dests :
        /\ status[t][d] # "none" => d \in DestsOf[t]
        /\ accepted[t][d] > 0 => d \in DestsOf[t]
        /\ status[t][d] = "delivered" => accepted[t][d] > 0
        /\ life[t] \in {"stored", "new"} /\ claim[t] = NoClaim /\ ~failure[t] => accepted[t][d] = 0
        /\ ~LostAcks => accepted[t][d] <= 1
        /\ ~LostAcks /\ status[t][d] \in {"pending", "failed"} => accepted[t][d] = 0

\* A message on its way belongs to a send the file records, unless a wipe has
\* deleted the file.
FlightInv ==
    pc \in {"sending", "sent"} =>
        /\ dest \in DestsOf[cur.task]
        /\ ~failure[cur.task]
        /\ life[cur.task] = "wiped" \/ (Mine /\ status[cur.task][dest] = "sending")
        /\ pc = "sending" /\ ~LostAcks => accepted[cur.task][dest] = 0
        /\ pc = "sent" /\ ~erred => accepted[cur.task][dest] > 0
        /\ pc = "sent" /\ erred /\ ~LostAcks => accepted[cur.task][dest] = 0

OutcomeInv ==
    pc = "finalise" /\ Mine /\ outcome => AllDelivered(cur.task, status[cur.task])

\* Attempts are counted before the send they count.
BoundInv ==
    /\ \A t \in Tasks, d \in Dests :
          /\ accepted[t][d] <= MaxAttempts
          /\ claim[t] # NoClaim => accepted[t][d] <= attempts[t][d]
    /\ pc = "sending" =>
          /\ accepted[cur.task][dest] < MaxAttempts
          /\ Mine => accepted[cur.task][dest] < attempts[cur.task][dest]

DeliveryInv == TypeOK /\ ClaimInv /\ HandInv /\ SendInv /\ FlightInv /\ OutcomeInv /\ BoundInv

\* The actions that write to the file, with what each of them writes.
LEMMA FileWriters ==
    ASSUME [Next]_vars, ~UNCHANGED file
    PROVE \/ Prepare
          \/ \E t \in Tasks : PickDue(t) \/ Create(t) \/ ComesDue(t) \/ Remove(t)
          \/ \E d \in Dests : Begin(d) /\ Mine
          \/ Settle /\ Mine
          \/ Finalise /\ Mine
          \/ Wipe
          \/ Tick
<1>1. ASSUME NEW d \in Dests, Begin(d) PROVE Mine
    BY <1>1 DEF Begin, Cancelled
<1>2. ASSUME Settle PROVE Mine
    BY <1>2 DEF Settle
<1>3. ASSUME Finalise PROVE Mine
    BY <1>3 DEF Finalise, Continues, file
<1>4. UNCHANGED file \/ ~(EndCycle \/ ReadRound \/ EndRound \/ Accept \/ Reject \/ IoFails \/ Crash \/ Restart
                         \/ \E t \in Tasks : PickClaim(t) \/ PassBy(t))
    BY DEF EndCycle, ReadRound, EndRound, Accept, Reject, IoFails, Crash, Restart, PickClaim, PassBy
<1>5. ~UNCHANGED vars
    BY DEF vars
<1> QED
    BY <1>1, <1>2, <1>3, <1>4, <1>5 DEF Next, Delivery

\* What a settlement does to the claim and to the cycle.
LEMMA SettleEffect ==
    ASSUME TypeOK, Settle, ~UNCHANGED file
    PROVE /\ cur.task \in Tasks /\ dest \in Dests /\ Mine
          /\ status[cur.task][dest] = "sending"
          /\ \E v \in Statuses :
                /\ status' = [status EXCEPT ![cur.task][dest] = v]
                /\ v \in {"delivered", "failed", "pending"}
                /\ v = "delivered" <=> ~erred
          /\ UNCHANGED <<life, occ, due, failure, claim, owner, attempts, cur, round, todo, outcome>>
          /\ UNCHANGED <<me, resume, fresh, snap, world>>
          /\ pc' = "dispatch"
<1>1. pc = "sent" /\ cur.task \in Tasks /\ dest \in Dests /\ erred \in BOOLEAN
    BY DEF Settle, TypeOK, CycleOK
<1>2. Mine /\ status[cur.task][dest] = "sending"
    BY Zenon DEF Settle
<1>3. status' = [status EXCEPT ![cur.task][dest] = SettledAs(erred, attempts[cur.task][dest])]
    BY <1>2, Zenon DEF Settle
<1>4. /\ SettledAs(erred, attempts[cur.task][dest]) \in {"delivered", "failed", "pending"}
      /\ SettledAs(erred, attempts[cur.task][dest]) = "delivered" <=> ~erred
    BY DEF SettledAs
<1>5. /\ UNCHANGED <<life, occ, due, failure, claim, owner, attempts, cur, round, todo, outcome>>
      /\ UNCHANGED <<me, resume, fresh, snap, world>>
      /\ pc' = "dispatch"
    BY <1>2 DEF Settle
<1>6. SettledAs(erred, attempts[cur.task][dest]) \in Statuses
    BY <1>4 DEF Statuses
<1> QED
    BY <1>1, <1>2, <1>3, <1>4, <1>5, <1>6, Zenon

\* What the record of an attempt does to the claim and to the cycle.
LEMMA BeginEffect ==
    ASSUME TypeOK, NEW d \in Dests, Begin(d), ~UNCHANGED file
    PROVE /\ cur.task \in Tasks /\ Mine
          /\ owner[cur.task] = me
          /\ status[cur.task][d] = "pending" /\ attempts[cur.task][d] < MaxAttempts
          /\ status' = [status EXCEPT ![cur.task][d] = "sending"]
          /\ attempts' = [attempts EXCEPT ![cur.task][d] = @ + 1]
          /\ UNCHANGED <<life, occ, due, failure, claim, owner, cur, round, erred, outcome>>
          /\ UNCHANGED <<me, resume, fresh, snap, world>>
          /\ pc' = "sending" /\ dest' = d
    BY DEF Begin, Pending, NextAttempt, TypeOK, CycleOK, file, Cancelled

LEMMA ClaimStep == DeliveryInv /\ [Next]_vars => ClaimInv'
<1> SUFFICES ASSUME DeliveryInv, [Next]_vars PROVE ClaimInv'
    OBVIOUS
<1>0. TypeOK /\ FileOK /\ CycleOK /\ ClaimInv /\ HandInv
    BY DEF DeliveryInv, TypeOK
<1>1. CASE UNCHANGED file
    BY <1>0, <1>1 DEF ClaimInv, file
<1>2. CASE Prepare
    BY <1>0, <1>2 DEF Prepare, Stale, ClaimInv, FileOK
<1>3. ASSUME NEW t \in Tasks, PickDue(t) PROVE ClaimInv'
    BY <1>0, <1>3 DEF PickDue, DueNow, ClaimInv, FileOK, WorldOK, TypeOK, NoClaim
<1>4. ASSUME NEW t \in Tasks, Create(t) PROVE ClaimInv'
    BY <1>0, <1>4 DEF Create, ClaimInv, FileOK
<1>5. ASSUME NEW t \in Tasks, ComesDue(t) PROVE ClaimInv'
    BY <1>0, <1>5 DEF ComesDue, ClaimInv, FileOK
<1>6. ASSUME NEW t \in Tasks, Remove(t) PROVE ClaimInv'
    BY <1>0, <1>6 DEF Remove, DropClaim, ClaimInv, FileOK
<1>7. ASSUME NEW d \in Dests, Begin(d), ~UNCHANGED file PROVE ClaimInv'
  <2>1. cur.task \in Tasks /\ claim[cur.task] # NoClaim
      BY <1>0, <1>7, BeginEffect DEF Begin, Mine, HandInv, Working
  <2>2. \A t \in Tasks : status'[t] = status[t] \/ t = cur.task
      BY <1>0, <1>7, BeginEffect DEF FileOK
  <2> QED BY <1>0, <1>7, <2>1, <2>2, BeginEffect DEF ClaimInv
<1>8. CASE Settle /\ ~UNCHANGED file
  <2>1. cur.task \in Tasks /\ claim[cur.task] # NoClaim
      BY <1>0, <1>8, SettleEffect DEF Settle, Mine, HandInv, Working
  <2>2. \A t \in Tasks : status'[t] = status[t] \/ t = cur.task
      BY <1>0, <1>8, SettleEffect DEF FileOK
  <2> QED BY <1>0, <1>8, <2>1, <2>2, SettleEffect DEF ClaimInv
<1>9. CASE Finalise /\ Mine
  <2>1. \A t \in Tasks : t # cur.task => life'[t] = life[t] /\ failure'[t] = failure[t]
                                          /\ claim'[t] = claim[t] /\ status'[t] = status[t]
      BY <1>0, <1>9 DEF Finalise, Continues, DropClaim, FileOK
  <2>2. cur.task \in Tasks => claim'[cur.task] = NoClaim /\ status'[cur.task] = NoStates
      BY <1>0, <1>9 DEF Finalise, Continues, DropClaim, FileOK
  <2>3. failure'[cur.task] => cur.task \notin Recurring
      BY <1>0, <1>9 DEF Finalise, Continues, FileOK, CycleOK
  <2>4. life'[cur.task] # "new"
      BY <1>0, <1>9 DEF Finalise, Continues, FileOK, CycleOK, Mine
  <2> QED BY <1>0, <2>1, <2>2, <2>3, <2>4 DEF ClaimInv
<1>10. CASE Wipe
    BY <1>0, <1>10 DEF Wipe, ClaimInv, FileOK
<1>11. CASE Tick
    BY <1>0, <1>11 DEF Tick, ClaimInv, FileOK
<1> QED
    BY <1>1, <1>2, <1>3, <1>4, <1>5, <1>6, <1>7, <1>8, <1>9, <1>10, <1>11, FileWriters

\* What a finalisation does, under the claim the task was taken with.
LEMMA FinaliseEffect ==
    ASSUME TypeOK, Finalise, Mine
    PROVE /\ cur.task \in Tasks
          /\ DropClaim(cur.task)
          /\ \A t \in Tasks : t # cur.task =>
                /\ life'[t] = life[t] /\ failure'[t] = failure[t] /\ claim'[t] = claim[t]
                /\ owner'[t] = owner[t] /\ status'[t] = status[t] /\ accepted'[t] = accepted[t]
                /\ attempts'[t] = attempts[t]
          /\ claim'[cur.task] = NoClaim /\ status'[cur.task] = NoStates
          /\ pc' = "pick" /\ Forget
          /\ UNCHANGED <<me, resume, fresh, snap, lastClaim>>
    BY DEF Finalise, Continues, DropClaim, TypeOK, FileOK, CycleOK, WorldOK

LEMMA HandStep == DeliveryInv /\ [Next]_vars => HandInv'
<1> SUFFICES ASSUME DeliveryInv, [Next]_vars PROVE HandInv'
    OBVIOUS
<1>0. TypeOK /\ FileOK /\ CycleOK /\ WorldOK /\ me \in Nat /\ ClaimInv /\ HandInv
    BY DEF DeliveryInv, TypeOK
<1> USE DEF Working
<1>1. CASE UNCHANGED vars
    BY <1>0, <1>1 DEF HandInv, Mine, vars, file, cycle
<1>2. CASE Prepare
    BY <1>0, <1>2 DEF Prepare, HandInv, FileOK
<1>3. CASE EndCycle
    BY <1>0, <1>3 DEF EndCycle, HandInv
<1>4. ASSUME NEW t \in Tasks, PickClaim(t) PROVE HandInv'
  <2>1. cur'.task = t /\ cur'.claim = snap[t].claim /\ resume' = resume \ {t} /\ pc' \in Working
        /\ UNCHANGED <<life, claim, owner, status, me, snap>>
      BY <1>4 DEF PickClaim, Process, file
  <2>2. snap[t].claim # NoClaim /\ (claim[t] = snap[t].claim => owner[t] = me)
      BY <1>0, <1>4 DEF PickClaim, HandInv
  <2> QED BY <1>0, <2>1, <2>2 DEF HandInv, Mine
<1>5. ASSUME NEW t \in Tasks, PassBy(t) PROVE HandInv'
    BY <1>0, <1>5 DEF PassBy, HandInv
<1>6. ASSUME NEW t \in Tasks, PickDue(t) PROVE HandInv'
  <2>1. cur'.task = t /\ cur'.claim = lastClaim + 1 /\ resume' = {} /\ resume = {} /\ owner'[t] = me /\ me' = me
        /\ pc' \in Working
      BY <1>0, <1>6 DEF PickDue, Process, FileOK
  <2> QED BY <1>0, <2>1 DEF HandInv, WorldOK, NoClaim
<1>7. CASE ReadRound
    BY <1>0, <1>7 DEF ReadRound, Cancelled, Forget, HandInv, Mine, file
<1>8. ASSUME NEW d \in Dests, Begin(d), UNCHANGED file PROVE HandInv'
    BY <1>0, <1>8 DEF Begin, Cancelled, Forget, HandInv, Mine, file
<1>9. ASSUME NEW d \in Dests, Begin(d), ~UNCHANGED file PROVE HandInv'
  <2>1. \A t \in resume : status'[t] = status[t]
    <3>1. cur.task \notin resume /\ resume \subseteq Tasks
        BY <1>0, <1>9 DEF Begin, HandInv, CycleOK
    <3>2. status' = [status EXCEPT ![cur.task][d] = "sending"]
        BY <1>0, <1>9, BeginEffect
    <3> QED BY <1>0, <3>1, <3>2 DEF FileOK
  <2>2. pc \in Working
      BY <1>9 DEF Begin
  <2>3. UNCHANGED <<life, claim, owner, cur, me, resume, snap>> /\ pc' = "sending"
      BY <1>0, <1>9, BeginEffect
  <2> QED BY <1>0, <2>1, <2>2, <2>3 DEF HandInv, Mine
<1>10. CASE Accept \/ Reject
    BY <1>0, <1>10 DEF Accept, Reject, HandInv, Mine, file
<1>11. CASE Settle /\ UNCHANGED file
    BY <1>0, <1>11 DEF Settle, Forget, HandInv, Mine, file
<1>12. CASE Settle /\ ~UNCHANGED file
  <2>1. \A t \in resume : status'[t] = status[t]
    <3>1. cur.task \notin resume /\ resume \subseteq Tasks
        BY <1>0, <1>12 DEF Settle, HandInv, CycleOK
    <3>2. PICK v \in Statuses : status' = [status EXCEPT ![cur.task][dest] = v]
        BY <1>0, <1>12, SettleEffect
    <3> QED BY <1>0, <3>1, <3>2 DEF FileOK
  <2>2. pc \in Working
      BY <1>12 DEF Settle
  <2>3. UNCHANGED <<life, claim, owner, cur, me, resume, snap>> /\ pc' = "dispatch"
      BY <1>0, <1>12, SettleEffect
  <2> QED BY <1>0, <2>1, <2>2, <2>3 DEF HandInv, Mine
<1>13. CASE EndRound
    BY <1>0, <1>13 DEF EndRound, Cancelled, Forget, HandInv, Mine, file
<1>14. CASE Finalise /\ ~Mine
    BY <1>0, <1>14 DEF Finalise, Continues, Forget, HandInv, file
<1>15. CASE Finalise /\ Mine
  <2>1. pc' = "pick" /\ cur.task \notin resume /\ resume \subseteq Tasks
      BY <1>0, <1>15 DEF Finalise, Continues, HandInv, CycleOK
  <2> QED BY <1>0, <1>15, <2>1, FinaliseEffect DEF HandInv
<1>16. CASE IoFails
    BY <1>0, <1>16 DEF IoFails, Forget, HandInv, file
<1>17. CASE Crash
    BY <1>0, <1>17 DEF Crash, HandInv
<1>18. CASE Restart
    BY <1>0, <1>18 DEF Restart, HandInv
<1>19. ASSUME NEW t \in Tasks, Create(t) \/ ComesDue(t) PROVE HandInv'
    BY <1>0, <1>19 DEF Create, ComesDue, HandInv, Mine, ClaimInv, CycleOK, FileOK, cycle
<1>20. ASSUME NEW t \in Tasks, Remove(t) PROVE HandInv'
    BY <1>0, <1>20 DEF Remove, DropClaim, HandInv, Mine, CycleOK, FileOK, cycle
<1>21. CASE Wipe
    BY <1>0, <1>21 DEF Wipe, HandInv, Mine, CycleOK, FileOK, cycle
<1>22. CASE Tick
    BY <1>0, <1>22 DEF Tick, HandInv, Mine, cycle
<1> QED
    BY <1>1, <1>2, <1>3, <1>4, <1>5, <1>6, <1>7, <1>8, <1>9, <1>10, <1>11, <1>12, <1>13, <1>14, <1>15,
       <1>16, <1>17, <1>18, <1>19, <1>20, <1>21, <1>22 DEF Next, Delivery

LEMMA OutcomeStep == DeliveryInv /\ [Next]_vars => OutcomeInv'
<1> SUFFICES ASSUME DeliveryInv, [Next]_vars, pc' = "finalise", Mine', outcome'
             PROVE AllDelivered(cur'.task, status'[cur'.task])
    BY DEF OutcomeInv, AllDelivered
<1>0. TypeOK /\ FileOK /\ CycleOK /\ WorldOK /\ HandInv /\ OutcomeInv
    BY DEF DeliveryInv, TypeOK
<1>1. ASSUME NEW t \in Tasks, PickClaim(t) PROVE AllDelivered(cur'.task, status'[cur'.task])
  <2>1. cur'.task = t /\ cur'.claim = snap[t].claim /\ UNCHANGED <<claim, life, status>>
      BY <1>1 DEF PickClaim, Process, file
  <2>2. status[t] = snap[t].status
      BY <1>0, <1>1, <2>1 DEF PickClaim, HandInv, Mine
  <2>3. AllDelivered(t, snap[t].status)
      BY <1>1, Zenon DEF PickClaim, Process
  <2> QED BY <2>1, <2>2, <2>3
<1>2. ASSUME NEW t \in Tasks, PickDue(t) PROVE AllDelivered(cur'.task, status'[cur'.task])
  <2> DEFINE states == [d \in Dests |-> IF d \in DestsOf[t] THEN "pending" ELSE "none"]
  <2>1. cur'.task = t
      BY <1>2 DEF PickDue, Process
  <2>2. status' = [status EXCEPT ![t] = states]
      BY <1>2, Zenon DEF PickDue
  <2>3. AllDelivered(t, states)
      BY <1>2, Zenon DEF PickDue, Process
  <2>4. status'[t] = states
      BY <2>2, <1>0 DEF FileOK
  <2> HIDE DEF states
  <2> QED BY <2>1, <2>3, <2>4
<1>3. ASSUME EndRound PROVE AllDelivered(cur'.task, status'[cur'.task])
  <2>1. Mine /\ UNCHANGED <<cur, status>>
      BY <1>3 DEF EndRound, Cancelled, file
  <2>2. outcome' = OutcomeNow
      BY <1>3, <2>1, Zenon DEF EndRound, Cancelled
  <2>3. AllDelivered(cur.task, status[cur.task])
      BY <2>2, Zenon DEF OutcomeNow
  <2> QED BY <2>1, <2>3
<1>4. ASSUME pc = "finalise", UNCHANGED <<cur, outcome>>, Mine, status'[cur.task] = status[cur.task]
      PROVE AllDelivered(cur'.task, status'[cur'.task])
    BY <1>0, <1>4 DEF OutcomeInv
<1>5. CASE UNCHANGED vars
    BY <1>4, <1>5 DEF vars, file, cycle, Mine
<1>6. ASSUME NEW t \in Tasks, Create(t) \/ ComesDue(t) PROVE AllDelivered(cur'.task, status'[cur'.task])
    BY <1>0, <1>4, <1>6 DEF Create, ComesDue, cycle, Mine, HandInv, Working, DeliveryInv, ClaimInv, CycleOK, FileOK
<1>7. ASSUME NEW t \in Tasks, Remove(t) PROVE AllDelivered(cur'.task, status'[cur'.task])
    BY <1>0, <1>4, <1>7 DEF Remove, DropClaim, cycle, Mine, CycleOK, FileOK
<1>8. CASE Wipe
    BY <1>0, <1>8 DEF Wipe, cycle, Mine, CycleOK, FileOK
<1>9. CASE Tick
    BY <1>4, <1>9 DEF Tick, cycle, Mine
<1>10. ~(Prepare \/ EndCycle \/ ReadRound \/ Accept \/ Reject \/ Settle \/ Finalise \/ IoFails \/ Crash \/ Restart)
       /\ ~(\E t \in Tasks : PassBy(t)) /\ ~(\E d \in Dests : Begin(d))
    BY DEF Prepare, EndCycle, ReadRound, Accept, Reject, Settle, Finalise, Continues, IoFails, Crash, Restart, PassBy, Begin,
           Cancelled
<1> QED
    BY <1>1, <1>2, <1>3, <1>5, <1>6, <1>7, <1>8, <1>9, <1>10 DEF Next, Delivery

LEMMA SendStep == DeliveryInv /\ [Next]_vars => SendInv'
<1> SUFFICES ASSUME DeliveryInv, [Next]_vars PROVE SendInv'
    OBVIOUS
<1>0. TypeOK /\ FileOK /\ CycleOK /\ WorldOK /\ ClaimInv /\ HandInv /\ SendInv /\ FlightInv
    BY DEF DeliveryInv, TypeOK
<1>1. CASE UNCHANGED <<file, accepted>>
    BY <1>0, <1>1 DEF SendInv, file
<1>2. CASE Prepare
  <2>1. \A t \in Tasks, d \in Dests :
          status'[t][d] = status[t][d] \/ (status[t][d] = "sending" /\ status'[t][d] = "unknown")
      BY <1>0, <1>2 DEF Prepare, Interrupted, FileOK
  <2>2. UNCHANGED <<life, claim, failure, accepted>>
      BY <1>2 DEF Prepare, world
  <2> QED BY <1>0, <2>1, <2>2 DEF SendInv
<1>3. ASSUME NEW t \in Tasks, PickDue(t) PROVE SendInv'
  <2>1. \A d \in Dests : accepted[t][d] = 0
      BY <1>0, <1>3 DEF PickDue, DueNow, SendInv
  <2>2. \A d \in Dests : status'[t][d] = IF d \in DestsOf[t] THEN "pending" ELSE "none"
      BY <1>0, <1>3 DEF PickDue, FileOK
  <2>3. claim'[t] # NoClaim /\ \A u \in Tasks \ {t} : status'[u] = status[u] /\ claim'[u] = claim[u]
      BY <1>0, <1>3 DEF PickDue, FileOK, WorldOK, NoClaim
  <2>4. UNCHANGED <<life, failure, accepted>>
      BY <1>3 DEF PickDue
  <2> QED BY <1>0, <2>1, <2>2, <2>3, <2>4 DEF SendInv
<1>4. ASSUME NEW d \in Dests, Begin(d), ~UNCHANGED file PROVE SendInv'
  <2>1. \A t \in Tasks, e \in Dests : status'[t][e] = status[t][e]
                                   \/ (t = cur.task /\ e = d /\ status'[t][e] = "sending")
    <3>1. status' = [status EXCEPT ![cur.task][d] = "sending"]
        BY <1>0, <1>4, BeginEffect
    <3> QED BY <1>0, <3>1 DEF FileOK
  <2>2. status[cur.task][d] = "pending" /\ UNCHANGED <<life, failure, claim, accepted>>
      BY <1>0, <1>4, BeginEffect DEF world
  <2> QED BY <1>0, <2>1, <2>2 DEF SendInv
<1>5. CASE Accept
  <2>1. accepted' = [accepted EXCEPT ![cur.task][dest] = @ + 1] /\ UNCHANGED <<life, failure, claim, status>>
      BY <1>5 DEF Accept, file
  <2>2. cur.task \in Tasks /\ dest \in DestsOf[cur.task] /\ dest \in Dests
        /\ (~LostAcks => accepted[cur.task][dest] = 0)
      BY <1>0, <1>5 DEF Accept, FlightInv, CycleOK
  <2>3. \/ life[cur.task] = "wiped" /\ status[cur.task] = NoStates
        \/ status[cur.task][dest] = "sending" /\ claim[cur.task] # NoClaim
      BY <1>0, <1>5, <2>2 DEF Accept, FlightInv, ClaimInv, HandInv, Mine, Working
  <2>4. \A t \in Tasks, d \in Dests : accepted'[t][d] = accepted[t][d]
          \/ (t = cur.task /\ d = dest /\ accepted'[t][d] = accepted[t][d] + 1)
      BY <1>0, <2>1 DEF WorldOK
  <2>5. \A t \in Tasks, d \in Dests : accepted[t][d] \in Nat
      BY <1>0 DEF WorldOK
  <2> QED BY <1>0, <2>1, <2>2, <2>3, <2>4, <2>5 DEF SendInv, NoStates
<1>6. CASE Settle /\ ~UNCHANGED file
  <2>1. PICK v \in Statuses : /\ status' = [status EXCEPT ![cur.task][dest] = v]
                              /\ v \in {"delivered", "failed", "pending"}
                              /\ v = "delivered" <=> ~erred
      BY <1>0, <1>6, SettleEffect
  <2>2. UNCHANGED <<life, failure, claim, accepted>> /\ cur.task \in Tasks /\ dest \in Dests
        /\ status[cur.task][dest] = "sending"
      BY <1>0, <1>6, SettleEffect DEF world
  <2>3. dest \in DestsOf[cur.task] /\ (~erred => accepted[cur.task][dest] > 0)
        /\ (erred /\ ~LostAcks => accepted[cur.task][dest] = 0)
      BY <1>0, <1>6 DEF Settle, FlightInv
  <2>4. \A t \in Tasks, d \in Dests : status'[t][d] = status[t][d]
                                   \/ (t = cur.task /\ d = dest /\ status'[t][d] = v)
      BY <1>0, <2>1 DEF FileOK
  <2> QED BY <1>0, <2>1, <2>2, <2>3, <2>4 DEF SendInv
<1>7. CASE Finalise /\ Mine
  <2>1. \A d \in Dests : status'[cur.task][d] = "none"
      BY <1>0, <1>7, FinaliseEffect DEF NoStates
  <2>2. \A d \in Dests : accepted'[cur.task][d] = accepted[cur.task][d] \/ accepted'[cur.task][d] = 0
      BY <1>0, <1>7 DEF Finalise, Continues, WorldOK, CycleOK
  <2>3. \/ life'[cur.task] \notin {"stored", "new"}
        \/ failure'[cur.task]
        \/ \A d \in Dests : accepted'[cur.task][d] = 0
    <3>1. CASE cur.task \in Recurring /\ occ[cur.task] < MaxOcc
        BY <1>0, <1>7, <3>1 DEF Finalise, Continues, WorldOK, CycleOK
    <3>2. CASE ~(cur.task \in Recurring /\ occ[cur.task] < MaxOcc)
        BY <1>0, <1>7, <3>2 DEF Finalise, Continues, FileOK, CycleOK
    <3> QED BY <3>1, <3>2
  <2>4. accepted' \in [Tasks -> [Dests -> Nat]]
      BY <1>0, TypeStep DEF TypeOK, WorldOK
  <2> QED BY <1>0, <1>7, <2>1, <2>2, <2>3, <2>4, FinaliseEffect DEF SendInv, WorldOK
<1>8. ASSUME NEW t \in Tasks, Create(t) \/ ComesDue(t) PROVE SendInv'
    BY <1>0, <1>8 DEF Create, ComesDue, ClaimInv, SendInv, FileOK, world
<1>9. ASSUME NEW t \in Tasks, Remove(t) PROVE SendInv'
    BY <1>0, <1>9 DEF Remove, DropClaim, SendInv, FileOK, world, NoStates
<1>10. CASE Wipe
  <2>1. \A t \in Tasks, d \in Dests : status'[t][d] = "none"
      BY <1>10 DEF Wipe, NoStates
  <2>2. \A t \in Tasks : life'[t] \in {"stored", "new"} => life[t] = "new" /\ life'[t] = "new"
      BY <1>0, <1>10 DEF Wipe, FileOK
  <2>3. \A t \in Tasks : life[t] = "new" => claim[t] = NoClaim
      BY <1>0 DEF ClaimInv
  <2>4. UNCHANGED <<failure, accepted>>
      BY <1>10 DEF Wipe, world
  <2> QED BY <1>0, <2>1, <2>2, <2>3, <2>4 DEF SendInv
<1>11. CASE Tick
    BY <1>0, <1>11 DEF Tick, SendInv, world
<1>12. ~UNCHANGED accepted => Accept \/ (Finalise /\ Mine)
  <2>1. Prepare \/ EndCycle \/ ReadRound \/ Reject \/ Settle \/ EndRound => UNCHANGED accepted
      BY Zenon DEF Prepare, EndCycle, ReadRound, Reject, Settle, EndRound, world
  <2>2. IoFails \/ Crash \/ Restart \/ Wipe \/ Tick => UNCHANGED accepted
      BY DEF IoFails, Crash, Restart, Wipe, Tick, world
  <2>3. \A t \in Tasks : PickClaim(t) \/ PassBy(t) \/ PickDue(t) \/ Create(t) \/ ComesDue(t) \/ Remove(t)
                         => UNCHANGED accepted
      BY DEF PickClaim, PassBy, PickDue, Create, ComesDue, Remove, world
  <2>4. \A d \in Dests : Begin(d) => UNCHANGED accepted
      BY DEF Begin, world
  <2>5. Finalise => Mine \/ UNCHANGED accepted
      BY DEF Finalise, Continues
  <2>6. UNCHANGED vars => UNCHANGED accepted
      BY DEF vars, world
  <2> QED BY <2>1, <2>2, <2>3, <2>4, <2>5, <2>6 DEF Next, Delivery
<1> QED
    BY <1>1, <1>2, <1>3, <1>4, <1>5, <1>6, <1>7, <1>8, <1>9, <1>10, <1>11, <1>12, FileWriters DEF Accept

LEMMA FlightStep == DeliveryInv /\ [Next]_vars => FlightInv'
<1> SUFFICES ASSUME DeliveryInv, [Next]_vars PROVE FlightInv'
    OBVIOUS
<1>0. TypeOK /\ FileOK /\ CycleOK /\ WorldOK /\ ClaimInv /\ HandInv /\ SendInv /\ FlightInv
    BY DEF DeliveryInv, TypeOK
<1>1. CASE UNCHANGED vars
    BY <1>0, <1>1 DEF FlightInv, Mine, vars, file, cycle, world
<1>2. ASSUME pc' \notin {"sending", "sent"} PROVE FlightInv'
    BY <1>2 DEF FlightInv
<1>3. ASSUME NEW d \in Dests, Begin(d), ~UNCHANGED file PROVE FlightInv'
  <2>1. cur' = cur /\ dest' = d /\ pc' = "sending" /\ UNCHANGED <<life, claim, failure, accepted>>
      BY <1>0, <1>3, BeginEffect DEF world
  <2>2. cur.task \in Tasks /\ Mine /\ status[cur.task][d] = "pending" /\ claim[cur.task] # NoClaim
      BY <1>0, <1>3, BeginEffect DEF Begin, Mine, HandInv, Working
  <2>3. status'[cur.task][d] = "sending"
    <3>1. status' = [status EXCEPT ![cur.task][d] = "sending"]
        BY <1>0, <1>3, BeginEffect
    <3> QED BY <1>0, <2>2, <3>1 DEF FileOK
  <2> QED BY <1>0, <2>1, <2>2, <2>3 DEF FlightInv, SendInv, ClaimInv, Mine
<1>4. CASE Accept
  <2>1. cur.task \in Tasks /\ dest \in Dests /\ pc = "sending" /\ pc' = "sent"
        /\ UNCHANGED <<life, claim, status, failure, cur, dest>>
      BY <1>0, <1>4 DEF Accept, CycleOK, file
  <2>2. accepted'[cur.task][dest] = accepted[cur.task][dest] + 1 /\ accepted[cur.task][dest] \in Nat
    <3>1. accepted' = [accepted EXCEPT ![cur.task][dest] = @ + 1]
        BY <1>4 DEF Accept
    <3> QED BY <1>0, <2>1, <3>1 DEF WorldOK
  <2>3. erred' => LostAcks
      BY <1>4 DEF Accept
  <2> QED BY <1>0, <2>1, <2>2, <2>3 DEF FlightInv, Mine
<1>5. CASE Reject
    BY <1>0, <1>5 DEF Reject, FlightInv, Mine, file, world
<1>6. ASSUME NEW t \in Tasks, Create(t) \/ ComesDue(t) PROVE FlightInv'
    BY <1>0, <1>6 DEF Create, ComesDue, FlightInv, Mine, CycleOK, FileOK, cycle, world
<1>7. ASSUME NEW t \in Tasks, Remove(t) PROVE FlightInv'
  <2>1. pc \in {"sending", "sent"} => t # cur.task /\ cur.task \in Tasks
      BY <1>0, <1>7 DEF Remove, FlightInv, CycleOK
  <2> QED BY <1>0, <1>7, <2>1 DEF Remove, DropClaim, FlightInv, Mine, FileOK, cycle, world
<1>8. CASE Wipe
  <2>1. pc \in {"sending", "sent"} => cur.task \in Tasks /\ life'[cur.task] = "wiped"
      BY <1>0, <1>8 DEF Wipe, FlightInv, Mine, CycleOK, FileOK
  <2> QED BY <1>0, <1>8, <2>1 DEF Wipe, FlightInv, cycle, world
<1>9. CASE Tick
    BY <1>0, <1>9 DEF Tick, FlightInv, Mine, cycle, world
<1>10. ASSUME pc' \in {"sending", "sent"}
       PROVE /\ ~(Prepare \/ EndCycle \/ ReadRound \/ Settle \/ EndRound \/ Finalise \/ IoFails \/ Crash \/ Restart)
             /\ \A t \in Tasks : ~(PickClaim(t) \/ PassBy(t) \/ PickDue(t))
             /\ \A d \in Dests : Begin(d) => ~UNCHANGED file
  <2>1. ~(Prepare \/ EndCycle \/ ReadRound \/ Settle \/ EndRound \/ Finalise \/ IoFails \/ Crash \/ Restart)
      BY <1>10 DEF Prepare, EndCycle, ReadRound, Cancelled, Settle, EndRound, Finalise, Continues, IoFails, Crash, Restart
  <2>2. \A t \in Tasks : ~(PickClaim(t) \/ PassBy(t) \/ PickDue(t))
      BY <1>10 DEF PickClaim, PassBy, PickDue, Process
  <2>3. ASSUME NEW d \in Dests, Begin(d), UNCHANGED file PROVE FALSE
    <3>1. Mine /\ status'[cur.task][d] = "sending" /\ status[cur.task][d] = "pending"
        BY <1>0, <1>10, <2>3 DEF Begin, Cancelled, Pending, FileOK, CycleOK
    <3> QED BY <2>3, <3>1 DEF file
  <2> QED BY <2>1, <2>2, <2>3
<1> QED
    BY <1>1, <1>2, <1>3, <1>4, <1>5, <1>6, <1>7, <1>8, <1>9, <1>10 DEF Next, Delivery

LEMMA BoundStep == DeliveryInv /\ [Next]_vars => BoundInv'
<1> SUFFICES ASSUME DeliveryInv, [Next]_vars PROVE BoundInv'
    OBVIOUS
<1>0. /\ TypeOK /\ FileOK /\ CycleOK /\ WorldOK /\ ClaimInv /\ HandInv /\ SendInv /\ FlightInv /\ BoundInv
      /\ MaxAttempts \in Nat
    BY TaskConstants DEF DeliveryInv, TypeOK
<1> DEFINE Counted == \A t \in Tasks, d \in Dests :
                         /\ accepted[t][d] <= MaxAttempts
                         /\ claim[t] # NoClaim => accepted[t][d] <= attempts[t][d]
           InFlight == pc = "sending" =>
                         /\ accepted[cur.task][dest] < MaxAttempts
                         /\ Mine => accepted[cur.task][dest] < attempts[cur.task][dest]
<1>01. Counted /\ InFlight
    BY <1>0 DEF BoundInv
<1>02. SUFFICES Counted' /\ InFlight'
    BY DEF BoundInv
<1>1. CASE UNCHANGED <<claim, accepted, attempts, life, cur, dest, pc>>
    BY <1>01, <1>1 DEF Mine
<1>2. ASSUME NEW d \in Dests, Begin(d), ~UNCHANGED file PROVE Counted' /\ InFlight'
  <2>1. /\ cur.task \in Tasks /\ attempts[cur.task][d] < MaxAttempts /\ Mine
        /\ UNCHANGED <<life, claim, accepted, cur>> /\ dest' = d
        /\ attempts' = [attempts EXCEPT ![cur.task][d] = @ + 1]
      BY <1>0, <1>2, BeginEffect DEF world
  <2>2. claim[cur.task] # NoClaim
      BY <1>0, <1>2, <2>1 DEF Begin, HandInv, Mine, Working
  <2>3. \A t \in Tasks, e \in Dests : attempts[t][e] \in Nat /\ accepted[t][e] \in Nat
      BY <1>0 DEF FileOK, WorldOK
  <2>4. \A t \in Tasks, e \in Dests : attempts'[t][e] = attempts[t][e]
                                   \/ (t = cur.task /\ e = d /\ attempts'[t][e] = attempts[t][e] + 1)
      BY <1>0, <2>1 DEF FileOK
  <2>5. attempts'[cur.task][d] = attempts[cur.task][d] + 1
      BY <1>0, <2>1 DEF FileOK
  <2>6. accepted[cur.task][d] <= attempts[cur.task][d]
      BY <1>01, <2>1, <2>2
  <2>7. Counted'
      BY <1>01, <2>1, <2>3, <2>4
  <2>8. InFlight'
      BY <1>0, <2>1, <2>3, <2>5, <2>6
  <2> QED BY <2>7, <2>8
<1>3. CASE Accept
  <2>1. cur.task \in Tasks /\ dest \in Dests /\ pc = "sending" /\ pc' = "sent" /\ UNCHANGED <<claim, attempts>>
      BY <1>0, <1>3 DEF Accept, CycleOK, file
  <2>2. accepted' = [accepted EXCEPT ![cur.task][dest] = @ + 1]
      BY <1>3 DEF Accept
  <2>3. \A t \in Tasks, e \in Dests : attempts[t][e] \in Nat /\ accepted[t][e] \in Nat
      BY <1>0 DEF FileOK, WorldOK
  <2>4. \A t \in Tasks, e \in Dests : accepted'[t][e] = accepted[t][e]
                                   \/ (t = cur.task /\ e = dest /\ accepted'[t][e] = accepted[t][e] + 1)
      BY <1>0, <2>2 DEF WorldOK
  <2>5. claim[cur.task] # NoClaim => Mine
      BY <1>0, <2>1 DEF FlightInv, ClaimInv
  <2>6. accepted[cur.task][dest] < MaxAttempts
        /\ (claim[cur.task] # NoClaim => accepted[cur.task][dest] < attempts[cur.task][dest])
      BY <1>01, <2>1, <2>5
  <2> QED BY <1>0, <1>01, <2>1, <2>3, <2>4, <2>6
<1>4. ASSUME pc' # "sending", UNCHANGED accepted, NEW t \in Tasks, \A d \in Dests : accepted[t][d] = 0,
             \A u \in Tasks \ {t} : claim'[u] = claim[u] /\ attempts'[u] = attempts[u],
             attempts' \in [Tasks -> [Dests -> 0 .. MaxAttempts]]
      PROVE Counted' /\ InFlight'
    BY <1>0, <1>01, <1>4
<1>5. ASSUME NEW t \in Tasks, PickDue(t) PROVE Counted' /\ InFlight'
  <2>1. \A d \in Dests : accepted[t][d] = 0
      BY <1>0, <1>5 DEF PickDue, DueNow, SendInv
  <2>2. attempts' \in [Tasks -> [Dests -> 0 .. MaxAttempts]]
      BY <1>0, TypeStep DEF TypeOK, FileOK
  <2>3. pc' # "sending" /\ UNCHANGED accepted
        /\ \A u \in Tasks \ {t} : claim'[u] = claim[u] /\ attempts'[u] = attempts[u]
      BY <1>0, <1>5 DEF PickDue, Process, FileOK
  <2> QED BY <1>4, <2>1, <2>2, <2>3
<1>6. CASE Finalise /\ Mine
  <2>1. \A t \in Tasks : t # cur.task => /\ claim'[t] = claim[t] /\ attempts'[t] = attempts[t]
                                         /\ accepted'[t] = accepted[t]
      BY <1>0, <1>6, FinaliseEffect
  <2>2. \A d \in Dests : accepted'[cur.task][d] = accepted[cur.task][d] \/ accepted'[cur.task][d] = 0
      BY <1>0, <1>6 DEF Finalise, Continues, WorldOK, CycleOK
  <2>3. claim'[cur.task] = NoClaim /\ pc' = "pick"
      BY <1>0, <1>6, FinaliseEffect
  <2>4. cur.task \in Tasks
      BY <1>0, <1>6, FinaliseEffect
  <2> QED BY <1>0, <1>01, <2>1, <2>2, <2>3, <2>4
<1>7. ASSUME NEW t \in Tasks, Remove(t) PROVE Counted' /\ InFlight'
  <2>1. pc = "sending" => t # cur.task /\ cur.task \in Tasks
      BY <1>0, <1>7 DEF Remove, FlightInv, CycleOK
  <2>2. UNCHANGED <<accepted, cur, dest, pc>> /\ claim'[t] = NoClaim
        /\ \A u \in Tasks \ {t} : claim'[u] = claim[u] /\ attempts'[u] = attempts[u] /\ life'[u] = life[u]
      BY <1>0, <1>7 DEF Remove, DropClaim, FileOK, cycle, world
  <2> QED BY <1>0, <1>01, <2>1, <2>2 DEF Mine
<1>8. CASE Wipe
  <2>1. UNCHANGED <<accepted, cur, dest, pc>> /\ \A t \in Tasks : claim'[t] = NoClaim /\ life'[t] # "stored"
      BY <1>0, <1>8 DEF Wipe, FileOK, cycle, world
  <2>2. pc = "sending" => cur.task \in Tasks
      BY <1>0 DEF CycleOK
  <2> QED BY <1>0, <1>01, <2>1, <2>2 DEF Mine
<1>9. ASSUME NEW t \in Tasks, Create(t) PROVE Counted' /\ InFlight'
  <2>1. UNCHANGED <<claim, accepted, attempts, cur, dest, pc>>
      BY <1>9 DEF Create, cycle, world
  <2>2. pc = "sending" => cur.task \in Tasks /\ (Mine' => Mine)
      BY <1>0, <1>9, <2>1 DEF Create, ClaimInv, HandInv, Mine, FileOK, CycleOK, Working
  <2> QED BY <1>01, <2>1, <2>2
<1>10. ASSUME pc' # "sending", UNCHANGED <<claim, accepted, attempts>> PROVE Counted' /\ InFlight'
    BY <1>01, <1>10
<1>11. ASSUME Prepare \/ EndCycle \/ ReadRound \/ Reject \/ EndRound \/ IoFails \/ Crash \/ Restart
       PROVE UNCHANGED <<claim, accepted, attempts>> /\ pc' # "sending"
    BY <1>11 DEF Prepare, EndCycle, ReadRound, Cancelled, Reject, EndRound, IoFails, Crash, Restart, file, world
<1>12. ASSUME NEW t \in Tasks, PickClaim(t) \/ PassBy(t)
       PROVE UNCHANGED <<claim, accepted, attempts>> /\ pc' # "sending"
    BY <1>12 DEF PickClaim, PassBy, Process, file, world
<1>13. ASSUME NEW d \in Dests, Begin(d), UNCHANGED file
       PROVE UNCHANGED <<claim, accepted, attempts>> /\ pc' # "sending"
  <2>1. UNCHANGED <<claim, accepted, attempts, status>>
      BY <1>13 DEF Begin, file, world
  <2>2. ASSUME pc' = "sending" PROVE FALSE
    <3>1. Mine /\ status'[cur.task][d] = "sending" /\ status[cur.task][d] = "pending"
        BY <1>0, <1>13, <2>2 DEF Begin, Cancelled, Pending, FileOK, CycleOK
    <3> QED BY <2>1, <3>1
  <2> QED BY <2>1, <2>2
<1>14. ASSUME Settle PROVE UNCHANGED <<claim, accepted, attempts>> /\ pc' # "sending"
    BY <1>14 DEF Settle, file, world
<1>15. ASSUME Finalise, ~Mine PROVE UNCHANGED <<claim, accepted, attempts>> /\ pc' # "sending"
    BY <1>15 DEF Finalise, Continues, file
<1>16. ASSUME NEW t \in Tasks, ComesDue(t) PROVE UNCHANGED <<claim, accepted, attempts, life, cur, dest, pc>>
    BY <1>16 DEF ComesDue, cycle, world
<1>17. ASSUME Tick \/ UNCHANGED vars PROVE UNCHANGED <<claim, accepted, attempts, life, cur, dest, pc>>
    BY <1>17 DEF Tick, vars, file, cycle, world
<1> HIDE DEF Counted, InFlight
<1> QED
    BY <1>1, <1>2, <1>3, <1>5, <1>6, <1>7, <1>8, <1>9, <1>10, <1>11, <1>12, <1>13, <1>14, <1>15, <1>16, <1>17
       DEF Next, Delivery

LEMMA InvInit == Init => DeliveryInv
<1> SUFFICES ASSUME Init PROVE DeliveryInv
    OBVIOUS
<1>1. ClaimInv /\ HandInv /\ FlightInv /\ OutcomeInv
    BY DEF Init, ClaimInv, HandInv, FlightInv, OutcomeInv, Working
<1>2. SendInv
    BY DEF Init, SendInv, NoStates
<1>3. BoundInv
    BY TaskConstants DEF Init, BoundInv
<1> QED
    BY <1>1, <1>2, <1>3, TypeInit DEF DeliveryInv

LEMMA InvStep == DeliveryInv /\ [Next]_vars => DeliveryInv'
<1>1. DeliveryInv => TypeOK
    BY DEF DeliveryInv
<1> QED
    BY <1>1, TypeStep, ClaimStep, HandStep, SendStep, FlightStep, OutcomeStep, BoundStep DEF DeliveryInv

THEOREM InvHolds == Spec => []DeliveryInv
    BY InvInit, InvStep, PTL DEF Spec

----
(* What follows from it. *)

\* Unless a send can throw after it was accepted, no destination receives an
\* occurrence of a reminder twice, whatever crashes and fails in between.
THEOREM NoSecondSend == Spec => []AtMostOnce
<1>1. DeliveryInv => AtMostOnce
    BY DEF DeliveryInv, SendInv, AtMostOnce
<1> QED
    BY <1>1, InvHolds, PTL

\* Where it can, an occurrence is accepted at most MaxAttempts times.
THEOREM SendsBounded == Spec => []AttemptsBoundSends
<1>1. DeliveryInv => AttemptsBoundSends
    BY DEF DeliveryInv, BoundInv, AttemptsBoundSends
<1> QED
    BY <1>1, InvHolds, PTL

\* What a delivery came to stays as it is for as long as its claim.
THEOREM NothingReopened == Spec => SettledStays
<1> DEFINE Stays == \A t \in Tasks, d \in Dests :
                       claim[t] # NoClaim /\ claim'[t] = claim[t] /\ status[t][d] \in Final
                           => status'[t][d] = status[t][d]
<1>1. ASSUME DeliveryInv, [Next]_vars PROVE Stays
  <2>0. TypeOK /\ FileOK /\ CycleOK /\ WorldOK
      BY <1>1 DEF DeliveryInv, TypeOK
  <2>1. CASE UNCHANGED file
      BY <2>1 DEF file
  <2>2. CASE Prepare
      BY <2>0, <2>2 DEF Prepare, Interrupted, Final, FileOK
  <2>3. ASSUME NEW t \in Tasks, PickDue(t) PROVE Stays
      BY <2>0, <2>3 DEF PickDue, DueNow, FileOK
  <2>4. ASSUME NEW t \in Tasks, Create(t) \/ ComesDue(t) \/ Remove(t) PROVE Stays
      BY <2>0, <2>4 DEF Create, ComesDue, Remove, DropClaim, FileOK
  <2>5. ASSUME NEW d \in Dests, Begin(d), ~UNCHANGED file PROVE Stays
    <3>1. status' = [status EXCEPT ![cur.task][d] = "sending"] /\ status[cur.task][d] = "pending"
        BY <2>0, <2>5, BeginEffect
    <3> QED BY <2>0, <3>1 DEF FileOK, Final
  <2>6. CASE Settle /\ ~UNCHANGED file
    <3>1. status[cur.task][dest] = "sending"
        BY <2>0, <2>6, SettleEffect
    <3>2. PICK v \in Statuses : status' = [status EXCEPT ![cur.task][dest] = v]
        BY <2>0, <2>6, SettleEffect
    <3> QED BY <2>0, <3>1, <3>2 DEF FileOK, Final
  <2>7. CASE Finalise /\ Mine
      BY <2>0, <2>7, FinaliseEffect
  <2>8. CASE Wipe \/ Tick
      BY <2>0, <2>8 DEF Wipe, Tick, FileOK
  <2> QED
      BY <1>1, <2>1, <2>2, <2>3, <2>4, <2>5, <2>6, <2>7, <2>8, FileWriters
<1>2. DeliveryInv /\ [Next]_vars => [Stays]_vars
    BY <1>1
<1> QED
    BY <1>2, InvHolds, PTL DEF Spec, SettledStays

\* A claim another instance wrote to within ClaimTTL is not acted under.
THEOREM OthersLeftAlone == Spec => OthersClaimWaits
<1> DEFINE Waits == \A t \in Tasks :
                       claim[t] # NoClaim /\ owner[t] # me /\ left[t] > 0 /\ life'[t] = "stored"
                           => claim'[t] = claim[t] /\ owner'[t] = owner[t] /\ status'[t] = status[t]
<1>1. ASSUME DeliveryInv, [Next]_vars PROVE Waits
  <2>0. TypeOK /\ FileOK /\ CycleOK /\ WorldOK /\ ClaimInv /\ HandInv
      BY <1>1 DEF DeliveryInv, TypeOK
  <2>1. CASE UNCHANGED file
      BY <2>1 DEF file
  <2>2. CASE Prepare
      BY <2>0, <2>2 DEF Prepare, Stale, FileOK
  <2>3. ASSUME NEW t \in Tasks, PickDue(t) PROVE Waits
      BY <2>0, <2>3 DEF PickDue, DueNow, FileOK
  <2>4. ASSUME NEW t \in Tasks, Create(t) \/ ComesDue(t) \/ Remove(t) PROVE Waits
      BY <2>0, <2>4 DEF Create, ComesDue, Remove, DropClaim, FileOK
  <2>5. ASSUME NEW d \in Dests, Begin(d), ~UNCHANGED file PROVE Waits
    <3>1. status' = [status EXCEPT ![cur.task][d] = "sending"] /\ owner[cur.task] = me /\ UNCHANGED <<claim, owner>>
        BY <2>0, <2>5, BeginEffect
    <3> QED BY <2>0, <3>1 DEF FileOK
  <2>6. CASE Settle /\ ~UNCHANGED file
    <3>1. Mine /\ UNCHANGED <<claim, owner>>
        BY <2>0, <2>6, SettleEffect
    <3>2. PICK v \in Statuses : status' = [status EXCEPT ![cur.task][dest] = v]
        BY <2>0, <2>6, SettleEffect
    <3>3. owner[cur.task] = me
        BY <2>0, <2>6, <3>1 DEF Settle, HandInv, Working
    <3> QED BY <2>0, <3>1, <3>2, <3>3 DEF FileOK
  <2>7. CASE Finalise /\ Mine
    <3>1. owner[cur.task] = me
        BY <2>0, <2>7 DEF Finalise, Continues, HandInv, Working
    <3> QED BY <2>0, <2>7, <3>1, FinaliseEffect
  <2>8. CASE Wipe \/ Tick
      BY <2>0, <2>8 DEF Wipe, Tick, FileOK
  <2> QED
      BY <1>1, <2>1, <2>2, <2>3, <2>4, <2>5, <2>6, <2>7, <2>8, FileWriters
<1>2. DeliveryInv /\ [Next]_vars => [Waits]_vars
    BY <1>1
<1> QED
    BY <1>2, InvHolds, PTL DEF Spec, OthersClaimWaits

----
(* The scheduler keeps the promise of ReminderPromise. *)

LEMMA PromiseInit == Init => Promise!Init
<1> SUFFICES ASSUME Init PROVE Promise!Init
    OBVIOUS
<1>1. [t \in Tasks |-> {d \in Dests : accepted[t][d] > 0}] = [t \in Tasks |-> {}]
    BY DEF Init
<1> QED
    BY <1>1 DEF Init, Promise!Init

LEMMA PromiseStep == DeliveryInv /\ [Next]_vars => [Promise!Next]_(Promise!vars)
<1> SUFFICES ASSUME DeliveryInv, [Next]_vars PROVE Promise!Next \/ UNCHANGED Promise!vars
    OBVIOUS
<1>0. TypeOK /\ FileOK /\ CycleOK /\ WorldOK /\ ClaimInv /\ HandInv /\ SendInv /\ FlightInv /\ OutcomeInv
    BY DEF DeliveryInv, TypeOK
<1>1. CASE UNCHANGED <<life, occ, failure, accepted>>
    BY <1>1 DEF Promise!vars
<1>2. CASE Accept
  <2>0. cur.task \in Tasks /\ dest \in Dests
      BY <1>0, <1>2 DEF Accept, CycleOK
  <2> SUFFICES ASSUME NEW t \in Tasks, t = cur.task, NEW e \in Dests, e = dest
               PROVE  Promise!Next \/ UNCHANGED Promise!vars
      BY <2>0
  <2>1. /\ t \in Tasks /\ dest \in Dests /\ ~failure[t] /\ life[t] \in {"stored", "wiped"}
        /\ UNCHANGED <<life, occ, failure>>
        /\ accepted' = [accepted EXCEPT ![t][dest] = @ + 1]
      BY <1>0, <1>2 DEF Accept, FlightInv, Mine, CycleOK, file
  <2>2. \A u \in Tasks, d \in Dests : /\ accepted[u][d] \in Nat
                                     /\ accepted'[u][d] = IF u = t /\ d = dest THEN accepted[u][d] + 1
                                                          ELSE accepted[u][d]
      BY <1>0, <2>1 DEF WorldOK
  <2>3. \A u \in Tasks : {d \in Dests : accepted'[u][d] > 0}
                         = IF u = t THEN {d \in Dests : accepted[u][d] > 0} \cup {dest}
                           ELSE {d \in Dests : accepted[u][d] > 0}
      BY <2>1, <2>2
  <2>4. CASE accepted[t][dest] > 0
    <3> DEFINE Now(u) == {d \in Dests : accepted[u][d] > 0}
               After(u) == {d \in Dests : accepted'[u][d] > 0}
    <3>0. \A u \in Tasks : After(u) = Now(u)
      <4>1. dest \in {d \in Dests : accepted[t][d] > 0}
          BY <2>1, <2>4
      <4> QED BY <2>3, <4>1
    <3> HIDE DEF Now, After
    <3>a. [u \in Tasks |-> After(u)] = [u \in Tasks |-> Now(u)]
        BY <3>0
    <3>1. [u \in Tasks |-> {d \in Dests : accepted'[u][d] > 0}] = [u \in Tasks |-> {d \in Dests : accepted[u][d] > 0}]
        BY <3>a DEF Now, After
    <3> QED BY <2>1, <3>1 DEF Promise!vars
  <2>5. CASE ~(accepted[t][dest] > 0)
    <3>1. Promise!Receive(t, e)
        BY <2>1, <2>3, <2>5 DEF Promise!Receive
    <3> QED BY <2>1, <3>1, Zenon DEF Promise!Next
  <2> QED BY <2>4, <2>5
<1>3. ASSUME NEW t \in Tasks, Create(t) PROVE Promise!Next
  <2>1. Promise!Create(t)
      BY <1>3 DEF Create, Promise!Create, world
  <2> QED BY <2>1 DEF Promise!Next
<1>4. ASSUME NEW t \in Tasks, Remove(t) PROVE Promise!Next
  <2>1. Promise!Remove(t)
      BY <1>4 DEF Remove, Promise!Remove, world
  <2> QED BY <2>1 DEF Promise!Next
<1>5. CASE Wipe
  <2>1. Promise!WipeAll
      BY <1>5 DEF Wipe, Promise!WipeAll, world
  <2> QED BY <2>1 DEF Promise!Next
<1>6. CASE Finalise /\ Mine
  <2>a. cur.task \in Tasks
      BY <1>0, <1>6 DEF Finalise, Continues, CycleOK
  <2> SUFFICES ASSUME NEW t \in Tasks, t = cur.task
               PROVE  Promise!Next
      BY <2>a
  <2> DEFINE GotNow == [u \in Tasks |-> {d \in Dests : accepted[u][d] > 0}]
  <2>1. t \in Tasks /\ life[t] = "stored" /\ claim[t] # NoClaim /\ ~failure[t] /\ pc = "finalise"
      BY <1>0, <1>6 DEF Finalise, Continues, Mine, CycleOK, HandInv, ClaimInv, Working
  <2>2. failure' = [failure EXCEPT ![t] = t \notin Recurring /\ ~outcome]
      BY <1>6, Zenon DEF Finalise, Continues
  <2>0. (t \notin Recurring /\ ~outcome) = FALSE => failure' = failure
    <3> SUFFICES ASSUME (t \notin Recurring /\ ~outcome) = FALSE PROVE failure' = failure
        OBVIOUS
    <3>1. failure' = [failure EXCEPT ![t] = FALSE]
        BY <2>2, Zenon
    <3>2. failure[t] = FALSE
        BY <1>0, <2>1 DEF FileOK
    <3> QED BY <1>0, <3>1, <3>2 DEF FileOK
  <2>3. CASE t \in Recurring
    <3>1. failure' = failure
        BY <1>0, <2>0, <2>3
    <3>2. CASE occ[t] < MaxOcc
      <4>1. occ' = [occ EXCEPT ![t] = @ + 1] /\ accepted' = [accepted EXCEPT ![t] = [d \in Dests |-> 0]] /\ life' = life
          BY <1>6, <2>3, <3>2, Zenon DEF Finalise, Continues
      <4>2. GotNow' = [GotNow EXCEPT ![t] = {}]
        <5> DEFINE Now(u) == {d \in Dests : accepted[u][d] > 0}
                   After(u) == {d \in Dests : accepted'[u][d] > 0}
        <5>1. \A u \in Tasks : accepted'[u] = IF u = t THEN [d \in Dests |-> 0] ELSE accepted[u]
            BY <1>0, <2>1, <4>1 DEF WorldOK
        <5>2. \A u \in Tasks : After(u) = IF u = t THEN {} ELSE Now(u)
            BY <5>1
        <5> HIDE DEF Now, After
        <5>3. [u \in Tasks |-> After(u)] = [[u \in Tasks |-> Now(u)] EXCEPT ![t] = {}]
            BY <2>1, <5>2
        <5> QED BY <5>3 DEF Now, After
      <4>3. Promise!Advance(t)
          BY <2>1, <2>3, <3>1, <3>2, <4>1, <4>2 DEF Promise!Advance
      <4> QED BY <2>1, <4>3, Zenon DEF Promise!Next
    <3>3. CASE ~(occ[t] < MaxOcc)
      <4>1. UNCHANGED <<occ, accepted>> /\ life' = [life EXCEPT ![t] = "ended"]
        <5>1. UNCHANGED <<occ, accepted>>
            BY <1>6, <2>3, <3>3, Zenon DEF Finalise, Continues
        <5>2. life' = [life EXCEPT ![t] = IF t \in Recurring THEN "ended" ELSE IF outcome THEN "done" ELSE "stored"]
            BY <1>6, <2>3, <3>3, Zenon DEF Finalise, Continues
        <5> QED BY <5>1, <5>2, <2>3
      <4>2. Promise!Advance(t)
          BY <2>1, <2>3, <3>1, <3>3, <4>1 DEF Promise!Advance
      <4> QED BY <2>1, <4>2, Zenon DEF Promise!Next
    <3> QED BY <3>2, <3>3
  <2>4. CASE t \notin Recurring /\ outcome
    <3>1. failure' = failure
        BY <1>0, <2>1, <2>2, <2>4 DEF FileOK
    <3>2. UNCHANGED <<occ, accepted>> /\ life' = [life EXCEPT ![t] = "done"]
        BY <1>6, <2>4 DEF Finalise, Continues
    <3>3. {d \in Dests : accepted[t][d] > 0} = DestsOf[t]
      <4>1. \A d \in DestsOf[t] : status[t][d] = "delivered"
          BY <1>0, <1>6, <2>1, <2>4 DEF OutcomeInv, AllDelivered
      <4> QED BY <1>0, <2>1, <4>1, TaskConstants DEF SendInv
    <3>4. Promise!Deliver(t)
        BY <2>1, <2>4, <3>1, <3>2, <3>3 DEF Promise!Deliver
    <3> QED BY <2>1, <3>4 DEF Promise!Next
  <2>5. CASE t \notin Recurring /\ ~outcome
    <3>1. failure' = [failure EXCEPT ![t] = TRUE]
        BY <2>2, <2>5
    <3>2. UNCHANGED <<occ, accepted>> /\ life' = [life EXCEPT ![t] = "stored"]
        BY <1>6, <2>5 DEF Finalise, Continues
    <3>3. life' = life
        BY <1>0, <2>1, <3>2 DEF FileOK
    <3>4. Promise!Fail(t)
        BY <2>1, <2>5, <3>1, <3>2, <3>3 DEF Promise!Fail
    <3> QED BY <2>1, <3>4 DEF Promise!Next
  <2> QED BY <2>3, <2>4, <2>5
<1>7. Prepare \/ EndCycle \/ ReadRound \/ Reject \/ Settle \/ EndRound \/ IoFails \/ Crash \/ Restart \/ Tick
      \/ UNCHANGED vars => UNCHANGED <<life, occ, failure, accepted>>
  <2>1. Prepare \/ EndCycle \/ ReadRound \/ Reject \/ EndRound => UNCHANGED <<life, occ, failure, accepted>>
      BY DEF Prepare, EndCycle, ReadRound, Reject, EndRound, file, world
  <2>2. Settle => UNCHANGED <<life, occ, failure, accepted>>
      BY DEF Settle, file, world
  <2>3. IoFails \/ Crash \/ Restart \/ Tick \/ UNCHANGED vars => UNCHANGED <<life, occ, failure, accepted>>
      BY DEF IoFails, Crash, Restart, Tick, vars, file, world
  <2> QED BY <2>1, <2>2, <2>3
<1>8. Finalise /\ ~Mine => UNCHANGED <<life, occ, failure, accepted>>
    BY DEF Finalise, Continues, file
<1>9. \A t \in Tasks : PickClaim(t) \/ PassBy(t) \/ PickDue(t) \/ ComesDue(t) => UNCHANGED <<life, occ, failure, accepted>>
    BY DEF PickClaim, PassBy, PickDue, ComesDue, file, world
<1>10. \A d \in Dests : Begin(d) => UNCHANGED <<life, occ, failure, accepted>>
    BY DEF Begin, file, world
<1> QED
    BY <1>1, <1>2, <1>3, <1>4, <1>5, <1>6, <1>7, <1>8, <1>9, <1>10 DEF Next, Delivery

\* The cycle of claims, sends and settlements implements the promise, for any
\* reminders and destinations, crashes and failed writes.
THEOREM DeliveryKeepsPromise == Spec => KeepsPromise
    BY PromiseInit, PromiseStep, InvHolds, PTL DEF Spec, KeepsPromise, Promise!Spec

----
(* A failure is reported of what did not arrive. *)

Spotless == ~LostAcks /\ crashes = 0 /\ faults = 0

\* A claim names every destination, only the send under way is `sending', and
\* nothing is unknown.
StatesPlain ==
    /\ \A t \in Tasks : claim[t] # NoClaim => \A d \in DestsOf[t] : status[t][d] # "none"
    /\ \A t \in Tasks, d \in Dests :
          /\ status[t][d] # "unknown"
          /\ status[t][d] = "sending" => pc \in {"sending", "sent"} /\ t = cur.task /\ d = dest

OutcomePlain == pc = "finalise" /\ Mine => (outcome <=> AllDelivered(cur.task, status[cur.task]))

FailurePlain ==
    \A t \in Tasks : failure[t] /\ DestsOf[t] # {} => \E d \in DestsOf[t] : accepted[t][d] = 0

\* All of this until something goes wrong.
HonestInv == Spotless => StatesPlain /\ OutcomePlain /\ FailurePlain

LEMMA HonestInit == Init => HonestInv
    BY TaskConstants DEF Init, HonestInv, StatesPlain, OutcomePlain, FailurePlain, NoStates

\* While nothing goes wrong, nothing went wrong and no step fails.
LEMMA SpotlessBefore ==
    ASSUME TypeOK, [Next]_vars, Spotless'
    PROVE Spotless /\ ~IoFails /\ ~Crash
<1>1. crashes \in Nat /\ faults \in Nat
    BY TaskConstants DEF TypeOK, WorldOK
<1>2. ~IoFails /\ ~Crash
    BY <1>1 DEF IoFails, Crash, Spotless
<1>3. UNCHANGED <<crashes, faults>>
  <2>1. Prepare \/ EndCycle \/ ReadRound \/ Accept \/ Reject \/ Settle \/ EndRound => UNCHANGED <<crashes, faults>>
      BY Zenon DEF Prepare, EndCycle, ReadRound, Accept, Reject, Settle, EndRound, world
  <2>2. Finalise \/ Restart \/ Wipe \/ Tick \/ UNCHANGED vars => UNCHANGED <<crashes, faults>>
      BY DEF Finalise, Continues, Restart, Wipe, Tick, vars, world
  <2>3. \A t \in Tasks : PickClaim(t) \/ PassBy(t) \/ PickDue(t) \/ Create(t) \/ ComesDue(t) \/ Remove(t)
                         => UNCHANGED <<crashes, faults>>
      BY DEF PickClaim, PassBy, PickDue, Create, ComesDue, Remove, world
  <2>4. \A d \in Dests : Begin(d) => UNCHANGED <<crashes, faults>>
      BY DEF Begin, world
  <2> QED BY <1>2, <2>1, <2>2, <2>3, <2>4 DEF Next, Delivery
<1> QED
    BY <1>2, <1>3 DEF Spotless

\* What a claim that is finalised without success did not deliver, nobody got.
LEMMA UnfinishedIsMissing ==
    ASSUME DeliveryInv, StatesPlain, OutcomePlain, ~LostAcks,
           pc = "finalise", Mine, ~outcome, DestsOf[cur.task] # {}
    PROVE \E d \in DestsOf[cur.task] : accepted[cur.task][d] = 0
<1>1. cur.task \in Tasks /\ claim[cur.task] # NoClaim /\ DestsOf[cur.task] \subseteq Dests
    BY TaskConstants DEF DeliveryInv, TypeOK, CycleOK, HandInv, Working, Mine
<1>2. PICK d \in DestsOf[cur.task] : status[cur.task][d] # "delivered"
    BY DEF OutcomePlain, AllDelivered
<1>3. status[cur.task][d] \in {"pending", "failed"}
    BY <1>1, <1>2 DEF DeliveryInv, TypeOK, FileOK, Statuses, StatesPlain
<1> QED
    BY <1>1, <1>3 DEF DeliveryInv, SendInv

LEMMA StatesPlainStep ==
    ASSUME DeliveryInv, StatesPlain, [Next]_vars, ~IoFails, ~Crash PROVE StatesPlain'
<1>0. TypeOK /\ FileOK /\ CycleOK /\ WorldOK /\ ClaimInv /\ HandInv /\ SendInv /\ FlightInv
    BY DEF DeliveryInv, TypeOK
<1>1. ASSUME \A t \in Tasks : claim'[t] # NoClaim => claim[t] # NoClaim /\ status'[t] = status[t],
             \A t \in Tasks : status'[t] = status[t] \/ status'[t] = NoStates,
             pc \in {"sending", "sent"} => UNCHANGED <<cur, dest>> /\ pc' \in {"sending", "sent"}
      PROVE StatesPlain'
    BY <1>1 DEF StatesPlain, NoStates
<1>2. CASE UNCHANGED vars
    BY <1>1, <1>2 DEF vars, file, cycle
<1>3. CASE Prepare
  <2>1. \A t \in Tasks, d \in Dests : status[t][d] # "sending"
      BY <1>3 DEF Prepare, StatesPlain
  <2>2. \A t \in Tasks : status'[t] = status[t]
      BY <1>0, <1>3, <2>1 DEF Prepare, Interrupted, FileOK
  <2> QED BY <1>1, <1>3, <2>2 DEF Prepare
<1>4. CASE EndCycle \/ ReadRound \/ EndRound \/ Restart
    BY <1>1, <1>4 DEF EndCycle, ReadRound, EndRound, Restart, file
<1>5. ASSUME NEW t \in Tasks, PickClaim(t) \/ PassBy(t) PROVE StatesPlain'
    BY <1>1, <1>5 DEF PickClaim, PassBy, file
<1>6. ASSUME NEW t \in Tasks, PickDue(t) PROVE StatesPlain'
  <2>1. \A d \in Dests : status'[t][d] = IF d \in DestsOf[t] THEN "pending" ELSE "none"
      BY <1>0, <1>6 DEF PickDue, FileOK
  <2>2. \A u \in Tasks \ {t} : status'[u] = status[u] /\ claim'[u] = claim[u]
      BY <1>0, <1>6 DEF PickDue, FileOK
  <2>3. pc = "pick" /\ DestsOf[t] \subseteq Dests
      BY <1>6, TaskConstants DEF PickDue
  <2> QED BY <2>1, <2>2, <2>3 DEF StatesPlain
<1>7. ASSUME NEW d \in Dests, Begin(d), UNCHANGED file PROVE StatesPlain'
  <2>1. pc = "dispatch"
      BY <1>7 DEF Begin
  <2> QED BY <1>1, <1>7, <2>1 DEF file
<1>8. ASSUME NEW d \in Dests, Begin(d), ~UNCHANGED file PROVE StatesPlain'
  <2>1. \A t \in Tasks, e \in Dests : status'[t][e] = status[t][e]
                                   \/ (t = cur.task /\ e = d /\ status'[t][e] = "sending")
    <3>1. status' = [status EXCEPT ![cur.task][d] = "sending"]
        BY <1>0, <1>8, BeginEffect
    <3> QED BY <1>0, <3>1 DEF FileOK
  <2>2. pc = "dispatch" /\ UNCHANGED <<claim, cur>> /\ pc' = "sending" /\ dest' = d
      BY <1>0, <1>8, BeginEffect DEF Begin
  <2>3. \A t \in Tasks : DestsOf[t] \subseteq Dests
      BY TaskConstants
  <2> QED BY <2>1, <2>2, <2>3 DEF StatesPlain
<1>9. CASE Accept \/ Reject
    BY <1>1, <1>9 DEF Accept, Reject, file
<1>10. CASE Settle /\ UNCHANGED file
  <2>1. ~(Mine /\ status[cur.task][dest] = "sending")
    <3>1. SUFFICES ASSUME Mine /\ status[cur.task][dest] = "sending" PROVE FALSE
        OBVIOUS
    <3>2. status' = [status EXCEPT ![cur.task][dest] = SettledAs(erred, attempts[cur.task][dest])]
        BY <1>10, <3>1, Zenon DEF Settle
    <3>3. SettledAs(erred, attempts[cur.task][dest]) # "sending"
        BY DEF SettledAs
    <3>4. cur.task \in Tasks /\ dest \in Dests
        BY <1>0, <1>10 DEF Settle, CycleOK
    <3> HIDE DEF SettledAs
    <3> QED BY <1>0, <1>10, <3>1, <3>2, <3>3, <3>4 DEF FileOK, file
  <2>2. \A d \in Dests : status[cur.task][d] # "sending"
    <3>1. status[cur.task][dest] # "sending"
        BY <1>0, <1>10, <2>1 DEF Settle, FlightInv, ClaimInv, NoStates, CycleOK
    <3> QED BY <1>0, <1>10, <3>1 DEF Settle, CycleOK, StatesPlain
  <2>3. \A t \in Tasks, d \in Dests : status[t][d] # "sending"
      BY <2>2 DEF StatesPlain
  <2> QED BY <1>10, <2>3 DEF StatesPlain, file
<1>11. CASE Settle /\ ~UNCHANGED file
  <2>1. PICK v \in Statuses : /\ status' = [status EXCEPT ![cur.task][dest] = v]
                              /\ v \in {"delivered", "failed", "pending"}
      BY <1>0, <1>11, SettleEffect
  <2>2. UNCHANGED claim /\ cur.task \in Tasks /\ dest \in Dests
      BY <1>0, <1>11, SettleEffect
  <2>3. \A t \in Tasks, d \in Dests : status'[t][d] = IF t = cur.task /\ d = dest THEN v ELSE status[t][d]
      BY <1>0, <2>1, <2>2 DEF FileOK
  <2>4. \A t \in Tasks : DestsOf[t] \subseteq Dests
      BY TaskConstants
  <2> QED BY <2>1, <2>2, <2>3, <2>4 DEF StatesPlain
<1>12. CASE Finalise /\ ~Mine
    BY <1>1, <1>12 DEF Finalise, Continues, file
<1>13. CASE Finalise /\ Mine
  <2>1. pc = "finalise"
      BY <1>13 DEF Finalise, Continues
  <2> QED BY <1>0, <1>1, <1>13, <2>1, FinaliseEffect
<1>14. ASSUME NEW t \in Tasks, Create(t) \/ ComesDue(t) PROVE StatesPlain'
    BY <1>1, <1>14 DEF Create, ComesDue, cycle
<1>15. ASSUME NEW t \in Tasks, Remove(t) PROVE StatesPlain'
  <2>1. UNCHANGED <<pc, cur, dest>>
      BY <1>15 DEF Remove, cycle
  <2>2. \A u \in Tasks : IF u = t THEN claim'[u] = NoClaim /\ status'[u] = NoStates
                                  ELSE claim'[u] = claim[u] /\ status'[u] = status[u]
      BY <1>0, <1>15 DEF Remove, DropClaim, FileOK
  <2> QED BY <1>1, <2>1, <2>2
<1>16. CASE Wipe
    BY <1>1, <1>16 DEF Wipe, cycle
<1>17. CASE Tick
    BY <1>1, <1>17 DEF Tick, cycle
<1> QED
    BY <1>2, <1>3, <1>4, <1>5, <1>6, <1>7, <1>8, <1>9, <1>10, <1>11, <1>12, <1>13, <1>14, <1>15, <1>16, <1>17
       DEF Next, Delivery

LEMMA OutcomePlainStep ==
    ASSUME DeliveryInv, OutcomePlain, [Next]_vars, pc' = "finalise", Mine'
    PROVE outcome' <=> AllDelivered(cur'.task, status'[cur'.task])
<1>0. TypeOK /\ FileOK /\ CycleOK /\ WorldOK /\ HandInv
    BY DEF DeliveryInv, TypeOK
<1>1. ASSUME NEW t \in Tasks, PickClaim(t) PROVE outcome' <=> AllDelivered(cur'.task, status'[cur'.task])
  <2>1. cur'.task = t /\ cur'.claim = snap[t].claim /\ UNCHANGED <<claim, life, status>>
      BY <1>1 DEF PickClaim, Process, file
  <2>2. status[t] = snap[t].status
      BY <1>0, <1>1, <2>1 DEF PickClaim, HandInv, Mine
  <2>3. outcome' = AllDelivered(t, snap[t].status)
      BY <1>1, Zenon DEF PickClaim, Process
  <2> QED BY <2>1, <2>2, <2>3
<1>2. ASSUME NEW t \in Tasks, PickDue(t) PROVE outcome' <=> AllDelivered(cur'.task, status'[cur'.task])
  <2> DEFINE states == [d \in Dests |-> IF d \in DestsOf[t] THEN "pending" ELSE "none"]
  <2>1. cur'.task = t
      BY <1>2 DEF PickDue, Process
  <2>2. status' = [status EXCEPT ![t] = states]
      BY <1>2, Zenon DEF PickDue
  <2>3. outcome' = AllDelivered(t, states)
      BY <1>2, Zenon DEF PickDue, Process
  <2>4. status'[t] = states
      BY <2>2, <1>0 DEF FileOK
  <2> HIDE DEF states
  <2> QED BY <2>1, <2>3, <2>4
<1>3. ASSUME EndRound PROVE outcome' <=> AllDelivered(cur'.task, status'[cur'.task])
  <2>1. Mine /\ UNCHANGED <<cur, status>>
      BY <1>3 DEF EndRound, Cancelled, file
  <2>2. outcome' = OutcomeNow
      BY <1>3, <2>1, Zenon DEF EndRound, Cancelled
  <2> QED BY <2>1, <2>2 DEF OutcomeNow
<1>4. ASSUME pc = "finalise", UNCHANGED <<cur, outcome>>, Mine, status'[cur.task] = status[cur.task]
      PROVE outcome' <=> AllDelivered(cur'.task, status'[cur'.task])
    BY <1>4 DEF OutcomePlain
<1>5. CASE UNCHANGED vars
    BY <1>4, <1>5 DEF vars, file, cycle, Mine
<1>6. ASSUME NEW t \in Tasks, Create(t) \/ ComesDue(t) PROVE outcome' <=> AllDelivered(cur'.task, status'[cur'.task])
    BY <1>0, <1>4, <1>6 DEF Create, ComesDue, cycle, Mine, HandInv, Working, DeliveryInv, ClaimInv, CycleOK, FileOK
<1>7. ASSUME NEW t \in Tasks, Remove(t) PROVE outcome' <=> AllDelivered(cur'.task, status'[cur'.task])
    BY <1>0, <1>4, <1>7 DEF Remove, DropClaim, cycle, Mine, CycleOK, FileOK
<1>8. CASE Wipe
    BY <1>0, <1>8 DEF Wipe, cycle, Mine, CycleOK, FileOK
<1>9. CASE Tick
    BY <1>4, <1>9 DEF Tick, cycle, Mine
<1>10. ~(Prepare \/ EndCycle \/ ReadRound \/ Accept \/ Reject \/ Settle \/ Finalise \/ IoFails \/ Crash \/ Restart)
       /\ ~(\E t \in Tasks : PassBy(t)) /\ ~(\E d \in Dests : Begin(d))
    BY DEF Prepare, EndCycle, ReadRound, Accept, Reject, Settle, Finalise, Continues, IoFails, Crash, Restart, PassBy, Begin,
           Cancelled
<1> QED
    BY <1>1, <1>2, <1>3, <1>5, <1>6, <1>7, <1>8, <1>9, <1>10 DEF Next, Delivery

LEMMA FailurePlainStep ==
    ASSUME DeliveryInv, StatesPlain, OutcomePlain, FailurePlain, ~LostAcks, [Next]_vars
    PROVE FailurePlain'
<1>0. TypeOK /\ FileOK /\ CycleOK /\ WorldOK /\ FlightInv
    BY DEF DeliveryInv, TypeOK
<1>1. CASE UNCHANGED <<failure, accepted>>
    BY <1>1 DEF FailurePlain
<1>2. CASE Accept
  <2>1. ~failure[cur.task] /\ UNCHANGED failure
      BY <1>0, <1>2 DEF Accept, FlightInv, file
  <2>2. \A t \in Tasks : t # cur.task => accepted'[t] = accepted[t]
      BY <1>0, <1>2 DEF Accept, WorldOK
  <2> QED BY <2>1, <2>2 DEF FailurePlain
<1>3. CASE Finalise /\ Mine
  <2>1. cur.task \in Tasks /\ \A t \in Tasks : t # cur.task => failure'[t] = failure[t] /\ accepted'[t] = accepted[t]
      BY <1>0, <1>3, FinaliseEffect
  <2>2. failure'[cur.task] => ~outcome /\ cur.task \notin Recurring
      BY <1>0, <1>3, <2>1 DEF Finalise, Continues, FileOK
  <2>3. cur.task \notin Recurring => accepted' = accepted
      BY <1>3, Zenon DEF Finalise, Continues
  <2>4. failure'[cur.task] /\ DestsOf[cur.task] # {} => \E d \in DestsOf[cur.task] : accepted'[cur.task][d] = 0
      BY <1>3, <2>2, <2>3, UnfinishedIsMissing DEF Finalise, Continues
  <2> QED BY <2>1, <2>4 DEF FailurePlain
<1>4. ~UNCHANGED <<failure, accepted>> => Accept \/ (Finalise /\ Mine)
  <2>1. Prepare \/ EndCycle \/ ReadRound \/ Reject \/ Settle \/ EndRound => UNCHANGED <<failure, accepted>>
      BY Zenon DEF Prepare, EndCycle, ReadRound, Reject, Settle, EndRound, world, file
  <2>2. IoFails \/ Crash \/ Restart \/ Wipe \/ Tick => UNCHANGED <<failure, accepted>>
      BY DEF IoFails, Crash, Restart, Wipe, Tick, world, file
  <2>3. \A t \in Tasks : PickClaim(t) \/ PassBy(t) \/ PickDue(t) \/ Create(t) \/ ComesDue(t) \/ Remove(t)
                         => UNCHANGED <<failure, accepted>>
      BY DEF PickClaim, PassBy, PickDue, Create, ComesDue, Remove, world, file
  <2>4. \A d \in Dests : Begin(d) => UNCHANGED <<failure, accepted>>
      BY Zenon DEF Begin, world, file
  <2>5. Finalise => Mine \/ UNCHANGED <<failure, accepted>>
      BY DEF Finalise, Continues, file
  <2>6. UNCHANGED vars => UNCHANGED <<failure, accepted>>
      BY DEF vars, world, file
  <2> QED BY <2>1, <2>2, <2>3, <2>4, <2>5, <2>6 DEF Next, Delivery
<1> QED
    BY <1>1, <1>2, <1>3, <1>4

\* Without crashes, failed writes and lost answers, a reminder reported as
\* failed has a destination that did not get it, for any reminders.
THEOREM FailuresHonest == Spec => []FailureIsHonest
<1>1. Init => DeliveryInv /\ HonestInv
    BY InvInit, HonestInit
<1>2. DeliveryInv /\ HonestInv /\ [Next]_vars => DeliveryInv' /\ HonestInv'
  <2> SUFFICES ASSUME DeliveryInv, HonestInv, [Next]_vars, Spotless' PROVE (StatesPlain /\ OutcomePlain /\ FailurePlain)'
      BY InvStep DEF HonestInv
  <2>1. Spotless /\ ~IoFails /\ ~Crash
      BY SpotlessBefore DEF DeliveryInv
  <2>2. StatesPlain /\ OutcomePlain /\ FailurePlain /\ ~LostAcks
      BY <2>1 DEF HonestInv, Spotless
  <2>3. StatesPlain'
      BY <2>1, <2>2, StatesPlainStep
  <2>4. OutcomePlain'
      BY <2>2, OutcomePlainStep DEF OutcomePlain
  <2>5. FailurePlain'
      BY <2>2, FailurePlainStep
  <2> QED BY <2>3, <2>4, <2>5
<1>3. DeliveryInv /\ HonestInv => FailureIsHonest
    BY TaskConstants DEF HonestInv, Spotless, FailurePlain, FailureIsHonest, DeliveryInv, TypeOK, WorldOK
<1> QED
    BY <1>1, <1>2, <1>3, PTL DEF Spec
====
