-------------------------- MODULE LeadOutboxProofs --------------------------
(* Theorems about LeadOutbox, for every set of leads, rows and senders and   *)
(* every bound on the attempts and the losses; and about Connections, which  *)
(* the rows are sent to, for every set of connections, handlers and batches. *)
EXTENDS Delivery, TLAPS

(* A record of loaded columns has its type, whatever is loaded.              *)
LEMMA ColumnTypes ==
  /\ \A a \in Nat, t \in Times : [attempts |-> a, next |-> t] \in Columns
  /\ \A c \in Columns : c.attempts \in Nat /\ c.next \in Times
  /\ \A v \in Statuses, a \in Nat, t \in Times : [status |-> v, attempts |-> a, next |-> t] \in Asked
  /\ \A c \in Asked : c.status \in Statuses /\ c.attempts \in Nat /\ c.next \in Times
  /\ Unloaded \in Columns /\ NotAsked \in Asked /\ Reopened \in Asked
BY DEF Columns, Asked, Unloaded, NotAsked, Reopened, Times, Statuses

(* What a sender records of a row has the type of the row's columns.         *)
LEMMA AfterTypes ==
  ASSUME TypeOK, NEW s \in Senders, NEW d \in Rows
  PROVE  /\ StatusAfter(s, d) \in Statuses
         /\ AttemptsAfter(s, d) \in Nat
         /\ NextAfter(s, d) \in Times
<1>1. /\ seen[s][d] \in Columns /\ result[s][d] \in Outcomes \cup {"none"}
      /\ status[d] \in Statuses /\ attempts[d] \in Nat /\ next[d] \in Times
  BY DEF TypeOK
<1>2. seen[s][d].attempts \in Nat
  BY <1>1, ColumnTypes
<1>3. StatusAfter(s, d) \in Statuses
  BY <1>1 DEF StatusAfter, Statuses, Settled
<1>4. AttemptsAfter(s, d) \in Nat
  BY <1>1, <1>2 DEF AttemptsAfter
<1>5. NextAfter(s, d) \in Times
  BY <1>1 DEF NextAfter, WriteBack, Times
<1> QED
  BY <1>3, <1>4, <1>5

(* A sender that sets its batch down leaves nothing of it behind.            *)
LEMMA SetDownTypes ==
  ASSUME TypeOK, NEW s \in Senders, SetDown(s)
  PROVE  /\ picked' \in [Senders -> SUBSET Rows]
         /\ seen' \in [Senders -> [Rows -> Columns]]
         /\ result' \in [Senders -> [Rows -> Outcomes \cup {"none"}]]
         /\ pc' \in [Senders -> SenderPCs]
<1>1. NoColumns \in [Rows -> Columns] /\ NoResults \in [Rows -> Outcomes \cup {"none"}]
  BY ColumnTypes DEF NoColumns, NoResults
<1>2. NoColumns \in [Rows -> Columns] => seen' \in [Senders -> [Rows -> Columns]]
  <2> HIDE DEF NoColumns
  <2> QED BY DEF SetDown, TypeOK
<1>3. result' \in [Senders -> [Rows -> Outcomes \cup {"none"}]]
  BY <1>1 DEF SetDown, TypeOK
<1>4. picked' \in [Senders -> SUBSET Rows]
  BY DEF SetDown, TypeOK
<1>5. pc' \in [Senders -> SenderPCs]
  BY DEF SetDown, TypeOK, Goto, SenderPCs
<1> QED
  BY <1>1, <1>2, <1>3, <1>4, <1>5

(* A sender that loads a batch has what the rows say.                        *)
LEMMA LoadTypes ==
  ASSUME TypeOK, NEW s \in Senders, NEW batch \in SUBSET Rows, Load(s, batch)
  PROVE  /\ picked' \in [Senders -> SUBSET Rows]
         /\ seen' \in [Senders -> [Rows -> Columns]]
<1> DEFINE new == [d \in Rows |-> IF d \in batch
                                  THEN [attempts |-> attempts[d], next |-> next[d]]
                                  ELSE Unloaded]
<1>1. new \in [Rows -> Columns]
  <2>1. \A d \in Rows : attempts[d] \in Nat /\ next[d] \in Times
    BY DEF TypeOK
  <2> QED
    BY <2>1, ColumnTypes
<1>2. seen' = [seen EXCEPT ![s] = new]
  BY DEF Load
<1>3. picked' = [picked EXCEPT ![s] = batch]
  BY DEF Load
<1> HIDE DEF new
<1> QED
  BY <1>1, <1>2, <1>3 DEF TypeOK

(* One step keeps the types.                                                 *)
LEMMA TypeStep == ASSUME TypeOK, [Next]_vars PROVE TypeOK'
<1> USE RowsAssumption, MaxLossesAssumption DEF Requests, Senders, row, sender, ghost, Api, Goto
<1>1. ASSUME NEW l \in Requests, Capture(l) PROVE TypeOK'
  BY <1>1 DEF Capture, TypeOK, ApiPCs
<1>2. ASSUME NEW l \in Requests, CaptureCommit(l) PROVE TypeOK'
  BY <1>2 DEF CaptureCommit, TypeOK, ApiPCs, Statuses, RowsOf
<1>3. ASSUME NEW p \in Requests, NEW d \in Rows, Press(p, d) PROVE TypeOK'
  <2> DEFINE c == [status |-> status[d], attempts |-> attempts[d], next |-> next[d]]
  <2>1. c \in Asked
    BY ColumnTypes DEF TypeOK
  <2>2. asked' = [asked EXCEPT ![p][d] = c]
    BY <1>3 DEF Press
  <2> HIDE DEF c
  <2>3. asked' \in [Presses -> [Rows -> Asked]]
    BY <2>1, <2>2 DEF TypeOK
  <2> QED
    BY <1>3, <2>3 DEF Press, Take, TypeOK, ApiPCs
<1>4. ASSUME NEW p \in Requests, NEW d \in Rows, PressCommit(p, d) PROVE TypeOK'
  <2>1. asked' \in [Presses -> [Rows -> Asked]]
    <3>1. Reopened \in Asked
      BY ColumnTypes
    <3>2. asked' = [asked EXCEPT ![p][d] = Reopened]
      BY <1>4 DEF PressCommit
    <3> QED
      BY <3>1, <3>2 DEF TypeOK
  <2>2. status' \in [Rows -> Statuses] /\ attempts' \in [Rows -> Nat] /\ next' \in [Rows -> Times]
    BY <1>4 DEF PressCommit, TypeOK, WriteBack, Statuses, Times
  <2> QED
    BY <1>4, <2>1, <2>2 DEF PressCommit, TypeOK, ApiPCs
<1>5. ASSUME NEW r \in Requests, RollBack(r) PROVE TypeOK'
  BY <1>5 DEF RollBack, TypeOK, ApiPCs
<1>6. ASSUME NEW r \in Requests, TaskLoad(r) PROVE TypeOK'
  <2> DEFINE batch == Pending \cap IF r \in Leads THEN RowsOf(r) ELSE Pressed(r)
  <2>1. batch \in SUBSET Rows /\ r \in Senders
    BY DEF Pending
  <2>2. Load(r, batch) /\ Take(batch)
    BY <1>6 DEF TaskLoad
  <2>3. picked' \in [Senders -> SUBSET Rows] /\ seen' \in [Senders -> [Rows -> Columns]]
    BY <2>1, <2>2, LoadTypes
  <2>4. pc' \in [Senders -> SenderPCs]
    BY <1>6 DEF TaskLoad, TypeOK, SenderPCs
  <2>5. raced' \subseteq Rows
    BY <2>1, <2>2 DEF Take, TypeOK
  <2> HIDE DEF batch
  <2> QED
    BY <2>2, <2>3, <2>4, <2>5 DEF Load, TypeOK
<1>7. ASSUME NEW s \in Senders, Select(s) PROVE TypeOK'
  BY <1>7 DEF Select, Take, TypeOK, SenderPCs
<1>8. ASSUME NEW s \in Senders, SweepLoad(s) PROVE TypeOK'
  <2>1. picked[s] \cap Pending \in SUBSET Rows
    BY DEF Pending
  <2>2. picked' \in [Senders -> SUBSET Rows] /\ seen' \in [Senders -> [Rows -> Columns]]
    BY <1>8, <2>1, LoadTypes DEF SweepLoad
  <2>3. pc' \in [Senders -> SenderPCs]
    BY <1>8 DEF SweepLoad, TypeOK, SenderPCs
  <2> QED
    BY <1>8, <2>2, <2>3 DEF SweepLoad, Load, TypeOK
<1>9. ASSUME NEW s \in Senders, NEW d \in Rows, NEW outcome \in Outcomes, Attempt(s, d, outcome)
      PROVE  TypeOK'
  BY <1>9 DEF Attempt, TypeOK
<1>10. ASSUME NEW s \in Senders, Record(s) PROVE TypeOK'
  <2>1. status' \in [Rows -> Statuses]
    BY <1>10, AfterTypes DEF Record, TypeOK
  <2>2. attempts' \in [Rows -> Nat]
    BY <1>10, AfterTypes DEF Record, TypeOK
  <2>3. next' \in [Rows -> Times]
    BY <1>10, AfterTypes DEF Record, TypeOK
  <2> QED
    BY <1>10, <2>1, <2>2, <2>3, SetDownTypes DEF Record, TypeOK
<1>11. ASSUME NEW s \in Senders, Lose(s) PROVE TypeOK'
  <2>1. unrecorded' \in [Rows -> Nat] /\ losses' \in 0 .. MaxLosses
    BY <1>11 DEF Lose, TypeOK
  <2>2. SetDown(s)
    BY <1>11 DEF Lose
  <2> QED
    BY <1>11, <2>1, <2>2, SetDownTypes DEF Lose, TypeOK
<1>12. ASSUME NEW d \in Rows, GraceOver(d) \/ BackoffOver(d) PROVE TypeOK'
  BY <1>12 DEF GraceOver, BackoffOver, TypeOK, Times
<1>13. CASE UNCHANGED vars
  BY <1>13 DEF vars, TypeOK
<1> QED
  BY <1>1, <1>2, <1>3, <1>4, <1>5, <1>6, <1>7, <1>8, <1>9, <1>10, <1>11, <1>12, <1>13
  DEF Next, ApiStep, SenderStep

(* The variables keep their types: no status outside the table's CHECK       *)
(* constraint (leads/models.py) is ever written.                             *)
THEOREM TypeCorrect == Spec => []TypeOK
<1>1. Init => TypeOK
  <2> SUFFICES ASSUME Init PROVE TypeOK
    OBVIOUS
  <2>1. seen \in [Senders -> [Rows -> Columns]]
    BY ColumnTypes DEF Init, NoColumns
  <2>2. result \in [Senders -> [Rows -> Outcomes \cup {"none"}]]
    BY DEF Init, NoResults
  <2>3. asked \in [Presses -> [Rows -> Asked]]
    BY ColumnTypes DEF Init
  <2> QED
    BY <2>1, <2>2, <2>3, MaxLossesAssumption
    DEF Init, TypeOK, Statuses, Times, ApiPCs, SenderPCs
<1> QED
  BY <1>1, TypeStep, PTL DEF Spec

(* An attempt that waits to be recorded as delivered has reached its         *)
(* destination, and so has a row that says so.                               *)
Delivered ==
  /\ DeliveredIsReceived
  /\ \A s \in Senders, d \in Rows : result[s][d] = "delivered" => d \in received

(* One step keeps both.                                                      *)
LEMMA DeliveredStep == ASSUME TypeOK, Delivered, [Next]_vars PROVE Delivered'
<1> USE DEF Delivered, DeliveredIsReceived, Requests, Senders, row, sender, ghost, Api, Goto
<1>1. ASSUME NEW r \in Requests, ApiStep(r) PROVE Delivered'
  <2>1. UNCHANGED <<result, received>>
    BY <1>1 DEF ApiStep, Capture, CaptureCommit, Press, PressCommit, RollBack
  <2>2. \A d \in Rows : status'[d] = "delivered" => status[d] = "delivered"
    <3>1. CASE CaptureCommit(r)
      BY <3>1 DEF CaptureCommit
    <3>2. ASSUME NEW d \in Rows, PressCommit(r, d)
          PROVE  \A e \in Rows : status'[e] = "delivered" => status[e] = "delivered"
      <4>1. \A e \in Rows : status'[e] = IF e = d THEN WriteBack(asked[r][d].status, "pending", status[d])
                                                  ELSE status[e]
        BY <3>2 DEF PressCommit, TypeOK
      <4> QED
        BY <4>1 DEF WriteBack
    <3>3. CASE Capture(r) \/ RollBack(r) \/ \E d \in Rows : Press(r, d)
      BY <3>3 DEF Capture, RollBack, Press
    <3> QED
      BY <1>1, <3>1, <3>2, <3>3 DEF ApiStep
  <2> QED
    BY <2>1, <2>2
<1>2. ASSUME NEW r \in Senders, TaskLoad(r) \/ Select(r) \/ SweepLoad(r) PROVE Delivered'
  BY <1>2 DEF TaskLoad, Select, SweepLoad, Load
<1>3. ASSUME NEW s \in Senders, NEW d \in Rows, NEW outcome \in Outcomes, Attempt(s, d, outcome)
      PROVE  Delivered'
  BY <1>3 DEF Attempt, TypeOK
<1>4. ASSUME NEW s \in Senders, Record(s) PROVE Delivered'
  <2>1. \A d \in Rows : status'[d] = "delivered" =>
                          status[d] = "delivered" \/ result[s][d] = "delivered"
    BY <1>4 DEF Record, StatusAfter, TypeOK
  <2>2. \A t \in Senders, d \in Rows : result'[t][d] = "delivered" => result[t][d] = "delivered"
    BY <1>4 DEF Record, SetDown, NoResults, TypeOK
  <2>3. received' = received
    BY <1>4 DEF Record
  <2> QED
    BY <2>1, <2>2, <2>3
<1>5. ASSUME NEW s \in Senders, Lose(s) PROVE Delivered'
  <2>1. \A t \in Senders, d \in Rows : result'[t][d] = "delivered" => result[t][d] = "delivered"
    BY <1>5 DEF Lose, SetDown, NoResults, TypeOK
  <2> QED
    BY <1>5, <2>1 DEF Lose
<1>6. ASSUME NEW d \in Rows, GraceOver(d) \/ BackoffOver(d) PROVE Delivered'
  BY <1>6 DEF GraceOver, BackoffOver
<1>7. CASE UNCHANGED vars
  BY <1>7 DEF vars
<1> QED
  BY <1>1, <1>2, <1>3, <1>4, <1>5, <1>6, <1>7 DEF Next, SenderStep

(* delivery.py:125: whatever is lost, repeated or recorded late, a row that  *)
(* says "delivered" was taken by its destination.                            *)
THEOREM DeliveredCorrect == Spec => []DeliveredIsReceived
<1>1. Init => Delivered
  BY DEF Init, Delivered, DeliveredIsReceived, NoResults
<1>2. Delivered => DeliveredIsReceived
  BY DEF Delivered
<1> QED
  BY <1>1, <1>2, DeliveredStep, TypeCorrect, PTL DEF Spec

(* A row exists when, and only when, its lead was committed; senders and     *)
(* presses have only rows that exist in hand.                                *)
Existing ==
  /\ \A d \in Rows : status[d] # "absent" <=> api[LeadOf[d]] = "committed"
  /\ \A s \in Senders : \A d \in picked[s] : status[d] # "absent"
  /\ \A p \in Presses : \A d \in Pressed(p) : status[d] # "absent"

(* What a sender records of a row that exists is that it exists.             *)
LEMMA AfterExists ==
  ASSUME TypeOK, NEW s \in Senders, NEW d \in Rows, status[d] # "absent"
  PROVE  /\ StatusAfter(s, d) # "absent"
         /\ status[d] \in Settled => StatusAfter(s, d) \in Settled
         /\ status[d] = "pending" => StatusAfter(s, d) \in Settled \cup {"pending"}
BY DEF TypeOK, StatusAfter, Settled, Statuses

(* One step: rows come into being with their lead, and never go.             *)
LEMMA ExistingStep == ASSUME TypeOK, Existing, [Next]_vars PROVE Existing'
<1> USE SendersAssumption, RowsAssumption
    DEF Existing, Requests, Senders, row, sender, ghost, Api, Goto, Pressed
<1>1. ASSUME NEW l \in Requests, Capture(l) \/ RollBack(l) PROVE Existing'
  BY <1>1 DEF Capture, RollBack, TypeOK
<1>2. ASSUME NEW l \in Requests, CaptureCommit(l) PROVE Existing'
  BY <1>2 DEF CaptureCommit, TypeOK, RowsOf
<1>3. ASSUME NEW p \in Requests, NEW d \in Rows, Press(p, d) PROVE Existing'
  BY <1>3 DEF Press, TypeOK
<1>4. ASSUME NEW p \in Requests, NEW d \in Rows, PressCommit(p, d) PROVE Existing'
  <2>1. \A e \in Rows : status'[e] # "absent" <=> status[e] # "absent"
    BY <1>4 DEF PressCommit, TypeOK, WriteBack
  <2>2. \A q \in Presses : \A e \in Rows : asked'[q][e] # NotAsked => asked[q][e] # NotAsked
    <3>1. \A q \in Presses : \A e \in Rows :
            asked'[q][e] = IF q = p /\ e = d THEN Reopened ELSE asked[q][e]
      BY <1>4 DEF PressCommit, TypeOK
    <3> QED
      BY <1>4, <3>1 DEF PressCommit
  <2>3. \A l \in Leads : api'[l] = api[l]
    BY <1>4 DEF PressCommit, TypeOK
  <2>4. picked' = picked
    BY <1>4 DEF PressCommit
  <2>5. \A e \in Rows : status'[e] # "absent" <=> api'[LeadOf[e]] = "committed"
    BY <2>1, <2>3
  <2>6. \A q \in Presses : \A e \in Rows : asked'[q][e] # NotAsked => status'[e] # "absent"
    BY <2>1, <2>2
  <2>7. \A t \in Senders : \A e \in picked'[t] : status'[e] # "absent"
    BY <2>1, <2>4 DEF TypeOK
  <2> QED
    BY <2>5, <2>6, <2>7
<1>5. ASSUME NEW r \in Requests, TaskLoad(r) PROVE Existing'
  BY <1>5 DEF TaskLoad, Load, TypeOK, Pending
<1>6. ASSUME NEW s \in Senders, Select(s) PROVE Existing'
  BY <1>6 DEF Select, TypeOK, Due
<1>7. ASSUME NEW s \in Senders, SweepLoad(s) PROVE Existing'
  BY <1>7 DEF SweepLoad, Load, TypeOK
<1>8. ASSUME NEW s \in Senders, NEW d \in Rows, NEW outcome \in Outcomes, Attempt(s, d, outcome)
      PROVE  Existing'
  BY <1>8 DEF Attempt
<1>9. ASSUME NEW s \in Senders, Record(s) PROVE Existing'
  <2>1. \A d \in Rows : status'[d] # "absent" <=> status[d] # "absent"
    BY <1>9, AfterExists DEF Record, TypeOK
  <2>2. \A t \in Senders : picked'[t] \subseteq picked[t]
    BY <1>9 DEF Record, SetDown, TypeOK
  <2> QED
    BY <1>9, <2>1, <2>2 DEF Record, TypeOK
<1>10. ASSUME NEW s \in Senders, Lose(s) PROVE Existing'
  <2>1. \A t \in Senders : picked'[t] \subseteq picked[t]
    BY <1>10 DEF Lose, SetDown, TypeOK
  <2> QED
    BY <1>10, <2>1 DEF Lose, TypeOK
<1>11. ASSUME NEW d \in Rows, GraceOver(d) \/ BackoffOver(d) PROVE Existing'
  BY <1>11 DEF GraceOver, BackoffOver
<1>12. CASE UNCHANGED vars
  BY <1>12 DEF vars
<1> QED
  BY <1>1, <1>2, <1>3, <1>4, <1>5, <1>6, <1>7, <1>8, <1>9, <1>10, <1>11, <1>12
  DEF Next, ApiStep, SenderStep

(* So they do, in every behaviour.                                           *)
LEMMA ExistingCorrect == Spec => []Existing
<1>1. Init => Existing
  BY RowsAssumption DEF Init, Existing, Pressed, Requests
<1> QED
  BY <1>1, ExistingStep, TypeCorrect, PTL DEF Spec

(* delivery.py:11: the outbox implements the abstract one.  CaptureCommit is *)
(* Capture, Record settles what it settles, PressCommit is Reopen, and every  *)
(* other step leaves owed, settled and pressed alone.                        *)
THEOREM RefinementCorrect == Spec => ImplementsOutbox
<1> DEFINE Closed == {d \in Rows : status[d] \in Settled}
           Answered == {p \in Presses : api[p] = "committed"}
<1>1. Init => Contract!Init
  BY DEF Init, Contract!Init, Pending, Settled, Requests
<1>2. TypeOK /\ Existing /\ [Next]_vars => [Contract!Next]_(Contract!vars)
  <2> SUFFICES ASSUME TypeOK, Existing, [Next]_vars
               PROVE  Contract!Next \/ UNCHANGED <<Pending, Closed, Answered>>
    BY DEF Contract!vars
  <2> USE SendersAssumption, RowsAssumption DEF Pending, Requests, Senders, row, sender, ghost, Api
  <2>1. ASSUME NEW l \in Requests, CaptureCommit(l) PROVE Contract!Capture(l) /\ l \in Leads
    <3>1. \A d \in RowsOf(l) : status[d] = "absent"
      BY <2>1 DEF CaptureCommit, Existing, RowsOf
    <3>2. RowsOf(l) \cap (Pending \cup Closed) = {}
      BY <3>1 DEF Settled
    <3>3. \A d \in Rows : status'[d] = IF d \in RowsOf(l) THEN "pending" ELSE status[d]
      BY <2>1 DEF CaptureCommit
    <3>4. Pending' = Pending \cup RowsOf(l)
      BY <3>3 DEF RowsOf
    <3>5. Closed' = Closed
      BY <3>1, <3>3 DEF Settled
    <3>6. Answered' = Answered
      BY <2>1 DEF CaptureCommit, TypeOK
    <3> QED
      BY <2>1, <3>2, <3>4, <3>5, <3>6 DEF Contract!Capture, RowsOf, CaptureCommit
  <2>2. ASSUME NEW p \in Requests, NEW d \in Rows, PressCommit(p, d)
        PROVE  Contract!Reopen(p, d) /\ p \in Presses
    <3>1. \A e \in Rows : status'[e] = IF e = d THEN WriteBack(asked[p][d].status, "pending", status[d])
                                                ELSE status[e]
      BY <2>2 DEF PressCommit, TypeOK
    <3>2. status[d] # "absent"
      BY <2>2 DEF PressCommit, Existing
    <3>3. p \in Presses /\ p \notin Answered /\ Answered' = Answered \cup {p}
      BY <2>2 DEF PressCommit, TypeOK
    <3>4. d \in Pending \cup Closed
      BY <3>2 DEF TypeOK, Statuses
    <3>5. CASE status'[d] = status[d]
      <4>1. UNCHANGED <<Pending, Closed>>
        BY <3>1, <3>5
      <4> QED
        BY <3>3, <3>4, <4>1 DEF Contract!Reopen
    <3>6. CASE status'[d] # status[d]
      <4>1. status'[d] = "pending"
        BY <3>1, <3>6 DEF WriteBack
      <4>2. Pending' = Pending \cup {d}
        BY <3>1, <4>1
      <4>3. Closed' = Closed \ {d}
        BY <3>1, <4>1 DEF Settled
      <4> QED
        BY <3>3, <3>4, <4>2, <4>3 DEF Contract!Reopen
    <3> QED
      BY <3>5, <3>6
  <2>3. ASSUME NEW s \in Senders, Record(s)
        PROVE  \E batch \in SUBSET Pending : Contract!Settle(batch)
    <3> DEFINE batch == {d \in Pending : status'[d] \in Settled}
    <3>1. \A d \in Rows : status'[d] = IF d \in picked[s] THEN StatusAfter(s, d) ELSE status[d]
      BY <2>3 DEF Record
    <3>2. \A d \in picked[s] : status[d] # "absent"
      BY DEF Existing
    <3>3. \A d \in Rows : /\ d \in Closed => status'[d] \in Settled
                          /\ d \in Pending => status'[d] \in Settled \cup {"pending"}
                          /\ d \notin Closed \cup Pending => status'[d] = status[d]
      BY <3>1, <3>2, AfterExists DEF TypeOK, Statuses
    <3>4. Pending' = Pending \ batch
      BY <3>3 DEF TypeOK, Settled, Statuses
    <3>5. Closed' = Closed \cup batch
      BY <3>3 DEF TypeOK, Settled, Statuses
    <3>6. Answered' = Answered
      BY <2>3 DEF Record
    <3> QED
      BY <3>4, <3>5, <3>6 DEF Contract!Settle
  <2>4. ASSUME NEW r \in Senders,
               \/ Capture(r) \/ RollBack(r) \/ TaskLoad(r) \/ Select(r) \/ SweepLoad(r) \/ Lose(r)
               \/ \E d \in Rows : Press(r, d)
               \/ \E d \in Rows, outcome \in Outcomes : Attempt(r, d, outcome)
        PROVE  UNCHANGED <<Pending, Closed, Answered>>
    <3>1. status' = status
      BY <2>4 DEF Capture, RollBack, TaskLoad, Load, Select, SweepLoad, Lose, Press, Attempt
    <3>2. \A p \in Presses : api'[p] = "committed" <=> api[p] = "committed"
      BY <2>4 DEF Capture, RollBack, TaskLoad, Load, Select, SweepLoad, Lose, Press, Attempt, TypeOK
    <3> QED
      BY <3>1, <3>2
  <2>5. ASSUME NEW d \in Rows, GraceOver(d) \/ BackoffOver(d)
        PROVE  UNCHANGED <<Pending, Closed, Answered>>
    BY <2>5 DEF GraceOver, BackoffOver
  <2>6. CASE UNCHANGED vars
    BY <2>6 DEF vars
  <2> QED
    BY <2>1, <2>2, <2>3, <2>4, <2>5, <2>6 DEF Next, ApiStep, SenderStep, Contract!Next
<1> QED
  BY <1>1, <1>2, TypeCorrect, ExistingCorrect, PTL DEF Spec, ImplementsOutbox, Contract!Spec

----------------------------------------------------------------------------
(* TriesBounded.  The strengthening speaks of each row that was never raced. *)

\* A press has row `d` in hand: it has loaded it and not committed yet.
Asks(p, d) == api[p] = "answered" /\ asked[p][d] # NotAsked

\* At most one party has the row in hand.
Alone(d) ==
  /\ \A s, t \in Senders : d \in picked[s] /\ d \in picked[t] => s = t
  /\ \A p, q \in Presses : Asks(p, d) /\ Asks(q, d) => p = q
  /\ \A p \in Presses, s \in Senders : Asks(p, d) => d \notin picked[s]

\* What that party has loaded of the row is still what the row says.
Current(d) ==
  /\ \A s \in Senders : result[s][d] # "none" => d \in picked[s] /\ pc[s] = "sending"
  /\ \A s \in Senders : d \in picked[s] /\ pc[s] = "sending" =>
                          status[d] = "pending" /\ seen[s][d].attempts = attempts[d]
  /\ \A p \in Presses : Asks(p, d) => /\ asked[p][d].status = status[d]
                                       /\ asked[p][d].attempts = attempts[d]
  /\ \A p \in Presses : api[p] = "idle" => asked[p][d] = NotAsked
  /\ status[d] = "absent" => attempts[d] = 0

OutboxInv == \A d \in Rows \ raced : Alone(d) /\ Current(d)

(* A row that was raced stays so.                                            *)
LEMMA RacedStays == ASSUME [Next]_vars PROVE raced \subseteq raced'
BY DEF Next, vars, ApiStep, SenderStep, Capture, CaptureCommit, Press, PressCommit, RollBack,
       TaskLoad, Select, SweepLoad, Load, Attempt, Record, Lose, GraceOver, BackoffOver, Take

(* One step: whoever takes a row that somebody has in hand marks it as raced. *)
LEMMA AloneStep ==
  ASSUME TypeOK, [Next]_vars, NEW d \in Rows, d \notin raced', d \notin raced,
         Alone(d), Current(d)
  PROVE  Alone(d)'
<1> USE SendersAssumption DEF Alone, Asks, Requests, Senders, row, sender, ghost, Api, Goto
<1>1. ASSUME NEW r \in Requests, Capture(r) \/ CaptureCommit(r) PROVE Alone(d)'
  BY <1>1 DEF Capture, CaptureCommit, TypeOK
<1>2. ASSUME NEW p \in Requests, NEW e \in Rows, Press(p, e) PROVE Alone(d)'
  <2>1. d = e => ~InHand(d)
    BY <1>2 DEF Press, Take
  <2>2. \A q \in Presses : Asks(q, d)' => Asks(q, d) \/ (q = p /\ d = e)
    <3>1. asked[p][d] = NotAsked
      BY <1>2 DEF Press, Current
    <3>2. \A q \in Presses : q # p => api'[q] = api[q] /\ asked'[q] = asked[q]
      BY <1>2 DEF Press, TypeOK
    <3>3. d # e => asked'[p][d] = asked[p][d]
      BY <1>2 DEF Press, TypeOK
    <3> QED
      BY <3>1, <3>2, <3>3
  <2>3. picked' = picked
    BY <1>2 DEF Press
  <2> QED
    BY <2>1, <2>2, <2>3 DEF InHand, Pressed
<1>3. ASSUME NEW p \in Requests, NEW e \in Rows, PressCommit(p, e) PROVE Alone(d)'
  <2>1. \A q \in Presses : Asks(q, d)' => Asks(q, d)
    BY <1>3 DEF PressCommit, TypeOK
  <2> QED
    BY <1>3, <2>1 DEF PressCommit
<1>4. ASSUME NEW r \in Requests, RollBack(r) PROVE Alone(d)'
  BY <1>4 DEF RollBack, TypeOK
<1>5. ASSUME NEW s \in Senders, NEW batch, d \in batch => ~InHand(d) \/ d \in picked[s],
             picked' = [picked EXCEPT ![s] = batch], UNCHANGED <<api, asked>>
      PROVE  Alone(d)'
  <2>1. \A t \in Senders : d \in picked'[t] => IF t = s THEN d \in batch ELSE d \in picked[t]
    BY <1>5 DEF TypeOK
  <2>2. CASE d \in batch /\ ~InHand(d)
    BY <1>5, <2>1, <2>2 DEF InHand, Pressed
  <2>3. CASE d \in batch => d \in picked[s]
    BY <1>5, <2>1, <2>3
  <2> QED
    BY <1>5, <2>2, <2>3
<1>6. ASSUME NEW r \in Requests, TaskLoad(r) PROVE Alone(d)'
  BY <1>5, <1>6 DEF TaskLoad, Load, Take
<1>7. ASSUME NEW s \in Senders, Select(s) PROVE Alone(d)'
  BY <1>5, <1>7 DEF Select, Take
<1>8. ASSUME NEW s \in Senders, SweepLoad(s) PROVE Alone(d)'
  BY <1>5, <1>8 DEF SweepLoad, Load
<1>9. ASSUME NEW s \in Senders, Record(s) \/ Lose(s) PROVE Alone(d)'
  BY <1>5, <1>9 DEF Record, Lose, SetDown
<1>10. ASSUME NEW s \in Senders, NEW e \in Rows, NEW outcome \in Outcomes, Attempt(s, e, outcome)
       PROVE  Alone(d)'
  BY <1>10 DEF Attempt
<1>11. ASSUME NEW e \in Rows, GraceOver(e) \/ BackoffOver(e) PROVE Alone(d)'
  BY <1>11 DEF GraceOver, BackoffOver
<1>12. CASE UNCHANGED vars
  BY <1>12 DEF vars
<1> QED
  BY <1>1, <1>2, <1>3, <1>4, <1>6, <1>7, <1>8, <1>9, <1>10, <1>11, <1>12
  DEF Next, ApiStep, SenderStep

(* One step: nobody writes a row that another party has in hand.             *)
LEMMA CurrentStep ==
  ASSUME TypeOK, Existing, [Next]_vars,
         NEW d \in Rows, d \notin raced', d \notin raced, Alone(d), Current(d)
  PROVE  Current(d)'
<1> USE SendersAssumption, RowsAssumption
    DEF Current, Asks, Requests, Senders, row, sender, ghost, Api, Goto
<1>1. ASSUME NEW r \in Requests, Capture(r) PROVE Current(d)'
  BY <1>1 DEF Capture, TypeOK
<1>2. ASSUME NEW l \in Requests, CaptureCommit(l) PROVE Current(d)'
  <2>1. d \in RowsOf(l) => status[d] = "absent"
    BY <1>2 DEF CaptureCommit, Existing, RowsOf
  <2>2. d \in RowsOf(l) => \A p \in Presses : asked[p][d] = NotAsked
    BY <2>1 DEF Existing, Pressed
  <2>3. d \in RowsOf(l) => \A s \in Senders : d \notin picked[s]
    BY <2>1 DEF Existing
  <2>4. \A p \in Presses : api'[p] = api[p]
    BY <1>2 DEF CaptureCommit, TypeOK
  <2>5. status'[d] = IF d \in RowsOf(l) THEN "pending" ELSE status[d]
    BY <1>2 DEF CaptureCommit
  <2> QED
    BY <1>2, <2>1, <2>2, <2>3, <2>4, <2>5 DEF CaptureCommit
<1>3. ASSUME NEW p \in Requests, NEW e \in Rows, Press(p, e) PROVE Current(d)'
  <2> DEFINE c == [status |-> status[e], attempts |-> attempts[e], next |-> next[e]]
  <2>1. c.status = status[e] /\ c.attempts = attempts[e]
    OBVIOUS
  <2>2. asked' = [asked EXCEPT ![p][e] = c]
    BY <1>3 DEF Press
  <2> HIDE DEF c
  <2>3. \A q \in Presses : asked'[q][d] = IF q = p /\ d = e THEN c ELSE asked[q][d]
    BY <2>2 DEF TypeOK
  <2>4. \A q \in Presses : api'[q] = IF q = p THEN "answered" ELSE api[q]
    BY <1>3 DEF Press, TypeOK
  <2>5. asked[p][d] = NotAsked
    BY <1>3 DEF Press
  <2> QED
    BY <1>3, <2>1, <2>3, <2>4, <2>5 DEF Press
<1>4. ASSUME NEW p \in Requests, NEW e \in Rows, PressCommit(p, e) PROVE Current(d)'
  <2>1. \A q \in Presses : q # p => asked'[q] = asked[q] /\ api'[q] = api[q]
    BY <1>4 DEF PressCommit, TypeOK
  <2>2. api'[p] = "committed"
    BY <1>4 DEF PressCommit, TypeOK
  <2>3. CASE d = e
    <3>1. Asks(p, d)
      BY <1>4, <2>3 DEF PressCommit, Pressed
    <3>2. \A q \in Presses : q # p => ~Asks(q, d)
      BY <1>4, <3>1 DEF Alone, PressCommit
    <3>3. \A s \in Senders : d \notin picked[s]
      BY <1>4, <3>1 DEF Alone, PressCommit
    <3>4. status'[d] # "absent"
      BY <1>4, <2>3 DEF PressCommit, Existing, WriteBack, TypeOK
    <3> QED
      BY <1>4, <2>1, <2>2, <3>2, <3>3, <3>4 DEF PressCommit
  <2>4. CASE d # e
    <3>1. status'[d] = status[d] /\ attempts'[d] = attempts[d]
      BY <1>4, <2>4 DEF PressCommit, TypeOK
    <3> QED
      BY <1>4, <2>1, <2>2, <3>1 DEF PressCommit
  <2> QED
    BY <2>3, <2>4
<1>5. ASSUME NEW r \in Requests, RollBack(r) PROVE Current(d)'
  BY <1>5 DEF RollBack, TypeOK
<1>6. ASSUME NEW s \in Senders, NEW batch \in SUBSET Pending, Load(s, batch), pc[s] # "sending",
             NEW place, pc' = [pc EXCEPT ![s] = place]
      PROVE  Current(d)'
  <2>1. d \in batch => status[d] = "pending"
    BY DEF Pending
  <2>2. seen'[s][d].attempts = IF d \in batch THEN attempts[d] ELSE Unloaded.attempts
    BY <1>6 DEF Load, TypeOK
  <2>3. \A t \in Senders : picked'[t] = IF t = s THEN batch ELSE picked[t]
    BY <1>6 DEF Load, TypeOK
  <2>4. \A t \in Senders : t # s => seen'[t] = seen[t] /\ pc'[t] = pc[t]
    BY <1>6 DEF Load, TypeOK
  <2>5. result[s][d] = "none"
    BY <1>6
  <2> QED
    BY <1>6, <2>1, <2>2, <2>3, <2>4, <2>5 DEF Load
<1>7. ASSUME NEW r \in Requests, TaskLoad(r) PROVE Current(d)'
  <2> DEFINE batch == Pending \cap IF r \in Leads THEN RowsOf(r) ELSE Pressed(r)
  <2>1. batch \in SUBSET Pending
    OBVIOUS
  <2>2. Load(r, batch) /\ pc[r] # "sending"
    BY <1>7 DEF TaskLoad
  <2>3. pc' = [pc EXCEPT ![r] = IF batch = {} THEN "done" ELSE "sending"]
    BY <1>7 DEF TaskLoad
  <2> HIDE DEF batch
  <2> QED
    BY <1>6, <2>1, <2>2, <2>3
<1>8. ASSUME NEW s \in Senders, SweepLoad(s) PROVE Current(d)'
  BY <1>6, <1>8 DEF SweepLoad
<1>9. ASSUME NEW s \in Senders, Select(s) PROVE Current(d)'
  BY <1>9 DEF Select, TypeOK
<1>10. ASSUME NEW s \in Senders, NEW e \in Rows, NEW outcome \in Outcomes, Attempt(s, e, outcome)
       PROVE  Current(d)'
  BY <1>10 DEF Attempt, TypeOK
<1>11. ASSUME NEW s \in Senders, SetDown(s), UNCHANGED <<api, asked>>,
              d \notin picked[s] => UNCHANGED <<status[d], attempts[d]>>,
              status[d] # "absent" => status'[d] # "absent",
              status[d] = "absent" => d \notin picked[s]
       PROVE  Current(d)'
  <2>1. \A t \in Senders : t # s => /\ picked'[t] = picked[t] /\ seen'[t] = seen[t]
                                    /\ result'[t] = result[t] /\ pc'[t] = pc[t]
    BY <1>11 DEF SetDown, TypeOK
  <2>2. picked'[s] = {} /\ result'[s][d] = "none"
    BY <1>11 DEF SetDown, TypeOK, NoResults
  <2>3. CASE d \in picked[s]
    <3>1. \A t \in Senders : t # s => d \notin picked[t]
      BY <2>3 DEF Alone
    <3>2. \A p \in Presses : ~Asks(p, d)
      BY <2>3 DEF Alone
    <3> QED
      BY <1>11, <2>1, <2>2, <2>3, <3>1, <3>2
  <2>4. CASE d \notin picked[s]
    BY <1>11, <2>1, <2>2, <2>4
  <2> QED
    BY <2>3, <2>4
<1>12. ASSUME NEW s \in Senders, Record(s) PROVE Current(d)'
  <2>1. d \in picked[s] => status[d] # "absent"
    BY DEF Existing
  <2>2. status[d] # "absent" => status'[d] # "absent"
    BY <1>12, AfterExists DEF Record
  <2>3. d \notin picked[s] => UNCHANGED <<status[d], attempts[d]>>
    BY <1>12 DEF Record
  <2> QED
    BY <1>11, <1>12, <2>1, <2>2, <2>3 DEF Record
<1>13. ASSUME NEW s \in Senders, Lose(s) PROVE Current(d)'
  <2>1. d \in picked[s] => status[d] # "absent"
    BY DEF Existing
  <2> QED
    BY <1>11, <1>13, <2>1 DEF Lose
<1>14. ASSUME NEW e \in Rows, GraceOver(e) \/ BackoffOver(e) PROVE Current(d)'
  BY <1>14 DEF GraceOver, BackoffOver
<1>15. CASE UNCHANGED vars
  BY <1>15 DEF vars
<1> QED
  BY <1>1, <1>2, <1>3, <1>4, <1>5, <1>7, <1>8, <1>9, <1>10, <1>12, <1>13, <1>14, <1>15
  DEF Next, ApiStep, SenderStep

(* Accounted, of one row.                                                    *)
Counted(d) ==
  /\ status[d] = "pending" => attempts[d] < MaxAttempts
  /\ attempts[d] <= MaxAttempts
  /\ tries[d] = attempts[d] + unrecorded[d]
                  + IF \E s \in Senders : Unsettled(s, d) THEN 1 ELSE 0

(* A step that attempts nothing and records nothing of a row counts nothing. *)
LEMMA CountedKept ==
  ASSUME NEW d, Counted(d), \A s \in Senders : Unsettled(s, d)' <=> Unsettled(s, d),
         UNCHANGED <<status[d], attempts[d], tries[d], unrecorded[d]>>
  PROVE  Counted(d)'
<1>1. (\E s \in Senders : Unsettled(s, d)') <=> (\E s \in Senders : Unsettled(s, d))
  OBVIOUS
<1> QED
  BY <1>1 DEF Counted

(* A batch that is set down leaves its sender nothing unsettled, and the      *)
(* others what they had.                                                     *)
LEMMA SetDownUnsettled ==
  ASSUME TypeOK, NEW s \in Senders, NEW d \in Rows, SetDown(s)
  PROVE  \A t \in Senders : Unsettled(t, d)' <=> t # s /\ Unsettled(t, d)
<1>1. \A t \in Senders : result'[t] = IF t = s THEN NoResults ELSE result[t]
  BY DEF SetDown, TypeOK
<1> QED
  BY <1>1 DEF Unsettled, NoResults

(* One step: no attempt of a row that was never raced is forgotten.          *)
LEMMA CountedStep ==
  ASSUME TypeOK, Existing, [Next]_vars,
         NEW d \in Rows, d \notin raced', d \notin raced, Alone(d), Current(d), Counted(d)
  PROVE  Counted(d)'
<1> USE SendersAssumption, RowsAssumption, MaxAttemptsAssumption
    DEF Requests, Senders, row, sender, ghost, Api, Goto
<1>1. ASSUME NEW l \in Requests, CaptureCommit(l) PROVE Counted(d)'
  <2>1. CASE d \in RowsOf(l)
    <3>1. status[d] = "absent"
      BY <1>1, <2>1 DEF CaptureCommit, Existing, RowsOf
    <3>2. attempts[d] = 0
      BY <3>1 DEF Current
    <3>3. UNCHANGED <<attempts, tries, unrecorded, result>>
      BY <1>1 DEF CaptureCommit
    <3> QED
      BY <3>2, <3>3 DEF Counted, Unsettled
  <2>2. CASE d \notin RowsOf(l)
    BY <1>1, <2>2, CountedKept DEF CaptureCommit, Unsettled
  <2> QED
    BY <2>1, <2>2
<1>2. ASSUME NEW p \in Requests, NEW e \in Rows, PressCommit(p, e) PROVE Counted(d)'
  <2>1. CASE d = e
    <3>1. Asks(p, d) /\ p \in Presses
      BY <1>2, <2>1 DEF PressCommit, Pressed, Asks
    <3>2. asked[p][d].attempts = attempts[d]
      BY <3>1 DEF Current
    <3>3. attempts'[d] = 0 /\ tries'[d] = 0 /\ unrecorded'[d] = 0
      BY <1>2, <2>1, <3>2 DEF PressCommit, WriteBack, TypeOK
    <3>4. \A s \in Senders : result'[s][d] = "none"
      BY <1>2, <3>1 DEF PressCommit, Alone, Current
    <3> QED
      BY <3>3, <3>4 DEF Counted, Unsettled
  <2>2. CASE d # e
    BY <1>2, <2>2, CountedKept DEF PressCommit, TypeOK, Unsettled
  <2> QED
    BY <2>1, <2>2
<1>3. ASSUME NEW s \in Senders, NEW e \in Rows, NEW outcome \in Outcomes, Attempt(s, e, outcome)
      PROVE  Counted(d)'
  <2>1. \A t \in Senders : result'[t][d] = IF t = s /\ d = e THEN outcome ELSE result[t][d]
    BY <1>3 DEF Attempt, TypeOK
  <2>2. CASE d # e
    BY <1>3, <2>1, <2>2, CountedKept DEF Attempt, TypeOK, Unsettled
  <2>3. CASE d = e
    <3>1. \A t \in Senders : ~Unsettled(t, d)
      BY <1>3, <2>3 DEF Attempt, Unsettled, Current, Alone
    <3>2. tries'[d] = IF outcome = "skipped" THEN tries[d] ELSE tries[d] + 1
      BY <1>3, <2>3 DEF Attempt, TypeOK
    <3>3. (\E t \in Senders : Unsettled(t, d)') <=> outcome # "skipped"
      BY <2>1, <2>3, <3>1 DEF Unsettled, Outcomes
    <3>4. UNCHANGED <<status, attempts, unrecorded>>
      BY <1>3 DEF Attempt
    <3> QED
      BY <3>1, <3>2, <3>3, <3>4 DEF Counted, TypeOK
  <2> QED
    BY <2>2, <2>3
<1>4. ASSUME NEW s \in Senders, SetDown(s), d \notin picked[s],
             UNCHANGED <<status[d], attempts[d], tries[d], unrecorded[d]>>
      PROVE  Counted(d)'
  <2>1. ~Unsettled(s, d)
    BY <1>4 DEF Current, Unsettled
  <2> QED
    BY <1>4, <2>1, SetDownUnsettled, CountedKept
<1>5. ASSUME NEW s \in Senders, Record(s) PROVE Counted(d)'
  <2>1. SetDown(s) /\ UNCHANGED <<tries, unrecorded>>
    BY <1>5 DEF Record
  <2>2. CASE d \notin picked[s]
    BY <1>4, <1>5, <2>1, <2>2 DEF Record
  <2>3. CASE d \in picked[s]
    <3>1. \A t \in Senders : t # s => ~Unsettled(t, d)
      BY <2>3 DEF Alone, Current, Unsettled
    <3>2. ~\E t \in Senders : Unsettled(t, d)'
      BY <2>1, <3>1, SetDownUnsettled
    <3>3. status[d] = "pending" /\ seen[s][d].attempts = attempts[d]
      BY <1>5, <2>3 DEF Record, Current
    <3>4. status'[d] = StatusAfter(s, d) /\ attempts'[d] = AttemptsAfter(s, d)
      BY <1>5, <2>3 DEF Record
    <3>5. result[s][d] \in Outcomes
      BY <1>5, <2>3 DEF Record, TypeOK
    <3>6. attempts[d] \in Nat /\ tries[d] \in Nat /\ unrecorded[d] \in Nat
      BY DEF TypeOK
    <3>7. (\E t \in Senders : Unsettled(t, d)) <=> result[s][d] # "skipped"
      BY <3>1, <3>5 DEF Unsettled, Outcomes
    <3>8. CASE result[s][d] = "skipped"
      BY <2>1, <3>2, <3>3, <3>4, <3>6, <3>7, <3>8 DEF Counted, StatusAfter, AttemptsAfter
    <3>9. CASE result[s][d] # "skipped"
      BY <2>1, <3>2, <3>3, <3>4, <3>5, <3>6, <3>7, <3>9
      DEF Counted, StatusAfter, AttemptsAfter, LastAttempt, Outcomes
    <3> QED
      BY <3>8, <3>9
  <2> QED
    BY <2>2, <2>3
<1>6. ASSUME NEW s \in Senders, Lose(s) PROVE Counted(d)'
  <2>1. SetDown(s) /\ UNCHANGED <<status, attempts, tries>>
    BY <1>6 DEF Lose
  <2>2. unrecorded'[d] = IF Unsettled(s, d) THEN unrecorded[d] + 1 ELSE unrecorded[d]
    BY <1>6 DEF Lose, Unsettled
  <2>3. CASE ~Unsettled(s, d)
    BY <2>1, <2>2, <2>3, SetDownUnsettled, CountedKept
  <2>4. CASE Unsettled(s, d)
    <3>1. \A t \in Senders : t # s => ~Unsettled(t, d)
      BY <2>4 DEF Alone, Current, Unsettled
    <3>2. ~\E t \in Senders : Unsettled(t, d)'
      BY <2>1, <3>1, SetDownUnsettled
    <3> QED
      BY <2>1, <2>2, <2>4, <3>2 DEF Counted, TypeOK
  <2> QED
    BY <2>3, <2>4
<1>7. ASSUME UNCHANGED <<status, attempts, tries, unrecorded, result>> PROVE Counted(d)'
  BY <1>7, CountedKept DEF Unsettled
<1>8. ASSUME NEW r \in Senders,
             \/ Capture(r) \/ RollBack(r) \/ TaskLoad(r) \/ Select(r) \/ SweepLoad(r)
             \/ \E e \in Rows : Press(r, e)
      PROVE  Counted(d)'
  BY <1>7, <1>8 DEF Capture, RollBack, TaskLoad, Load, Select, SweepLoad, Press
<1>9. ASSUME NEW e \in Rows, GraceOver(e) \/ BackoffOver(e) PROVE Counted(d)'
  BY <1>7, <1>9 DEF GraceOver, BackoffOver
<1>10. CASE UNCHANGED vars
  BY <1>7, <1>10 DEF vars
<1> QED
  BY <1>1, <1>2, <1>3, <1>5, <1>6, <1>8, <1>9, <1>10 DEF Next, ApiStep, SenderStep

(* models.py:83: whatever is lost, a row that two parties never had in hand  *)
(* at once is attempted at most MAX_DELIVERY_ATTEMPTS times, and once more    *)
(* for each batch that was lost with it.                                     *)
THEOREM TriesCorrect == Spec => []TriesBounded
<1> DEFINE IInv == OutboxInv /\ Accounted
<1>1. Init => IInv
  <2> SUFFICES ASSUME Init PROVE IInv
    OBVIOUS
  <2>1. OutboxInv
    BY DEF Init, OutboxInv, Alone, Current, Asks, Requests, NoResults
  <2>2. Accounted
    BY MaxAttemptsAssumption DEF Init, Accounted, Unsettled, NoResults
  <2> QED
    BY <2>1, <2>2
<1>2. TypeOK /\ Existing /\ IInv /\ [Next]_vars => IInv'
  <2> SUFFICES ASSUME TypeOK, Existing, IInv, [Next]_vars PROVE IInv'
    OBVIOUS
  <2>1. ASSUME NEW d \in Rows, d \notin raced' PROVE Alone(d)' /\ Current(d)' /\ Counted(d)'
    <3>1. d \notin raced
      BY <2>1, RacedStays
    <3>2. Alone(d) /\ Current(d) /\ Counted(d)
      BY <3>1 DEF OutboxInv, Accounted, Counted
    <3> QED
      BY <2>1, <3>1, <3>2, AloneStep, CurrentStep, CountedStep
  <2> QED
    BY <2>1 DEF OutboxInv, Accounted, Counted
<1>3. TypeOK /\ IInv => TriesBounded
  <2> SUFFICES ASSUME TypeOK, IInv, NEW d \in Rows \ raced
               PROVE  tries[d] <= MaxAttempts + unrecorded[d]
    BY DEF TriesBounded
  <2>1. \A s \in Senders : Unsettled(s, d) => status[d] = "pending"
    BY DEF OutboxInv, Current, Unsettled
  <2> QED
    BY <2>1, MaxAttemptsAssumption DEF Accounted, TypeOK
<1> QED
  BY <1>1, <1>2, <1>3, TypeCorrect, ExistingCorrect, PTL DEF Spec

-----------------------------------------------------------------------------
(* Where the leads go: Connections                                           *)

(* The rows of integrations.                                                 *)
ConnRows == [provider : Providers, status : Conn!Statuses, key : Keys, covers : BOOLEAN]

(* What is read is a row, and what is owed is owed to a connection.          *)
ConnTypes ==
  /\ conn \in [Conn!Live -> ConnRows]
  /\ DOMAIN req = Handlers /\ DOMAIN lead = Submissions /\ DOMAIN job = Batches
  /\ \A h \in Handlers :
       /\ req[h].at = "connecting" =>
            /\ req[h].provider \in Providers /\ req[h].key \in Keys
            /\ req[h].covers \in BOOLEAN
       /\ req[h].at = "testing" => req[h].saw \in ConnRows
       /\ req[h].at = "asked" => req[h].saw \in ConnRows /\ req[h].new \in ConnRows
  /\ \A s \in Batches :
       job[s].at = "sending" => job[s].saw \in ConnRows /\ job[s].new \in ConnRows
  /\ \A r \in rows : r.id \in Conn!Live

(* What a request about connection i has read and made of it is paused.      *)
LeavesPaused(q, i) ==
  /\ q.at = "testing" /\ q.id = i => q.saw.status = "disabled"
  /\ q.at = "asked" /\ q.id = i => q.saw.status = "disabled" /\ q.new.status = "disabled"

(* Connection i is paused, and nothing on its way to it can undo that.       *)
LeftAlone(i) ==
  /\ i \in Conn!Live /\ conn[i].status = "disabled"
  /\ \A h \in Handlers : LeavesPaused(req[h], i)
  /\ \A l \in Submissions : lead[l].at = "captured" => i \notin lead[l].to
  /\ \A r \in rows : r.id # i
  /\ \A s \in Batches : job[s].at = "sending" => job[s].id # i

(* So it is for those that were paused with nothing on its way to them.      *)
PausedInv == \A i \in paused : LeftAlone(i)

(* A commit of the columns that differ leaves a row, of the status that was  *)
(* asked for or of the one that is there.                                    *)
LEMMA WrittenRow ==
  ASSUME NEW current \in ConnRows, NEW saw \in ConnRows, NEW new \in ConnRows
  PROVE  /\ Conn!Written(current, saw, new) \in ConnRows
         /\ Conn!Written(current, saw, new).status =
               IF new.status # saw.status THEN new.status ELSE current.status
<1> DEFINE w == Conn!Written(current, saw, new)
<1>1. w = [c \in {"provider", "status", "key", "covers"} |->
             IF new[c] # saw[c] THEN new[c] ELSE current[c]]
  BY DEF Conn!Written, ConnRows
<1>2. w = [provider |-> w.provider, status |-> w.status, key |-> w.key, covers |-> w.covers]
  <2> HIDE DEF w
  <2> HIDE DEF ConnTypes, PausedInv, LeftAlone, LeavesPaused
  <2> QED
    BY <1>1
<1>3. /\ w.provider \in Providers /\ w.status \in Conn!Statuses
      /\ w.key \in Keys /\ w.covers \in BOOLEAN
      /\ w.status = IF new.status # saw.status THEN new.status ELSE current.status
  <2> HIDE DEF w
  <2> HIDE DEF ConnTypes, PausedInv, LeftAlone, LeavesPaused
  <2> QED
    BY <1>1 DEF ConnRows
<1> HIDE DEF w
<1>4. w \in ConnRows
  BY <1>2, <1>3 DEF ConnRows
<1> QED
  BY <1>3, <1>4 DEF w

(* Nothing has been paused at first.                                         *)
LEMMA ConnInit == Conn!Init => ConnTypes /\ PausedInv
<1> SUFFICES ASSUME Conn!Init PROVE ConnTypes /\ PausedInv
  OBVIOUS
<1>1. PICK known : conn \in [known -> ConnRows]
  BY DEF Conn!Init, ConnRows
<1>2. conn \in [Conn!Live -> ConnRows]
  BY <1>1 DEF Conn!Live
<1> HIDE DEF ConnTypes, PausedInv, LeftAlone, LeavesPaused
<1> QED
  BY <1>2 DEF Conn!Init, ConnTypes, PausedInv, LeftAlone, Conn!Idle

(* Every step leaves those connections alone, or is the owner's.             *)
LEMMA ConnStep ==
  ASSUME ConnTypes, PausedInv, [Conn!Next]_(Conn!vars)
  PROVE  ConnTypes' /\ PausedInv'
<1> USE DEF ConnTypes, PausedInv, LeftAlone, LeavesPaused
<1>0. Conn!Idle.at = "idle" /\ \A i : LeavesPaused(Conn!Idle, i)
  BY DEF Conn!Idle
<1>1. ASSUME NEW h \in Handlers, NEW q, req' = [req EXCEPT ![h] = q],
             UNCHANGED <<conn, lead, rows, job>>, paused' \subseteq paused,
             q.at = "connecting" =>
                q.provider \in Providers /\ q.key \in Keys /\ q.covers \in BOOLEAN,
             q.at = "testing" => q.saw \in ConnRows,
             q.at = "asked" => q.saw \in ConnRows /\ q.new \in ConnRows,
             \A i \in paused' : LeavesPaused(q, i)
      PROVE  ConnTypes' /\ PausedInv'
  BY <1>1 DEF Conn!Live
<1>2. ASSUME NEW h \in Handlers, NEW i \in Conn!Live, NEW new \in ConnRows,
             Conn!Ask(h, i, new), UNCHANGED <<conn, lead, rows, job>>,
             paused' \subseteq paused, i \in paused' => new.status = "disabled"
      PROVE  ConnTypes' /\ PausedInv'
  <2> DEFINE q == [at |-> "asked", id |-> i, saw |-> conn[i], new |-> new]
  <2>1. req' = [req EXCEPT ![h] = q]
    BY <1>2 DEF Conn!Ask, Conn!Go
  <2>2. /\ q.at = "asked" /\ q.saw \in ConnRows /\ q.new \in ConnRows
        /\ \A j \in paused' : LeavesPaused(q, j)
    BY <1>2
  <2> HIDE DEF q
  <2> HIDE DEF ConnTypes, PausedInv, LeftAlone, LeavesPaused
  <2> QED
    BY <1>1, <1>2, <2>1, <2>2
<1>3. ASSUME NEW h \in Handlers, NEW p \in Providers, NEW key \in Keys,
             NEW covers \in BOOLEAN, Conn!Connect(h, p, key, covers)
      PROVE  ConnTypes' /\ PausedInv'
  <2>1. CASE Conn!Of(p) = {}
    <3> DEFINE q == [at |-> "connecting", provider |-> p, key |-> key, covers |-> covers]
    <3>1. req' = [req EXCEPT ![h] = q] /\ UNCHANGED <<conn, lead, rows, job, paused>>
      BY <1>3, <2>1 DEF Conn!Connect, Conn!Go, Conn!queues
    <3>2. /\ q.at = "connecting" /\ q.provider \in Providers /\ q.key \in Keys
          /\ q.covers \in BOOLEAN /\ \A j \in paused' : LeavesPaused(q, j)
      OBVIOUS
    <3> HIDE DEF q
    <3> HIDE DEF ConnTypes, PausedInv, LeftAlone, LeavesPaused
    <3> QED
      BY <1>1, <3>1, <3>2
  <2>2. CASE Conn!Of(p) # {}
    <3> DEFINE new == Conn!NewConnection(p, key, covers)
    <3>1. PICK i \in Conn!Of(p) : Conn!Ask(h, i, new) /\ paused' = paused \ {i}
      BY <1>3, <2>2 DEF Conn!Connect
    <3>2. new \in ConnRows
      BY DEF Conn!NewConnection, ConnRows, Conn!Statuses
    <3>3. i \in Conn!Live /\ UNCHANGED <<conn, lead, rows, job>>
      BY <1>3, <3>1 DEF Conn!Connect, Conn!Of, Conn!queues
    <3> HIDE DEF new
    <3> HIDE DEF ConnTypes, PausedInv, LeftAlone, LeavesPaused
    <3> QED
      BY <1>2, <3>1, <3>2, <3>3
  <2> QED
    BY <2>1, <2>2
<1>4. ASSUME NEW h \in Handlers, NEW i \in Ids, Conn!Insert(h, i)
      PROVE  ConnTypes' /\ PausedInv'
  <2> DEFINE new == Conn!NewConnection(req[h].provider, req[h].key, req[h].covers)
  <2>1. /\ req[h].at = "connecting" /\ i \notin Conn!Live /\ i \notin paused
        /\ req' = [req EXCEPT ![h] = Conn!Idle] /\ UNCHANGED <<lead, rows, job, paused>>
    BY <1>4 DEF Conn!Insert, Conn!Fresh, Conn!Go, Conn!queues
  <2>2. new \in ConnRows
    BY <2>1 DEF Conn!NewConnection, ConnRows, Conn!Statuses
  <2>3. \/ conn' = conn
        \/ conn' = [j \in Conn!Live \cup {i} |-> IF j = i THEN new ELSE conn[j]]
    BY <1>4 DEF Conn!Insert, Conn!Add
  <2> HIDE DEF new
  <2>4. /\ conn' \in [DOMAIN conn' -> ConnRows] /\ Conn!Live \subseteq DOMAIN conn'
        /\ \A j \in Conn!Live : conn'[j] = conn[j]
    BY <2>1, <2>2, <2>3 DEF Conn!Live
  <2> QED
    BY <2>1, <2>4 DEF Conn!Live, Conn!Idle
<1>5. ASSUME NEW h \in Handlers, NEW i \in Ids, Conn!Test(h, i) PROVE ConnTypes' /\ PausedInv'
  <2> DEFINE q == [at |-> "testing", id |-> i, saw |-> conn[i]]
  <2>1. req' = [req EXCEPT ![h] = q] /\ UNCHANGED <<conn, lead, rows, job, paused>>
        /\ i \in Conn!Live
    BY <1>5 DEF Conn!Test, Conn!Go, Conn!queues
  <2>2. /\ q.at = "testing" /\ q.saw \in ConnRows /\ \A j \in paused' : LeavesPaused(q, j)
    BY <2>1
  <2> HIDE DEF q
  <2> HIDE DEF ConnTypes, PausedInv, LeftAlone, LeavesPaused
  <2> QED
    BY <1>1, <2>1, <2>2
<1>6. ASSUME NEW h \in Handlers, NEW i \in Ids, NEW on \in BOOLEAN, Conn!Enable(h, i, on)
      PROVE  ConnTypes' /\ PausedInv'
  <2> DEFINE new == [conn[i] EXCEPT !.status = IF on THEN "connected" ELSE "disabled"]
  <2>1. /\ i \in Conn!Live /\ Conn!Ask(h, i, new) /\ UNCHANGED <<conn, lead, rows, job>>
        /\ paused' = paused \ {i}
    BY <1>6 DEF Conn!Enable, Conn!queues
  <2>2. new \in ConnRows
    BY <2>1 DEF ConnRows, Conn!Statuses
  <2> HIDE DEF new
  <2> HIDE DEF ConnTypes, PausedInv, LeftAlone, LeavesPaused
  <2> QED
    BY <1>2, <2>1, <2>2
<1>7. ASSUME NEW h \in Handlers, NEW i \in Ids, NEW covers \in BOOLEAN, Conn!Scope(h, i, covers)
      PROVE  ConnTypes' /\ PausedInv'
  <2> DEFINE new == [conn[i] EXCEPT !.covers = covers]
  <2>1. /\ i \in Conn!Live /\ Conn!Ask(h, i, new) /\ UNCHANGED <<conn, lead, rows, job, paused>>
    BY <1>7 DEF Conn!Scope, Conn!queues
  <2>2. new \in ConnRows /\ new.status = conn[i].status
    BY <2>1 DEF ConnRows
  <2>3. paused' \subseteq paused /\ (i \in paused' => new.status = "disabled")
    BY <2>1, <2>2
  <2> HIDE DEF new
  <2> HIDE DEF ConnTypes, PausedInv, LeftAlone, LeavesPaused
  <2> QED
    BY <1>2, <2>1, <2>2, <2>3
<1>8. ASSUME NEW h \in Handlers, Conn!TestAnswered(h) PROVE ConnTypes' /\ PausedInv'
  <2> DEFINE new == Conn!Tested(req[h].saw)
             q == [at |-> "asked", id |-> req[h].id, saw |-> req[h].saw, new |-> new]
  <2>1. /\ req' = [req EXCEPT ![h] = q] /\ UNCHANGED <<conn, lead, rows, job, paused>>
        /\ req[h].at = "testing" /\ req[h].saw \in ConnRows
    BY <1>8 DEF Conn!TestAnswered, Conn!Go, Conn!queues
  <2>2. new \in ConnRows /\ (req[h].saw.status = "disabled" => new.status = "disabled")
    BY <2>1 DEF Conn!Tested, ConnRows, Conn!Statuses
  <2> HIDE DEF new
  <2>3. /\ q.at = "asked" /\ q.saw \in ConnRows /\ q.new \in ConnRows
        /\ \A j \in paused' : LeavesPaused(q, j)
    BY <2>1, <2>2
  <2> HIDE DEF q
  <2> HIDE DEF ConnTypes, PausedInv, LeftAlone, LeavesPaused
  <2> QED
    BY <1>1, <2>1, <2>3
<1>9. ASSUME NEW h \in Handlers, Conn!Commit(h) PROVE ConnTypes' /\ PausedInv'
  <2>0. PICK i : i = req[h].id
    OBVIOUS
  <2> DEFINE new == req[h].new
             w == Conn!Written(conn[i], req[h].saw, new)
  <2>1. /\ req[h].at = "asked" /\ req' = [req EXCEPT ![h] = Conn!Idle]
        /\ UNCHANGED <<lead, rows, job>>
    BY <1>9 DEF Conn!Commit, Conn!Go, Conn!queues
  <2>2. CASE i \notin Conn!Live
    <3>1. UNCHANGED <<conn, paused>>
      BY <1>9, <2>0, <2>2 DEF Conn!Commit
    <3> QED
      BY <2>1, <3>1 DEF Conn!Live, Conn!Idle
  <2>3. CASE i \in Conn!Live
    <3>1. /\ conn' = [conn EXCEPT ![i] = w]
          /\ \/ paused' = paused
             \/ /\ paused' = paused \cup {i} /\ conn'[i].status = "disabled"
                /\ Conn!Quiet(i, Handlers \ {h})
      BY <1>9, <2>0, <2>3 DEF Conn!Commit
    <3>2. w \in ConnRows /\ (w.status = IF new.status # req[h].saw.status THEN new.status
                                        ELSE conn[i].status)
      BY <2>1, <2>3, WrittenRow
    <3>3. i \in paused => w.status = "disabled"
      BY <2>0, <2>1, <3>2
    <3> HIDE DEF w, new
    <3>4. /\ conn' \in [DOMAIN conn' -> ConnRows] /\ DOMAIN conn' = Conn!Live
          /\ \A j \in Conn!Live : j # i => conn'[j] = conn[j]
          /\ conn'[i] = w
      BY <2>3, <3>1, <3>2 DEF Conn!Live
    <3>8. /\ req'[h] = Conn!Idle /\ Conn!Idle.at = "idle"
          /\ \A g \in Handlers : g # h => req'[g] = req[g]
      BY <1>0, <2>1
    <3>5. ConnTypes'
      BY <2>1, <3>4 DEF Conn!Live, Conn!Idle
    <3>6. ASSUME NEW j \in paused, j # i PROVE LeftAlone(j)'
      BY <2>1, <3>4, <3>6, <3>8 DEF Conn!Live
    <3>7. ASSUME i \in paused' PROVE LeftAlone(i)'
      <4>1. CASE i \in paused
        BY <2>1, <2>3, <3>3, <3>4, <3>8, <4>1 DEF Conn!Live
      <4>2. CASE i \notin paused
        <5>1. conn'[i].status = "disabled" /\ Conn!Quiet(i, Handlers \ {h})
          BY <3>1, <3>7, <4>2
        <5> QED
          <6>1. \A g \in Handlers : LeavesPaused(req'[g], i)
            BY <3>8, <5>1 DEF Conn!Quiet, Conn!Busy
          <6>2. /\ \A l \in Submissions : lead[l].at = "captured" => i \notin lead[l].to
                /\ \A r \in rows : r.id # i
                /\ \A s \in Batches : job[s].at = "sending" => job[s].id # i
            BY <5>1 DEF Conn!Quiet
          <6>3. i \in DOMAIN conn' /\ conn'[i].status = "disabled"
            BY <2>3, <3>4, <5>1
          <6> QED
            BY <2>1, <6>1, <6>2, <6>3 DEF Conn!Live
      <4> QED
        BY <4>1, <4>2
    <3>9. \A j \in paused' : LeftAlone(j)'
      <4> HIDE DEF LeftAlone
      <4> QED
        BY <3>1, <3>6, <3>7
    <3> QED
      BY <3>5, <3>9
  <2> QED
    BY <2>2, <2>3
<1>10. ASSUME NEW i \in Ids, Conn!Disconnect(i) PROVE ConnTypes' /\ PausedInv'
  <2>1. /\ conn' = [j \in Conn!Live \ {i} |-> conn[j]]
        /\ rows' = {r \in rows : r.id # i} /\ paused' = paused \ {i}
        /\ UNCHANGED <<req, lead, job>>
    BY <1>10 DEF Conn!Disconnect
  <2>2. DOMAIN conn' = Conn!Live \ {i} /\ \A j \in DOMAIN conn' : conn'[j] = conn[j]
    BY <2>1
  <2>3. conn' \in [DOMAIN conn' -> ConnRows]
    BY <2>1, <2>2
  <2> QED
    BY <2>1, <2>2, <2>3 DEF Conn!Live
<1>11. ASSUME NEW h \in Handlers, Conn!Abandon(h) PROVE ConnTypes' /\ PausedInv'
  <2>1. req' = [req EXCEPT ![h] = Conn!Idle] /\ UNCHANGED <<conn, lead, rows, job, paused>>
    BY <1>11 DEF Conn!Abandon, Conn!Go, Conn!queues
  <2> HIDE DEF ConnTypes, PausedInv, LeftAlone, LeavesPaused
  <2> QED
    BY <1>0, <1>1, <2>1
<1>12. ASSUME NEW h \in Handlers, NEW at, NEW new, Conn!AskHook(h, at, new),
              at \in {"saving", "pinging"}
       PROVE  ConnTypes' /\ PausedInv'
  <2> DEFINE q == [at |-> at, saw |-> hook, new |-> new]
  <2>1. req' = [req EXCEPT ![h] = q] /\ UNCHANGED <<conn, lead, rows, job, paused>>
    BY <1>12 DEF Conn!AskHook, Conn!Go, Conn!queues
  <2>2. /\ q.at # "connecting" /\ q.at # "testing" /\ q.at # "asked"
        /\ paused' \subseteq paused /\ \A i \in paused' : LeavesPaused(q, i)
    BY <1>12, <2>1
  <2> HIDE DEF q
  <2> HIDE DEF ConnTypes, PausedInv, LeftAlone, LeavesPaused
  <2> QED
    BY <1>1, <2>1, <2>2
<1>13. ASSUME NEW h \in Handlers, Conn!CommitHook(h) PROVE ConnTypes' /\ PausedInv'
  <2>1. req' = [req EXCEPT ![h] = Conn!Idle] /\ UNCHANGED <<conn, lead, rows, job, paused>>
    BY <1>13 DEF Conn!CommitHook, Conn!Go, Conn!queues
  <2> HIDE DEF ConnTypes, PausedInv, LeftAlone, LeavesPaused
  <2> QED
    BY <1>0, <1>1, <2>1
<1>14. ASSUME NEW l \in Submissions, Conn!Capture(l) PROVE ConnTypes' /\ PausedInv'
  <2>1. \A i \in paused : i \notin Conn!Owed
    BY DEF Conn!Owed
  <2>2. /\ lead' = [lead EXCEPT ![l] = [at |-> "captured", to |-> Conn!Owed]]
        /\ UNCHANGED <<conn, req, rows, job, paused>>
    BY <1>14 DEF Conn!Capture
  <2> QED
    BY <2>1, <2>2 DEF Conn!Live
<1>15. ASSUME NEW l \in Submissions, Conn!CommitCapture(l) PROVE ConnTypes' /\ PausedInv'
  <2>1. /\ lead[l].at = "captured" /\ lead' = [lead EXCEPT ![l] = Conn!Idle]
        /\ UNCHANGED <<conn, req, job, paused>>
        /\ \A r \in rows' : r \in rows \/ (r.id \in lead[l].to /\ lead[l].to \subseteq Conn!Live)
    BY <1>15 DEF Conn!CommitCapture
  <2> QED
    BY <2>1 DEF Conn!Live, Conn!Idle
<1>16. ASSUME NEW s \in Batches, NEW b, job' = [job EXCEPT ![s] = b],
              UNCHANGED <<conn, req, lead, rows, paused>>,
              b.at = "sending" /\ b.id \notin paused /\ b.saw \in ConnRows /\ b.new \in ConnRows
       PROVE  ConnTypes' /\ PausedInv'
  BY <1>16 DEF Conn!Live
<1>17. ASSUME NEW s \in Batches, NEW i \in Ids, Conn!TakeRows(s, i)
       PROVE  ConnTypes' /\ PausedInv'
  <2> DEFINE b == [at |-> "sending", id |-> i, left |-> {r \in rows : r.id = i},
                   done |-> {}, saw |-> conn[i], new |-> conn[i]]
  <2>1. /\ job' = [job EXCEPT ![s] = b] /\ UNCHANGED <<conn, req, lead, rows, paused>>
        /\ \E r \in rows : r.id = i
    BY <1>17 DEF Conn!TakeRows
  <2>2. b.at = "sending" /\ b.id \notin paused /\ b.saw \in ConnRows /\ b.new \in ConnRows
    BY <2>1
  <2> HIDE DEF b
  <2> HIDE DEF ConnTypes, PausedInv, LeftAlone, LeavesPaused
  <2> QED
    BY <1>16, <2>1, <2>2
<1>18. ASSUME NEW s \in Batches, NEW r \in rows, Conn!Deliver(s, r)
       PROVE  ConnTypes' /\ PausedInv'
  <2>1. job[s].at = "sending" /\ UNCHANGED <<conn, req, lead, rows, paused>>
    BY <1>18 DEF Conn!Deliver
  <2>2. PICK over \in BOOLEAN :
           job' = [job EXCEPT ![s].left = @ \ {r},
                              ![s].done = IF over THEN @ \cup {r} ELSE @,
                              ![s].new = Conn!Delivered(@)]
    BY <1>18 DEF Conn!Deliver
  <2>3. Conn!Delivered(job[s].new) \in ConnRows
    BY <2>1 DEF Conn!Delivered, ConnRows, Conn!Statuses
  <2>4. /\ DOMAIN job' = DOMAIN job /\ \A t \in Batches : t # s => job'[t] = job[t]
    BY <2>2
  <2>5. job'[s] = [job[s] EXCEPT !.left = @ \ {r}, !.done = IF over THEN @ \cup {r} ELSE @,
                                 !.new = Conn!Delivered(@)]
    BY <2>2
  <2>6. /\ job'[s].at = job[s].at /\ job'[s].id = job[s].id /\ job'[s].saw = job[s].saw
        /\ job'[s].new = job[s].new \/ job'[s].new = Conn!Delivered(job[s].new)
    BY <2>5
  <2> QED
    BY <2>1, <2>3, <2>4, <2>6 DEF Conn!Live
<1>19. ASSUME NEW s \in Batches, Conn!EndBatch(s) PROVE ConnTypes' /\ PausedInv'
  <2> DEFINE i == job[s].id
             w == Conn!Written(conn[i], job[s].saw, job[s].new)
  <2>1. /\ job[s].at = "sending" /\ job' = [job EXCEPT ![s] = Conn!Idle]
        /\ UNCHANGED <<req, lead, paused>> /\ rows' \subseteq rows
        /\ i \notin Conn!Live => conn' = conn
        /\ i \in Conn!Live => conn' = [conn EXCEPT ![i] = w]
    BY <1>19 DEF Conn!EndBatch
  <2>2. i \in Conn!Live => w \in ConnRows
    BY <2>1, WrittenRow
  <2>3. i \notin paused
    BY <2>1
  <2> HIDE DEF w, i
  <2>4. /\ conn' \in [DOMAIN conn' -> ConnRows] /\ DOMAIN conn' = Conn!Live
        /\ \A j \in Conn!Live : j # i => conn'[j] = conn[j]
    BY <2>1, <2>2 DEF Conn!Live
  <2> QED
    BY <2>1, <2>3, <2>4 DEF Conn!Live, Conn!Idle
<1>20. ASSUME NEW h \in Handlers, NEW url, Conn!ConfigureLaunch(h, url) PROVE ConnTypes' /\ PausedInv'
  BY <1>12, <1>20 DEF Conn!ConfigureLaunch
<1>21. ASSUME NEW h \in Handlers, Conn!TestDelivery(h) PROVE ConnTypes' /\ PausedInv'
  BY <1>12, <1>21 DEF Conn!TestDelivery
<1>22. ASSUME NEW p \in Providers, Conn!Rotate(p) PROVE ConnTypes' /\ PausedInv'
  BY <1>22 DEF Conn!Rotate, Conn!queues, Conn!Live
<1>23. ASSUME UNCHANGED Conn!vars PROVE ConnTypes' /\ PausedInv'
  BY <1>23 DEF Conn!vars, Conn!Live
<1> QED
  BY <1>3, <1>4, <1>5, <1>6, <1>7, <1>8, <1>9, <1>10, <1>11, <1>13, <1>14, <1>15, <1>17,
     <1>18, <1>19, <1>20, <1>21, <1>22, <1>23
  DEF Conn!Next

(* The tool's webhook, its last test, and requests about it.                 *)
UrlsOrNone == Urls \cup {Conn!NoUrl}
Launches == [status : {"untested", "connected", "failed"}, of : UrlsOrNone]
HookRows == [url : UrlsOrNone, secret : UrlsOrNone, launch : Launches]

AboutHook(q) == q.at \in {"saving", "pinging"}

(* A request about the webhook.  Until two of them overlap, it has read it   *)
(* as it is.                                                                 *)
HookRequest(q) ==
  /\ q.saw \in HookRows /\ q.new \in HookRows
  /\ q.saw.secret = q.saw.url /\ q.new.secret = q.new.url
  /\ ~mixed => q.saw = hook
  /\ q.at = "saving" => q.new.launch = Conn!Untested
  /\ q.at = "pinging" => q.new.launch # Conn!Untested /\ q.new.launch.of = q.saw.url

(* The secret is the one made for the address, in the row and in requests.   *)
HookInv ==
  /\ DOMAIN req = Handlers /\ mixed \in BOOLEAN
  /\ hook \in HookRows /\ hook.secret = hook.url
  /\ Conn!ConnectedWasTested
  /\ \A h \in Handlers : AboutHook(req[h]) => HookRequest(req[h])

(* The address and its secret are written together, or neither is.           *)
LEMMA WrittenHook ==
  ASSUME NEW current \in HookRows, NEW saw \in HookRows, NEW new \in HookRows,
         current.secret = current.url, saw.secret = saw.url, new.secret = new.url
  PROVE  LET w == Conn!Written(current, saw, new) IN
         /\ w \in HookRows /\ w.secret = w.url
         /\ w.launch = IF new.launch # saw.launch THEN new.launch ELSE current.launch
         /\ current = saw => w.launch = new.launch
<1> DEFINE w == Conn!Written(current, saw, new)
<1>1. w = [c \in {"url", "secret", "launch"} |->
             IF new[c] # saw[c] THEN new[c] ELSE current[c]]
  BY DEF Conn!Written, HookRows
<1> HIDE DEF w
<1>2. w = [url |-> w.url, secret |-> w.secret, launch |-> w.launch]
  BY <1>1
<1>3. /\ w.url = IF new.url # saw.url THEN new.url ELSE current.url
      /\ w.secret = IF new.secret # saw.secret THEN new.secret ELSE current.secret
      /\ w.launch = IF new.launch # saw.launch THEN new.launch ELSE current.launch
  BY <1>1
<1>4. w.url \in UrlsOrNone /\ w.secret \in UrlsOrNone /\ w.launch \in Launches
  BY <1>3 DEF HookRows
<1>5. w \in HookRows
  BY <1>2, <1>4 DEF HookRows
<1> QED
  BY <1>3, <1>5 DEF w

(* There is no webhook at first.                                             *)
LEMMA HookInit == Conn!Init => HookInv
<1> SUFFICES ASSUME Conn!Init PROVE HookInv
  OBVIOUS
<1>1. hook = Conn!NoHook /\ mixed = FALSE /\ req = [h \in Handlers |-> Conn!Idle]
  BY DEF Conn!Init
<1>2. Conn!NoHook \in HookRows /\ Conn!NoHook.secret = Conn!NoHook.url
      /\ Conn!NoHook.launch.status = "untested"
  BY DEF Conn!NoHook, Conn!Untested, HookRows, Launches, UrlsOrNone
<1> QED
  BY <1>1, <1>2 DEF HookInv, Conn!ConnectedWasTested, AboutHook, Conn!Idle

(* A handler turns to something else, and the webhook stays.                 *)
LEMMA HookIdle ==
  ASSUME HookInv, UNCHANGED <<hook, mixed>>, NEW h \in Handlers, NEW q,
         req' = [req EXCEPT ![h] = q], AboutHook(q) => HookRequest(q)
  PROVE  HookInv'
<1>1. /\ DOMAIN req' = Handlers /\ req'[h] = q
      /\ \A g \in Handlers : g # h => req'[g] = req[g]
  BY DEF HookInv
<1>2. ASSUME NEW g \in Handlers, AboutHook(req'[g]) PROVE HookRequest(req[g])' 
  <2>1. HookRequest(req'[g])
    BY <1>1, <1>2 DEF HookInv
  <2> QED
    BY <2>1 DEF HookRequest
<1>3. Conn!ConnectedWasTested'
  BY DEF HookInv, Conn!ConnectedWasTested
<1>4. \A g \in Handlers : AboutHook(req[g])' => HookRequest(req[g])'
  BY <1>2 DEF AboutHook
<1> QED
  BY <1>1, <1>3, <1>4 DEF HookInv

(* A commit leaves the test of the address that is there, or notes that two  *)
(* requests overlapped.                                                      *)
LEMMA HookCommit ==
  ASSUME HookInv, NEW h \in Handlers, Conn!CommitHook(h) PROVE HookInv'
<1>1. PICK q : q = req[h]
  OBVIOUS
<1> DEFINE w == IF q.at = "pinging" THEN [hook EXCEPT !.launch = q.new.launch]
                ELSE Conn!Written(hook, q.saw, q.new)
           overlaps == \E g \in Handlers \ {h} : AboutHook(req[g])
<1>2. /\ AboutHook(q) /\ hook' = w /\ req' = [req EXCEPT ![h] = Conn!Idle]
      /\ mixed' = (overlaps \/ (mixed /\ w.launch # Conn!Untested))
  <2>1. /\ AboutHook(q) /\ hook' = w /\ req' = [req EXCEPT ![h] = Conn!Idle]
        /\ mixed' = (overlaps \/ (mixed /\ hook'.launch # Conn!Untested))
    BY <1>1 DEF Conn!CommitHook, AboutHook, Conn!Go
  <2> QED
    BY <2>1
<1>3. HookRequest(q) /\ hook \in HookRows /\ hook.secret = hook.url /\ mixed \in BOOLEAN
  BY <1>1, <1>2 DEF HookInv
<1>4. /\ w \in HookRows /\ w.secret = w.url
      /\ w.launch = q.new.launch \/ (mixed /\ w.launch = hook.launch)
      /\ q.at = "pinging" => w.url = hook.url
  <2>1. CASE q.at = "pinging"
    BY <1>3, <2>1 DEF HookRequest, HookRows
  <2>2. CASE q.at # "pinging"
    <3>1. /\ q.saw \in HookRows /\ q.new \in HookRows /\ q.saw.secret = q.saw.url
          /\ q.new.secret = q.new.url /\ (~mixed => q.saw = hook)
      BY <1>3 DEF HookRequest
    <3> DEFINE x == Conn!Written(hook, q.saw, q.new)
    <3>2. /\ x \in HookRows /\ x.secret = x.url
          /\ x.launch = IF q.new.launch # q.saw.launch THEN q.new.launch ELSE hook.launch
          /\ hook = q.saw => x.launch = q.new.launch
      BY <1>3, <3>1, WrittenHook
    <3>3. w = x
      BY <2>2
    <3> HIDE DEF w, x
    <3> QED
      BY <1>3, <2>2, <3>1, <3>2, <3>3
  <2> QED
    BY <2>1, <2>2
<1> HIDE DEF w, overlaps
<1>5. /\ DOMAIN req' = Handlers /\ req'[h] = Conn!Idle /\ Conn!Idle.at = "idle"
      /\ \A g \in Handlers : g # h => req'[g] = req[g]
  BY <1>2 DEF HookInv, Conn!Idle
<1>6. mixed' \in BOOLEAN
  BY <1>2 DEF overlaps
<1>7. ASSUME ~mixed' PROVE /\ \A g \in Handlers : ~AboutHook(req'[g])
                           /\ w.launch.status = "connected" => w.launch.of = w.url
  <2>1. ~overlaps /\ (mixed => w.launch = Conn!Untested)
    BY <1>2, <1>3, <1>7
  <2>2. \A g \in Handlers : ~AboutHook(req'[g])
    BY <1>5, <2>1 DEF overlaps, AboutHook
  <2>3. Conn!Untested.status = "untested"
    BY DEF Conn!Untested
  <2>4. CASE mixed
    BY <2>1, <2>2, <2>3, <2>4
  <2>5. CASE ~mixed
    <3>1. q.saw = hook /\ w.launch = q.new.launch
      BY <1>3, <1>4, <2>5 DEF HookRequest
    <3>2. CASE q.at = "saving"
      BY <1>3, <2>2, <2>3, <3>1, <3>2 DEF HookRequest
    <3>3. CASE q.at = "pinging"
      BY <1>3, <1>4, <2>2, <3>1, <3>3 DEF HookRequest
    <3> QED
      BY <1>2, <3>2, <3>3 DEF AboutHook
  <2> QED
    BY <2>4, <2>5
<1>8. Conn!ConnectedWasTested'
  BY <1>2, <1>7 DEF Conn!ConnectedWasTested
<1>9. ASSUME NEW g \in Handlers, AboutHook(req'[g]) PROVE HookRequest(req[g])'
  <2>1. g # h /\ req'[g] = req[g] /\ mixed'
    BY <1>5, <1>6, <1>7, <1>9 DEF AboutHook
  <2>2. HookRequest(req[g])
    BY <1>9, <2>1 DEF HookInv
  <2> QED
    BY <2>1, <2>2 DEF HookRequest
<1>10. \A g \in Handlers : AboutHook(req[g])' => HookRequest(req[g])'
  BY <1>9 DEF AboutHook
<1> QED
  BY <1>2, <1>4, <1>5, <1>6, <1>8, <1>10 DEF HookInv

(* A request begins with the webhook as it is.                               *)
LEMMA HookAsked ==
  ASSUME HookInv, NEW h \in Handlers, NEW at \in {"saving", "pinging"}, NEW new \in HookRows,
         Conn!AskHook(h, at, new), new.secret = new.url,
         at = "saving" => new.launch = Conn!Untested,
         at = "pinging" => new.launch # Conn!Untested /\ new.launch.of = hook.url
  PROVE  HookInv'
<1> DEFINE q == [at |-> at, saw |-> hook, new |-> new]
<1>1. req' = [req EXCEPT ![h] = q] /\ UNCHANGED <<hook, mixed>>
  BY DEF Conn!AskHook, Conn!Go
<1>2. HookRequest(q)
  BY DEF HookRequest, HookInv
<1> HIDE DEF q
<1> QED
  BY <1>1, <1>2, HookIdle

(* Every step keeps the webhook's secret and test with its address.          *)
LEMMA HookStep ==
  ASSUME HookInv, [Conn!Next]_(Conn!vars) PROVE HookInv'
<1>1. ASSUME UNCHANGED <<req, hook, mixed>> PROVE HookInv'
  BY <1>1 DEF HookInv, HookRequest, AboutHook, Conn!ConnectedWasTested
<1>2. ASSUME NEW h \in Handlers, NEW q, req' = [req EXCEPT ![h] = q], UNCHANGED <<hook, mixed>>,
             ~AboutHook(q)
      PROVE  HookInv'
  BY <1>2, HookIdle
<1>3. ~AboutHook(Conn!Idle)
  BY DEF AboutHook, Conn!Idle
<1>4. ASSUME NEW h \in Handlers, NEW i, NEW new, Conn!Ask(h, i, new), UNCHANGED <<hook, mixed>>
      PROVE  HookInv'
  <2> DEFINE q == [at |-> "asked", id |-> i, saw |-> conn[i], new |-> new]
  <2>1. req' = [req EXCEPT ![h] = q] /\ ~AboutHook(q)
    BY <1>4 DEF Conn!Ask, Conn!Go, AboutHook
  <2> HIDE DEF q
  <2> QED
    BY <1>2, <1>4, <2>1
<1>5. ASSUME NEW h \in Handlers, NEW p \in Providers, NEW key \in Keys,
             NEW covers \in BOOLEAN, Conn!Connect(h, p, key, covers)
      PROVE  HookInv'
  <2>1. UNCHANGED <<hook, mixed>>
    BY <1>5 DEF Conn!Connect
  <2>2. CASE Conn!Of(p) = {}
    <3> DEFINE q == [at |-> "connecting", provider |-> p, key |-> key, covers |-> covers]
    <3>1. req' = [req EXCEPT ![h] = q] /\ ~AboutHook(q)
      BY <1>5, <2>2 DEF Conn!Connect, Conn!Go, AboutHook
    <3> HIDE DEF q
    <3> QED
      BY <1>2, <2>1, <3>1
  <2>3. CASE Conn!Of(p) # {}
    <3>1. \E i \in Conn!Of(p) : Conn!Ask(h, i, Conn!NewConnection(p, key, covers))
      BY <1>5, <2>3 DEF Conn!Connect
    <3> QED
      BY <1>4, <2>1, <3>1
  <2> QED
    BY <2>2, <2>3
<1>6. ASSUME NEW h \in Handlers, NEW i \in Ids, Conn!Insert(h, i) PROVE HookInv'
  <2>1. req' = [req EXCEPT ![h] = Conn!Idle] /\ UNCHANGED <<hook, mixed>>
    BY <1>6 DEF Conn!Insert, Conn!Go
  <2> QED
    BY <1>2, <1>3, <2>1
<1>7. ASSUME NEW h \in Handlers, NEW i \in Ids, Conn!Test(h, i) PROVE HookInv'
  <2> DEFINE q == [at |-> "testing", id |-> i, saw |-> conn[i]]
  <2>1. req' = [req EXCEPT ![h] = q] /\ UNCHANGED <<hook, mixed>> /\ ~AboutHook(q)
    BY <1>7 DEF Conn!Test, Conn!Go, AboutHook
  <2> HIDE DEF q
  <2> QED
    BY <1>2, <2>1
<1>8. ASSUME NEW h \in Handlers, NEW i \in Ids, NEW on \in BOOLEAN,
             Conn!Enable(h, i, on) \/ Conn!Scope(h, i, on)
      PROVE  HookInv'
  <2>1. UNCHANGED <<hook, mixed>> /\ \E new : Conn!Ask(h, i, new)
    BY <1>8 DEF Conn!Enable, Conn!Scope
  <2> QED
    BY <1>4, <2>1
<1>9. ASSUME NEW h \in Handlers, Conn!TestAnswered(h) PROVE HookInv'
  <2> DEFINE q == [at |-> "asked", id |-> req[h].id, saw |-> req[h].saw,
                   new |-> Conn!Tested(req[h].saw)]
  <2>1. req' = [req EXCEPT ![h] = q] /\ UNCHANGED <<hook, mixed>> /\ ~AboutHook(q)
    BY <1>9 DEF Conn!TestAnswered, Conn!Go, AboutHook
  <2>2. PICK r : r = q
    OBVIOUS
  <2> HIDE DEF q
  <2> QED
    BY <1>2, <2>1, <2>2
<1>10. ASSUME NEW h \in Handlers, Conn!Commit(h) \/ Conn!Abandon(h) PROVE HookInv'
  <2>1. req' = [req EXCEPT ![h] = Conn!Idle] /\ UNCHANGED <<hook, mixed>>
    BY <1>10 DEF Conn!Commit, Conn!Abandon, Conn!Go
  <2> QED
    BY <1>2, <1>3, <2>1
<1>11. hook \in HookRows /\ hook.secret = hook.url
  BY DEF HookInv
<1>12. ASSUME NEW h \in Handlers, NEW url \in UrlsOrNone, Conn!ConfigureLaunch(h, url)
       PROVE  HookInv'
  <2> DEFINE new == [url |-> url, secret |-> Conn!SecretFor(url), launch |-> Conn!Untested]
  <2>1. Conn!AskHook(h, "saving", new)
    BY <1>12 DEF Conn!ConfigureLaunch
  <2>2. Conn!SecretFor(url) = url
    BY <1>11 DEF Conn!SecretFor
  <2>3. Conn!Untested \in Launches
    BY DEF Conn!Untested, Launches, UrlsOrNone
  <2>4. new \in HookRows /\ new.secret = new.url /\ new.launch = Conn!Untested
    BY <2>2, <2>3 DEF HookRows
  <2> HIDE DEF new
  <2> QED
    BY <2>1, <2>4, HookAsked
<1>13. ASSUME NEW h \in Handlers, Conn!TestDelivery(h) PROVE HookInv'
  <2>1. PICK found \in {"connected", "failed"} :
           Conn!AskHook(h, "pinging",
                        [hook EXCEPT !.launch = [status |-> found, of |-> hook.url]])
    BY <1>13 DEF Conn!TestDelivery
  <2> DEFINE launch == [status |-> found, of |-> hook.url]
             new == [hook EXCEPT !.launch = launch]
  <2>2. launch \in Launches /\ launch # Conn!Untested /\ launch.of = hook.url
    BY <1>11 DEF Launches, HookRows, Conn!Untested
  <2>3. Conn!AskHook(h, "pinging", new)
    BY <2>1
  <2> HIDE DEF launch
  <2>4. new \in HookRows /\ new.secret = new.url /\ new.launch = launch
    BY <1>11, <2>2 DEF HookRows
  <2> HIDE DEF new
  <2> QED
    BY <2>2, <2>3, <2>4, HookAsked
<1> QED
  BY <1>1, <1>5, <1>6, <1>7, <1>8, <1>9, <1>10, <1>12, <1>13, HookCommit
  DEF Conn!Next, Conn!Disconnect, Conn!Rotate, Conn!Capture, Conn!CommitCapture,
      Conn!TakeRows, Conn!Deliver, Conn!EndBatch, Conn!vars, UrlsOrNone

(* A behaviour of the delivery is one of each of its two parts.              *)
THEOREM DeliveryParts == DeliverySpec => Spec /\ Conn!Spec
<1>1. DeliveryInit => Init /\ Conn!Init
  BY DEF DeliveryInit
<1>2. UNCHANGED connVars => UNCHANGED Conn!vars
  BY DEF connVars, Conn!vars
<1>3. [DeliveryNext]_<<vars, connVars>> => [Next]_vars /\ [Conn!Next]_(Conn!vars)
  BY <1>2 DEF DeliveryNext
<1> QED
  BY <1>1, <1>3, PTL DEF DeliverySpec, Spec, Conn!Spec

(* A connection that was paused with nothing on its way to it stays paused,  *)
(* and is owed nothing, until the owner turns to it again, for every number  *)
(* of submissions, handlers, batches, connections and providers.             *)
THEOREM PausedHolds == DeliverySpec => []PausedStaysPaused
<1>1. PausedInv => PausedStaysPaused
  BY DEF PausedInv, LeftAlone, PausedStaysPaused, Conn!PausedStaysPaused
<1> QED
  BY <1>1, ConnInit, ConnStep, DeliveryParts, PTL DEF Conn!Spec

(* When the panel says that leads are delivered they are owed to somebody,   *)
(* and when it says that the webhook was tested its address was, however     *)
(* many requests save and test it (widgets/readiness.py).                    *)
THEOREM PanelHolds == DeliverySpec => []PanelTrue
<1>1. HookInv => PanelTrue
  BY DEF HookInv, PanelTrue, Conn!PanelTrue, Conn!ReadyMeansDelivered, Conn!Ready, Conn!Owed
<1> QED
  BY <1>1, HookInit, HookStep, DeliveryParts, PTL DEF Conn!Spec
=============================================================================
