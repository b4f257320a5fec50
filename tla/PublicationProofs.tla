------------------------- MODULE PublicationProofs -------------------------
(* Theorems about Publication, for every set of builders, redeploys and      *)
(* rollbacks.                                                                *)
EXTENDS Publication, FiniteSetTheorems, TLAPS

(* The variables keep their types.                                           *)
LEMMA TypeStep == ASSUME TypeOK, [Next]_vars PROVE TypeOK'
<1> USE KindsAssumption, NamesAssumption
    DEF TypeOK, Rows, Builds, PCs, log, Goto, Publishers, Ended, UnderWay, MayBegin, Begin
<1>1. ASSUME NEW p \in Publishers, Load(p) PROVE TypeOK'
  <2>1. Cardinality({q \in Publishers \ {p} : stamp[q] > 0}) \in Nat
    <3> DEFINE Q == {q \in Publishers \ {p} : stamp[q] > 0}
    <3>1. IsFiniteSet(Q)
      BY FS_Subset, FiniteAssumption
    <3> QED
      BY <3>1, FS_CardinalityType
  <2> DEFINE k == Cardinality({q \in Publishers \ {p} : stamp[q] > 0})
  <2> HIDE DEF k
  <2>2. stamp' = [stamp EXCEPT ![p] = 1 + k]
    BY <1>1 DEF Load, k
  <2>3. k \in Nat
    BY <2>1 DEF k
  <2>4. overlapped' \in BOOLEAN
    BY <1>1 DEF Load
  <2>5. pc' \in [Publishers -> PCs]
    BY <1>1 DEF Load
  <2> QED
    BY <1>1, <2>2, <2>3, <2>4, <2>5 DEF Load
<1>2. ASSUME NEW p \in Publishers, Deploy(p) PROVE TypeOK'
  BY <1>2 DEF Deploy
<1>3. ASSUME NEW p \in Publishers, Choose(p) PROVE TypeOK'
  BY <1>3 DEF Choose
<1>4. ASSUME NEW p \in Publishers, NothingToChoose(p) \/ Promote(p) \/ TakeRow(p) PROVE TypeOK'
  BY <1>4 DEF NothingToChoose, Promote, TakeRow
<1>5. ASSUME NEW p \in Publishers, ReadCurrent(p) \/ Demote(p) PROVE TypeOK'
  BY <1>5 DEF ReadCurrent, Demote
<1>6. ASSUME NEW p \in Publishers, Commit(p) PROVE TypeOK'
  BY <1>6 DEF Commit
<1>7. ASSUME NEW p \in Publishers, Abort(p) PROVE TypeOK'
  BY <1>7 DEF Abort
<1>8. CASE UNCHANGED vars
  BY <1>8 DEF vars
<1> QED
  BY <1>1, <1>2, <1>3, <1>4, <1>5, <1>6, <1>7, <1>8 DEF Next, Step, Fail, BreakDeadlock

THEOREM TypeCorrect == Spec => []TypeOK
<1>1. Init => TypeOK
  <2> SUFFICES ASSUME Init PROVE TypeOK
    OBVIOUS
  <2>1. overlapped \in BOOLEAN
    BY DEF Init
  <2>2. build \in [Rows -> Builds] /\ stamp \in [Rows -> Nat]
    BY DEF Init, Rows, Builds
  <2>3. pc \in [Publishers -> PCs] /\ loaded \in [Publishers -> Builds]
    BY DEF Init, PCs, Builds
  <2> QED
    BY <2>1, <2>2, <2>3 DEF Init, TypeOK, Rows, Builds
<1> QED
  BY <1>1, TypeStep, PTL DEF Spec

(* A transaction demotes rows that are current and that nobody else has      *)
(* updated: one step.                                                        *)
LEMMA DemotionsStep == ASSUME TypeOK, DemotionsHold, [Next]_vars PROVE DemotionsHold'
<1> USE DEF TypeOK, DemotionsHold, log, Goto
<1>1. ASSUME NEW p \in Publishers, Demote(p) PROVE DemotionsHold'
  BY <1>1 DEF Demote, Blocked
<1>2. ASSUME NEW p \in Publishers, Commit(p) PROVE DemotionsHold'
  BY <1>2 DEF Commit
<1>3. ASSUME NEW p \in Publishers, Abort(p) PROVE DemotionsHold'
  BY <1>3 DEF Abort
<1>4. ASSUME NEW p \in Publishers, Deploy(p) \/ Load(p) \/ NothingToChoose(p) \/ Promote(p)
      PROVE  DemotionsHold'
  BY <1>4 DEF Deploy, Load, NothingToChoose, Promote
<1>5. ASSUME NEW p \in Publishers, Choose(p) \/ TakeRow(p) \/ ReadCurrent(p)
      PROVE  DemotionsHold'
  BY <1>5 DEF Choose, TakeRow, ReadCurrent
<1>6. CASE UNCHANGED vars
  BY <1>6 DEF vars
<1> QED
  BY <1>1, <1>2, <1>3, <1>4, <1>5, <1>6 DEF Next, Step, Fail, BreakDeadlock

(* service.py:544: however the publishers overlap, fail and break deadlocks, *)
(* no two of them demote the same row.                                       *)
THEOREM DemotionsCorrect == Spec => []DemotionsHold
<1>1. Init => DemotionsHold
  BY DEF Init, DemotionsHold
<1> QED
  BY <1>1, DemotionsStep, TypeCorrect, PTL DEF Spec

(* A row is committed by its own publisher, whose build is its own name if   *)
(* it builds.                                                                *)
OwnRows ==
  /\ \A p \in Builders \cup Redeploys : build[p] = p
  /\ \A p \in Publishers \cap rows : pc[p] = "done"

LEMMA OwnRowsStep == ASSUME TypeOK, OwnRows, [Next]_vars PROVE OwnRows'
<1> USE KindsAssumption, NamesAssumption DEF TypeOK, OwnRows, log, Goto, Publishers
<1>1. ASSUME NEW p \in Publishers, Deploy(p) \/ Load(p) PROVE OwnRows'
  BY <1>1 DEF Deploy, Load, Begin, MayBegin
<1>2. ASSUME NEW p \in Publishers, Choose(p) PROVE OwnRows'
  BY <1>2 DEF Choose
<1>3. ASSUME NEW p \in Publishers, NothingToChoose(p) \/ Promote(p) \/ TakeRow(p) PROVE OwnRows'
  BY <1>3 DEF NothingToChoose, Promote, TakeRow
<1>4. ASSUME NEW p \in Publishers, ReadCurrent(p) \/ Demote(p) \/ Commit(p) PROVE OwnRows'
  BY <1>4 DEF ReadCurrent, Demote, Commit
<1>5. ASSUME NEW p \in Publishers, Step(p) \/ Fail(p), Abort(p) PROVE OwnRows'
  <2>1. pc[p] # "done"
    BY <1>5 DEF Step, Fail, UnderWay, Ended, BreakDeadlock, WaitsFor, Deploy, Load, Choose,
       NothingToChoose, Promote, TakeRow, ReadCurrent, Demote, Commit, Begin, MayBegin
  <2> QED
    BY <1>5, <2>1 DEF Abort
<1>6. CASE UNCHANGED vars
  BY <1>6 DEF vars
<1> QED
  BY <1>1, <1>2, <1>3, <1>4, <1>5, <1>6 DEF Next, Step, Fail, BreakDeadlock

(* Without rollbacks, a build nobody has committed yet is not the widget's   *)
(* URL, and so is not what its own publisher has loaded: its commit writes   *)
(* the URL.                                                                  *)
NoRollback == \A k \in Rollbacks : pc[k] = "idle"

Fresh ==
  /\ \A p \in Publishers : url = p => pc[p] = "done"
  /\ \A p \in Publishers : ~Ended(p) => loaded[p] # p
  /\ UrlIsCurrent

LEMMA FreshStep ==
  ASSUME TypeOK, OwnRows, NoRollback', NoRollback => Fresh, [Next]_vars
  PROVE  Fresh'
<1> USE NamesAssumption
    DEF TypeOK, OwnRows, NoRollback, Fresh, UrlIsCurrent, Ended, log, Goto, Publishers, Rows, Builds
<1>1. NoRollback
  <2>1. ASSUME NEW p \in Publishers, Step(p) \/ Fail(p) PROVE pc'[p] # "idle"
    BY <2>1 DEF Step, Fail, BreakDeadlock, Abort, Deploy, Load, Choose, NothingToChoose, Promote,
       TakeRow, ReadCurrent, Demote, Commit, Begin, MayBegin
  <2>2. ASSUME NEW p \in Publishers, Step(p) \/ Fail(p), NEW q \in Publishers \ {p}
        PROVE  pc'[q] = pc[q]
    BY <2>2 DEF Step, Fail, BreakDeadlock, Abort, Deploy, Load, Choose, NothingToChoose, Promote,
       TakeRow, ReadCurrent, Demote, Commit, Begin, MayBegin
  <2> QED
    BY <2>1, <2>2 DEF Next, vars
<1>2. ASSUME NEW p \in Publishers, Commit(p) PROVE Fresh'
  <2>1. build[p] = p /\ loaded[p] # p
    BY <1>1, <1>2 DEF Commit
  <2>2. url' = p /\ p \in current' /\ build' = build
    BY <1>2, <2>1 DEF Commit
  <2>3. pc' = [pc EXCEPT ![p] = "done"] /\ loaded' = loaded
    BY <1>2 DEF Commit
  <2> QED
    BY <1>1, <2>1, <2>2, <2>3
<1>3. ASSUME NEW p \in Publishers, Load(p) PROVE Fresh'
  <2>1. url # p
    BY <1>1, <1>3 DEF Load, Begin, MayBegin
  <2> QED
    BY <1>1, <1>3, <2>1 DEF Load
<1>4. ASSUME NEW p \in Publishers, Deploy(p) PROVE Fresh'
  BY <1>1, <1>4 DEF Deploy, Begin, MayBegin
<1>5. ASSUME NEW p \in Publishers, TakeRow(p) \/ ReadCurrent(p) \/ Demote(p) PROVE Fresh'
  BY <1>1, <1>5 DEF TakeRow, ReadCurrent, Demote
<1>6. ASSUME NEW p \in Publishers, Step(p) \/ Fail(p), Abort(p) PROVE Fresh'
  <2>1. pc[p] # "done"
    BY <1>6 DEF Step, Fail, UnderWay, BreakDeadlock, WaitsFor, Deploy, Load, Choose,
       NothingToChoose, Promote, TakeRow, ReadCurrent, Demote, Commit, Begin, MayBegin
  <2> QED
    BY <1>1, <1>6, <2>1 DEF Abort
<1>7. CASE UNCHANGED vars
  BY <1>1, <1>7 DEF vars
<1>8. ASSUME NEW p \in Publishers PROVE ~Choose(p) /\ ~NothingToChoose(p) /\ ~Promote(p)
  BY <1>1 DEF Choose, NothingToChoose, Promote
<1> QED
  BY <1>2, <1>3, <1>4, <1>5, <1>6, <1>7, <1>8 DEF Next, Step, Fail, BreakDeadlock

(* While publishers take turns, what the one under way has loaded is the     *)
(* URL, and the rows it has read, or demoted, are all that are current.      *)
Turns ==
  /\ \A p, q \in Publishers : UnderWay(p) /\ UnderWay(q) => p = q
  /\ \E r \in Rows : current = {r}
  /\ UrlIsCurrent
  /\ \A p \in Publishers :
       /\ target[p] = IF pc[p] = "reading" THEN current ELSE {}
       /\ demoted[p] = IF pc[p] = "demoted" THEN current ELSE {}
       /\ UnderWay(p) /\ pc[p] # "deployed" => loaded[p] = url

LEMMA TurnsStep ==
  ASSUME TypeOK, OwnRows, InTurn', InTurn => Turns, [Next]_vars
  PROVE  Turns'
<1> USE DEF TypeOK, Turns, InTurn, UrlIsCurrent, UnderWay, Ended, log, Goto
<1>1. InTurn
  BY DEF Next, Step, Fail, BreakDeadlock, Abort, Deploy, Load, Choose, NothingToChoose, Promote,
     TakeRow, ReadCurrent, Demote, Commit, Begin, vars
<1>2. ASSUME NEW p \in Publishers, Deploy(p) PROVE Turns'
  BY <1>1, <1>2, KindsAssumption DEF Deploy, Begin, MayBegin
<1>3. ASSUME NEW p \in Publishers, Load(p) PROVE Turns'
  BY <1>1, <1>3 DEF Load, Begin, MayBegin
<1>4. ASSUME NEW p \in Publishers, Choose(p) PROVE Turns'
  <2>1. p \notin current
    BY <1>1, <1>4 DEF Choose, OwnRows
  <2>2. \A r \in current : build'[r] = build[r]
    BY <1>4, <2>1 DEF Choose
  <2> QED
    BY <1>1, <1>4, <2>2 DEF Choose
<1>5. ASSUME NEW p \in Publishers, NothingToChoose(p) \/ Promote(p) PROVE Turns'
  BY <1>1, <1>5 DEF NothingToChoose, Promote
<1>6. ASSUME NEW p \in Publishers, TakeRow(p) PROVE Turns'
  BY <1>1, <1>6 DEF TakeRow
<1>7. ASSUME NEW p \in Publishers, ReadCurrent(p) PROVE Turns'
  BY <1>1, <1>7 DEF ReadCurrent
<1>8. ASSUME NEW p \in Publishers, Demote(p) PROVE Turns'
  BY <1>1, <1>8 DEF Demote
<1>9. ASSUME NEW p \in Publishers, Commit(p) PROVE Turns'
  <2>1. current' = {p} /\ p \in Rows
    BY <1>1, <1>9 DEF Commit, Rows
  <2>2. url' = build[p] /\ build' = build
    BY <1>1, <1>9 DEF Commit
  <2>3. \A q \in Publishers \ {p} : ~UnderWay(q)
    BY <1>1, <1>9 DEF Commit
  <2> QED
    BY <1>1, <1>9, <2>1, <2>2, <2>3 DEF Commit
<1>10. ASSUME NEW p \in Publishers, Abort(p) PROVE Turns'
  BY <1>1, <1>10 DEF Abort
<1>11. CASE UNCHANGED vars
  BY <1>1, <1>11 DEF vars
<1> QED
  BY <1>2, <1>3, <1>4, <1>5, <1>6, <1>7, <1>8, <1>9, <1>10, <1>11
  DEF Next, Step, Fail, BreakDeadlock

(* The three together: what is always so, what is so until a rollback        *)
(* begins, and what is so until two publishers overlap.                      *)
PublicationInv == OwnRows /\ (NoRollback => Fresh) /\ (InTurn => Turns)

LEMMA PublicationInvCorrect == Spec => []PublicationInv
<1>1. Init => PublicationInv
  <2> USE NamesAssumption DEF Init, Builds, Publishers, Rows
  <2>1. Init => OwnRows
    BY DEF OwnRows
  <2>2. Init => Fresh
    BY DEF Fresh, UrlIsCurrent, Ended
  <2>3. Init => Turns
    BY DEF Turns, UrlIsCurrent, UnderWay
  <2> QED
    BY <2>1, <2>2, <2>3 DEF PublicationInv
<1>2. TypeOK /\ PublicationInv /\ [Next]_vars => PublicationInv'
  BY OwnRowsStep, FreshStep, TurnsStep DEF PublicationInv
<1> QED
  BY <1>1, <1>2, TypeCorrect, PTL DEF Spec

(* service.py:532, "exactly one row is current": publishers that take turns  *)
(* keep it, whatever kinds they are and wherever they fail.                  *)
THEOREM OneCurrentCorrect == Spec => []OneCurrentInTurn
<1>1. PublicationInv => OneCurrentInTurn
  BY FS_Singleton DEF PublicationInv, Turns, OneCurrentInTurn, OneCurrent
<1> QED
  BY <1>1, PublicationInvCorrect, PTL

(* models.py:239: publishers that take turns, and builds and redeploys that  *)
(* overlap in any way, leave the widget's URL on the build of a current row. *)
THEOREM UrlCorrect == Spec => []UrlFollows
<1>1. PublicationInv => UrlFollows
  BY DEF PublicationInv, NoRollback, Fresh, Turns, UrlFollows
<1> QED
  BY <1>1, PublicationInvCorrect, PTL

(* The alias is moved before the log and the widget are written: it serves   *)
(* the build of the publisher that has moved it, and else that of the one    *)
(* that was torn since the last success, and else the widget's.              *)
Aliased ==
  /\ left # None => left \in Publishers /\ pc[left] = "torn"
  /\ \A p \in Publishers : pc[p] \in Moved => alias = build[p]
  /\ (\A p \in Publishers : pc[p] \notin Moved) =>
       alias = IF left = None THEN url ELSE build[left]

(* Only an unfinished publication that has the alias moves it away from the *)
(* widget's URL, and none is under way besides it: one step.                 *)
LEMMA AliasStep ==
  ASSUME TypeOK, OwnRows, InTurn => Turns, InTurn', InTurn => Aliased, [Next]_vars
  PROVE  Aliased'
<1> USE NamesAssumption DEF TypeOK, Aliased, InTurn, UnderWay, Ended, Moved, log, Goto
<1>1. InTurn
  BY DEF Next, Step, Fail, BreakDeadlock, Abort, Deploy, Load, Choose, NothingToChoose, Promote,
     TakeRow, ReadCurrent, Demote, Commit, Begin, vars
<1>3. Turns /\ Aliased
  BY <1>1
<1>4. \A p, q \in Publishers : UnderWay(p) /\ UnderWay(q) => p = q
  BY <1>3 DEF Turns
<1>5. ASSUME NEW p \in Publishers, Deploy(p) PROVE Aliased'
  <2>1. build'[p] = p /\ alias' = p
    BY <1>5, KindsAssumption DEF Deploy, OwnRows
  <2>2. \A q \in Publishers \ {p} : ~UnderWay(q) /\ pc'[q] = pc[q]
    BY <1>4, <1>5 DEF Deploy, Begin
  <2>3. pc'[p] \in Moved /\ left' = left /\ pc[p] # "torn"
    BY <1>5 DEF Deploy, Begin, MayBegin
  <2>4. left' # None => left' \in Publishers /\ pc'[left'] = "torn"
    BY <1>3, <2>2, <2>3
  <2>. QED
    BY <2>1, <2>2, <2>3, <2>4
<1>6. ASSUME NEW p \in Publishers, Load(p) PROVE Aliased'
  BY <1>3, <1>6 DEF Load, Begin, MayBegin
<1>7. ASSUME NEW p \in Publishers, Choose(p) PROVE Aliased'
  <2>1. \A q \in Publishers \ {p} : ~UnderWay(q) /\ pc'[q] = pc[q]
    BY <1>4, <1>7 DEF Choose
  <2>. QED
    BY <1>3, <1>7, <2>1 DEF Choose
<1>8. ASSUME NEW p \in Publishers, NothingToChoose(p) PROVE Aliased'
  BY <1>3, <1>8 DEF NothingToChoose
<1>9. ASSUME NEW p \in Publishers, Promote(p) PROVE Aliased'
  <2>1. \A q \in Publishers \ {p} : ~UnderWay(q) /\ pc'[q] = pc[q]
    BY <1>4, <1>9 DEF Promote
  <2>. QED
    BY <1>9, <2>1 DEF Promote
<1>10. ASSUME NEW p \in Publishers, TakeRow(p) PROVE Aliased'
  BY <1>3, <1>10 DEF TakeRow
<1>11. ASSUME NEW p \in Publishers, ReadCurrent(p) PROVE Aliased'
  BY <1>3, <1>11 DEF ReadCurrent
<1>12. ASSUME NEW p \in Publishers, Demote(p) PROVE Aliased'
  BY <1>3, <1>12 DEF Demote
<1>13. ASSUME NEW p \in Publishers, Commit(p) PROVE Aliased'
  <2>1. \A q \in Publishers \ {p} : ~UnderWay(q) /\ pc'[q] = pc[q]
    BY <1>4, <1>13 DEF Commit
  <2>2. alias' = build[p] /\ pc'[p] = "done"
    BY <1>3, <1>13 DEF Commit
  <2>3. url' = build[p] /\ build' = build /\ left' = None
    BY <1>3, <1>13 DEF Commit, Turns
  <2>4. \A q \in Publishers : pc'[q] \notin Moved
    BY <2>1, <2>2
  <2>. QED
    BY <2>2, <2>3, <2>4
<1>14. ASSUME NEW p \in Publishers, Step(p) \/ Fail(p), Abort(p) PROVE Aliased'
  <2>0. UnderWay(p) /\ p # None
    BY <1>14 DEF Step, Fail, BreakDeadlock, WaitsFor, Deploy, Load, Choose, NothingToChoose, Promote,
       TakeRow, ReadCurrent, Demote, Commit, Begin, MayBegin, Abort
  <2>1. \A q \in Publishers \ {p} : pc[q] \notin Moved /\ pc'[q] = pc[q]
    BY <1>4, <1>14, <2>0 DEF Abort
  <2>2. alias' = alias /\ url' = url /\ build' = build /\ pc'[p] \in {"torn", "aborted"}
    BY <1>14 DEF Abort
  <2>3. CASE pc[p] \in Moved
    <3>1. alias = build[p]
      BY <1>3, <2>3
    <3>2. left' = p /\ pc'[p] = "torn"
      BY <1>14, <2>3 DEF Abort
    <3>. QED
      BY <2>0, <2>1, <2>2, <3>1, <3>2
  <2>4. CASE pc[p] \notin Moved
    <3>1. alias = IF left = None THEN url ELSE build[left]
      BY <1>3, <2>1, <2>4
    <3>2. left' = left /\ (left # None => left # p)
      BY <1>3, <1>14, <2>0, <2>4 DEF Abort
    <3>. QED
      BY <1>3, <2>1, <2>2, <3>1, <3>2
  <2>. QED
    BY <2>3, <2>4
<1>15. CASE UNCHANGED vars
  BY <1>3, <1>15 DEF vars
<1> QED
  BY <1>5, <1>6, <1>7, <1>8, <1>9, <1>10, <1>11, <1>12, <1>13, <1>14, <1>15
  DEF Next, Step, Fail, BreakDeadlock

(* service.py:593: publishers that take turns leave the permanent address on *)
(* the build that the widget's URL names, or on that of the one that was     *)
(* torn since the last that succeeded.                                       *)
THEOREM AliasCorrect == Spec => []AliasIsUrl
<1> DEFINE AliasInv == InTurn => Aliased
<1>1. Init => AliasInv
  BY DEF Init, Aliased, Moved
<1>2. TypeOK /\ PublicationInv /\ AliasInv /\ [Next]_vars => AliasInv'
  BY AliasStep DEF PublicationInv
<1>3. AliasInv => AliasIsUrl
  BY DEF Aliased, AliasIsUrl, AtRest, UnderWay, Ended, Moved
<1> HIDE DEF AliasInv
<1> QED
  BY <1>1, <1>2, <1>3, TypeCorrect, PublicationInvCorrect, PTL DEF Spec

(* The order in which the transactions began: each new stamp is above all    *)
(* the others, and who has not begun has none.                               *)
Begun == {q \in Publishers : stamp[q] > 0}

Stamps ==
  /\ stamp[First] = 0
  /\ \A p \in Publishers : pc[p] \in {"idle", "deployed"} => stamp[p] = 0
  /\ \A p \in Publishers : stamp[p] <= Cardinality(Begun)

(* The rows that are not current are older than the one that is, the newest  *)
(* of them has another build than it, and a rollback that has chosen one     *)
(* has the build of a row, other than the one that is served.                *)
Older == \A r \in rows \ current, c \in current : stamp[r] < stamp[c]

\* The row a rollback would choose.
Newest(r) == r \in rows \ current /\ \A s \in rows \ current : stamp[s] <= stamp[r]

GoingBack ==
  /\ \A r \in rows \ current : Newest(r) => build[r] # url
  /\ \A p \in Publishers, r \in rows :
        UnderWay(p) /\ pc[p] # "deployed" => stamp[r] < stamp[p]
  /\ \A p \in Builders \cup Redeploys, r \in rows : build[r] = p => pc[p] = "done"
  /\ \A p \in Rollbacks : UnderWay(p) /\ pc[p] # "loaded" =>
        build[p] # url /\ \E r \in rows : build[r] = build[p]

(* Stamps are always so, the others while publishers take turns.             *)
BackInv == Stamps /\ (InTurn => Older /\ GoingBack)

(* A publisher that begins is stamped above all that began before it: one    *)
(* step.                                                                     *)
LEMMA StampsStep == ASSUME TypeOK, Stamps, [Next]_vars PROVE Stamps'
<1> USE NamesAssumption DEF TypeOK, Stamps, log, Goto, Rows
<1>1. ASSUME NEW p \in Publishers, Load(p) PROVE Stamps'
  <2> DEFINE Others == {q \in Publishers \ {p} : stamp[q] > 0}
  <2>1. IsFiniteSet(Others) /\ Cardinality(Others) \in Nat
    BY FS_Subset, FS_CardinalityType, FiniteAssumption
  <2>2. pc[p] \in {"idle", "deployed"} /\ stamp[p] = 0
    BY <1>1 DEF Load, Begin, MayBegin
  <2>3. Begun = Others
    BY <2>2 DEF Begun
  <2> DEFINE k == Cardinality(Others)
  <2>4. stamp' = [stamp EXCEPT ![p] = 1 + k] /\ pc'[p] \notin {"idle", "deployed"}
    BY <1>1 DEF Load
  <2>5. \A q \in Publishers : stamp[q] <= k
    BY <2>3
  <2>6. k \in Nat
    BY <2>1
  <2> HIDE DEF k
  <2>7. Begun' = Others \cup {p} /\ p \notin Others
    BY <2>4, <2>6 DEF Begun
  <2> HIDE DEF Others
  <2>8. Cardinality(Begun') = 1 + k
    <3>1. Cardinality(Others \cup {p}) = Cardinality(Others) + 1
      BY <2>1, <2>7, FS_AddElement
    <3> QED
      BY <2>1, <2>7, <3>1 DEF k
  <2>9. \A q \in Publishers : stamp'[q] <= 1 + k
    BY <2>4, <2>5, <2>6
  <2>10. stamp'[First] = 0
    BY <2>4
  <2>11. \A q \in Publishers \ {p} : pc'[q] = pc[q] /\ stamp'[q] = stamp[q]
    BY <1>1, <2>4 DEF Load
  <2> QED
    BY <2>4, <2>8, <2>9, <2>10, <2>11
<1>2. ASSUME NEW p \in Publishers, Deploy(p) PROVE Stamps'
  BY <1>2 DEF Deploy, Begin, MayBegin, Begun
<1>3. ASSUME NEW p \in Publishers, Choose(p) \/ NothingToChoose(p) \/ Promote(p) PROVE Stamps'
  BY <1>3 DEF Choose, NothingToChoose, Promote, Begun
<1>4. ASSUME NEW p \in Publishers, TakeRow(p) \/ ReadCurrent(p) PROVE Stamps'
  BY <1>4 DEF TakeRow, ReadCurrent, Begun
<1>5. ASSUME NEW p \in Publishers, Demote(p) \/ Commit(p) PROVE Stamps'
  BY <1>5 DEF Demote, Commit, Begun
<1>6. ASSUME NEW p \in Publishers, Abort(p) PROVE Stamps'
  BY <1>6 DEF Abort, Begun
<1>7. CASE UNCHANGED vars
  BY <1>7 DEF vars, Begun
<1> QED
  BY <1>1, <1>2, <1>3, <1>4, <1>5, <1>6, <1>7 DEF Next, Step, Fail, BreakDeadlock

(* The row that a rollback would choose next never has the build that is     *)
(* served: one step of publishers that take turns.                           *)
LEMMA GoingBackStep ==
  ASSUME TypeOK, OwnRows, Stamps, InTurn => Turns, InTurn', InTurn => Older /\ GoingBack,
         [Next]_vars
  PROVE  Older' /\ GoingBack'
<1> USE NamesAssumption
    DEF TypeOK, Older, Newest, GoingBack, InTurn, UnderWay, Ended, log, Goto, Publishers, Rows
<1>1. InTurn
  BY DEF Next, Step, Fail, BreakDeadlock, Abort, Deploy, Load, Choose, NothingToChoose, Promote,
     TakeRow, ReadCurrent, Demote, Commit, Begin, vars
<1>2. Turns /\ Older /\ GoingBack
  BY <1>1
<1>3. \A p, q \in Publishers : UnderWay(p) /\ UnderWay(q) => p = q
  BY <1>2 DEF Turns
<1>4. ASSUME NEW p \in Publishers, Load(p) PROVE Older' /\ GoingBack'
  <2> DEFINE k == Cardinality({q \in Publishers \ {p} : stamp[q] > 0})
  <2>1. pc[p] \in {"idle", "deployed"} /\ stamp[p] = 0 /\ p \notin rows
    BY <1>4 DEF Load, Begin, MayBegin, Stamps, OwnRows
  <2>2. Begun = {q \in Publishers \ {p} : stamp[q] > 0}
    BY <2>1 DEF Begun
  <2>3. k \in Nat /\ \A r \in rows : stamp[r] <= k
    <3>1. IsFiniteSet({q \in Publishers \ {p} : stamp[q] > 0})
      BY FS_Subset, FiniteAssumption
    <3>2. k \in Nat /\ Cardinality(Begun) = k
      BY <2>2, <3>1, FS_CardinalityType
    <3> HIDE DEF k
    <3> QED
      BY <3>2 DEF Stamps
  <2>4. stamp' = [stamp EXCEPT ![p] = 1 + k]
    BY <1>4 DEF Load
  <2> HIDE DEF k
  <2>5. (\A r \in rows : stamp'[r] = stamp[r]) /\ \A r \in rows : stamp'[r] < stamp'[p]
    BY <2>1, <2>3, <2>4
  <2>6. UNCHANGED <<rows, current, build, url>>
    BY <1>4 DEF Load
  <2>7. \A q \in Publishers \ {p} : pc'[q] = pc[q] /\ stamp'[q] = stamp[q]
    BY <1>4, <2>4 DEF Load
  <2>8. p \in Rollbacks => pc'[p] = "loaded"
    BY <1>4, KindsAssumption DEF Load
  <2>9. pc[p] # "done"
    BY <2>1
  <2>10. Older' /\ \A r \in rows \ current : Newest(r)' => build'[r] # url'
    BY <1>2, <2>5, <2>6
  <2>11. \A q \in Publishers, r \in rows' :
            UnderWay(q)' /\ pc'[q] # "deployed" => stamp'[r] < stamp'[q]
    BY <1>2, <2>5, <2>6, <2>7
  <2>12. \A q \in Builders \cup Redeploys, r \in rows' : build'[r] = q => pc'[q] = "done"
    BY <1>2, <2>6, <2>7, <2>9
  <2>13. \A q \in Rollbacks : UnderWay(q)' /\ pc'[q] # "loaded" =>
            build'[q] # url' /\ \E r \in rows' : build'[r] = build'[q]
    BY <1>2, <2>6, <2>7, <2>8
  <2> QED
    BY <2>6, <2>10, <2>11, <2>12, <2>13
<1>5. ASSUME NEW p \in Publishers, Choose(p) PROVE Older' /\ GoingBack'
  <2>1. p \notin rows
    BY <1>5 DEF Choose, OwnRows
  <2>2. \A r \in rows : build'[r] = build[r]
    BY <1>5, <2>1 DEF Choose
  <2>3. build'[p] # url /\ \E r \in rows : build[r] = build'[p]
    BY <1>2, <1>5 DEF Choose
  <2>4. \A q \in Publishers \ {p} : ~UnderWay(q) /\ pc'[q] = pc[q]
    BY <1>3, <1>5 DEF Choose
  <2> QED
    BY <1>2, <1>5, <2>2, <2>3, <2>4 DEF Choose
<1>6. ASSUME NEW p \in Publishers, Commit(p) PROVE Older' /\ GoingBack'
  <2>1. p \notin rows /\ UnderWay(p) /\ pc[p] # "deployed" /\ pc[p] # "loaded"
    BY <1>6 DEF Commit, OwnRows
  <2>2. \A q \in Publishers \ {p} : ~UnderWay(q) /\ pc'[q] = pc[q]
    BY <1>3, <1>6, <2>1 DEF Commit
  <2>3. PICK c \in rows : current = {c} /\ build[c] = url
    BY <1>2 DEF Turns, UrlIsCurrent
  <2>4. build[p] # url
    <3>1. CASE p \in Rollbacks
      BY <1>2, <2>1, <3>1
    <3>2. CASE p \in Builders \cup Redeploys
      BY <1>2, <1>6, <2>3, <3>2 DEF Commit, OwnRows
    <3> QED
      BY <3>1, <3>2
  <2>5. url' = build[p] /\ rows' = rows \cup {p} /\ current' = {p} /\ UNCHANGED <<build, stamp>>
    BY <1>2, <1>6, <2>4 DEF Commit, Turns
  <2>6. \A r \in rows : stamp[r] < stamp[p]
    BY <1>2, <2>1
  <2>7. pc'[p] = "done"
    BY <1>6 DEF Commit
  <2>8. \A r \in rows' \ current' : Newest(r)' => r = c
    BY <1>2, <2>1, <2>3, <2>5
  <2>9. \A q \in Builders \cup Redeploys : build[p] = q => pc'[q] = "done"
    <3>1. CASE p \in Rollbacks
      <4>1. PICK r \in rows : build[r] = build[p]
        BY <1>2, <2>1, <3>1
      <4> QED
        BY <1>2, <2>2, <2>7, <4>1
    <3>2. CASE p \in Builders \cup Redeploys
      BY <2>7, <3>2 DEF OwnRows
    <3> QED
      BY <3>1, <3>2
  <2>10. Older' /\ \A r \in rows' \ current' : Newest(r)' => build'[r] # url'
    BY <2>3, <2>4, <2>5, <2>6, <2>8
  <2>11. \A q \in Publishers : ~UnderWay(q)'
    BY <2>2, <2>7
  <2>12. \A q \in Builders \cup Redeploys, r \in rows' : build'[r] = q => pc'[q] = "done"
    BY <1>2, <2>2, <2>5, <2>7, <2>9
  <2> QED
    BY <2>10, <2>11, <2>12
<1>7. ASSUME NEW p \in Publishers, Deploy(p) PROVE Older' /\ GoingBack'
  BY <1>2, <1>7, KindsAssumption DEF Deploy, Begin, MayBegin
<1>8. ASSUME NEW p \in Publishers, NothingToChoose(p) \/ Promote(p) PROVE Older' /\ GoingBack'
  BY <1>2, <1>8 DEF NothingToChoose, Promote
<1>9. ASSUME NEW p \in Publishers, TakeRow(p) \/ ReadCurrent(p) PROVE Older' /\ GoingBack'
  BY <1>2, <1>9, KindsAssumption DEF TakeRow, ReadCurrent
<1>10. ASSUME NEW p \in Publishers, Demote(p) PROVE Older' /\ GoingBack'
  BY <1>2, <1>10 DEF Demote
<1>11. ASSUME NEW p \in Publishers, Step(p) \/ Fail(p), Abort(p) PROVE Older' /\ GoingBack'
  <2>1. pc[p] # "done"
    BY <1>11 DEF Step, Fail, BreakDeadlock, WaitsFor, Deploy, Load, Choose,
       NothingToChoose, Promote, TakeRow, ReadCurrent, Demote, Commit, Begin, MayBegin
  <2>2. pc'[p] \in {"torn", "aborted"} /\ \A q \in Publishers \ {p} : pc'[q] = pc[q]
    BY <1>11 DEF Abort
  <2> QED
    BY <1>2, <1>11, <2>1, <2>2 DEF Abort
<1>12. CASE UNCHANGED vars
  BY <1>2, <1>12 DEF vars
<1> QED
  BY <1>4, <1>5, <1>6, <1>7, <1>8, <1>9, <1>10, <1>11, <1>12
  DEF Next, Step, Fail, BreakDeadlock

(* service.py:561: a rollback that meets no other publication leaves the     *)
(* widget with another build than the one it was serving, and with one that  *)
(* it has served before.                                                     *)
THEOREM RollbackCorrect == Spec => RollbackGoesBack
<1>1. Init => BackInv
  <2> USE NamesAssumption, KindsAssumption DEF Init, Publishers, Rows, Builds
  <2>1. Init => Stamps
    <3>1. Init => Begun = {}
      BY DEF Begun
    <3> QED
      BY <3>1, FS_EmptySet DEF Stamps
  <2> QED
    BY <2>1 DEF BackInv, Older, GoingBack, UnderWay, Ended
<1>2. TypeOK /\ PublicationInv /\ BackInv /\ [Next]_vars => BackInv'
  BY StampsStep, GoingBackStep DEF PublicationInv, BackInv
<1>3. ASSUME TypeOK, PublicationInv, BackInv, [Next]_vars,
             NEW p \in Rollbacks, InTurn, pc[p] = "demoted", pc'[p] = "done"
      PROVE  url' # loaded[p] /\ \E r \in rows : build[r] = url'
  <2>1. p \in Publishers /\ UnderWay(p) /\ pc[p] # "loaded" /\ pc[p] # "deployed"
    BY <1>3 DEF Publishers, UnderWay, Ended
  <2>2. build[p] # url /\ (\E r \in rows : build[r] = build[p]) /\ loaded[p] = url
    BY <1>3, <2>1 DEF BackInv, GoingBack, PublicationInv, Turns
  <2>3. Commit(p)
    <3>1. ASSUME NEW q \in Publishers, Step(q) \/ Fail(q), ~Commit(q) PROVE pc'[p] # "done"
      BY <1>3, <2>1, <3>1 DEF TypeOK, Step, Fail, BreakDeadlock, Abort, Deploy, Load, Choose,
         NothingToChoose, Promote, TakeRow, ReadCurrent, Demote, Goto
    <3>2. ASSUME NEW q \in Publishers, Commit(q), q # p PROVE FALSE
      BY <1>3, <2>1, <3>2 DEF TypeOK, Commit, Goto
    <3> QED
      BY <1>3, <3>1, <3>2 DEF Next, vars
  <2> QED
    BY <2>2, <2>3 DEF Commit
<1>4. TypeOK /\ PublicationInv /\ BackInv /\ [Next]_vars =>
        \A p \in Rollbacks :
           InTurn /\ pc[p] = "demoted" /\ pc'[p] = "done" =>
             url' # loaded[p] /\ \E r \in rows : build[r] = url'
  BY <1>3
<1>5. TypeOK /\ PublicationInv /\ BackInv /\ [Next]_vars =>
        [\A p \in Rollbacks :
           InTurn /\ pc[p] = "demoted" /\ pc'[p] = "done" =>
             /\ url' # loaded[p]
             /\ \E r \in rows : build[r] = url']_vars
  BY <1>4
<1> QED
  BY <1>1, <1>2, <1>5, TypeCorrect, PublicationInvCorrect, PTL DEF Spec, RollbackGoesBack
=============================================================================
