----------------------- MODULE ConsultationQuotaProofs -----------------------
(***************************************************************************)
(* Proofs about ConsultationQuota, for every set of requests, every set of *)
(* limits, every number of months and every combination of faults.         *)
(***************************************************************************)
EXTENDS ConsultationQuota, FiniteSetTheorems, TLAPS

(* One step of the handler of one request, whatever its replies.           *)
HandlerStep(r) ==
    \E reply \in {"ok", "failed", "lost"} :
        \/ Reserve(r, reply)
        \/ BuildContext(r, reply)
        \/ CreateConsultation(r, reply)
        \/ Release(r, reply)
        \/ Claim(r, reply)
        \/ Complete(r, reply)
        \/ \E ok \in BOOLEAN : RunAgent(r, ok)
        \/ \E answer \in {"ok", "error"} : Notify(r, answer)
        \/ SkipAlert(r)
        \/ AddMessages(r)

(* Next, with the set of possible replies forgotten.                       *)
LEMMA NextCases ==
    ASSUME Next
    PROVE  \/ \E r \in Requests : HandlerStep(r)
           \/ \E r \in Requests : Cancel(r)
           \/ \E victims \in SUBSET InFlight : Crash(victims)
           \/ \E l \in Limits : SetLimit(l)
           \/ NextMonth
<1>1. \A r \in Requests : Replies(r) \subseteq {"ok", "failed", "lost"}
  BY Zenon DEF Replies
<1>2. \A r \in Requests : (\E reply \in Replies(r) : Reserve(r, reply)) => HandlerStep(r)
  BY <1>1, Zenon DEF HandlerStep
<1>3. \A r \in Requests : Handle(r) => HandlerStep(r)
  BY <1>1, Zenon DEF Handle, HandlerStep
<1> QED  BY <1>2, <1>3, Zenon DEF Next

-----------------------------------------------------------------------------
LEMMA InitType == Init => TypeOK
  BY LimitsAreNaturals, LastMonthPositive DEF Init, TypeOK, Months, Steps, Usage

LEMMA NextType == TypeOK /\ [Next]_vars => TypeOK'
<1> SUFFICES ASSUME TypeOK, [Next]_vars PROVE TypeOK'
  OBVIOUS
<1> USE LimitsAreNaturals, LastMonthPositive DEF TypeOK
<1>1. CASE \E r \in Requests : HandlerStep(r)
  <2> PICK r \in Requests : HandlerStep(r)
    BY <1>1
  <2> PICK reply \in {"ok", "failed", "lost"} :
        \/ Reserve(r, reply)
        \/ BuildContext(r, reply)
        \/ CreateConsultation(r, reply)
        \/ Release(r, reply)
        \/ Claim(r, reply)
        \/ Complete(r, reply)
        \/ \E ok \in BOOLEAN : RunAgent(r, ok)
        \/ \E answer \in {"ok", "error"} : Notify(r, answer)
        \/ SkipAlert(r)
        \/ AddMessages(r)
    BY DEF HandlerStep
  <2>1. CASE Reserve(r, reply)
    BY <2>1 DEF Reserve, UsageReserved, Goto, Steps, Usage, TakesEffect
  <2>2. CASE BuildContext(r, reply)
    BY <2>2 DEF BuildContext, Goto, Steps, rowVars
  <2>3. CASE CreateConsultation(r, reply)
    BY <2>3 DEF CreateConsultation, Goto, Steps
  <2>4. CASE Release(r, reply)
    BY <2>4 DEF Release, ReleaseMonth, Goto, Steps
  <2>5. CASE Claim(r, reply)
    BY <2>5 DEF Claim, Goto, Steps
  <2>6. CASE Complete(r, reply)
    BY <2>6 DEF Complete, Outcome, Goto, Steps
  <2>7. ASSUME NEW ok \in BOOLEAN, RunAgent(r, ok) PROVE TypeOK'
    BY <2>7 DEF RunAgent, Goto, Steps, rowVars
  <2>8. ASSUME NEW answer \in {"ok", "error"}, Notify(r, answer) PROVE TypeOK'
    BY <2>8 DEF Notify, Goto, Steps, rowVars
  <2>9. CASE SkipAlert(r)
    BY <2>9 DEF SkipAlert, Goto, Steps, rowVars
  <2>10. CASE AddMessages(r)
    BY <2>10 DEF AddMessages, Goto, Steps, rowVars
  <2> QED  BY <2>1, <2>2, <2>3, <2>4, <2>5, <2>6, <2>7, <2>8, <2>9, <2>10
<1>2. ASSUME NEW r \in Requests, Cancel(r) PROVE TypeOK'
  BY <1>2 DEF Cancel, rowVars
<1>3. ASSUME NEW victims \in SUBSET InFlight, Crash(victims) PROVE TypeOK'
  BY <1>3 DEF Crash, Steps, rowVars
<1>4. ASSUME NEW l \in Limits, SetLimit(l) PROVE TypeOK'
  BY <1>4 DEF SetLimit, rowVars, handlerVars
<1>5. CASE NextMonth
  BY <1>5 DEF NextMonth, rowVars, handlerVars, Months
<1>6. CASE UNCHANGED vars
  BY <1>6 DEF vars, rowVars, handlerVars
<1> QED  BY <1>1, <1>2, <1>3, <1>4, <1>5, <1>6, NextCases

(* The variables keep their types: the usage row never goes below zero, in *)
(* particular.                                                             *)
THEOREM QuotaTypeOK == Spec => []TypeOK
  BY InitType, NextType, PTL DEF Spec

-----------------------------------------------------------------------------
(* Steps after a successful reservation and before a successful release.   *)
Holding == {"reserved", "ready", "drafted", "failing", "saved", "notifying",
            "completing", "messages", "created"}

AfterInsert == {"saved", "notifying", "completing", "messages", "created"}

(* What the position of a handler says about its reservation and its row.  *)
StageInv ==
    \A r \in Requests :
        /\ pc[r] = "idle" => r \notin charged /\ tier[r] = "none" /\ ack[r] = "none"
        /\ pc[r] \in Holding => r \in charged
        /\ pc[r] \in AfterInsert => r \in saved

LEMMA InitStage == Init => StageInv
  BY DEF Init, StageInv, Holding, AfterInsert

LEMMA NextStage == TypeOK /\ StageInv /\ [Next]_vars => StageInv'
<1> SUFFICES ASSUME TypeOK, StageInv, [Next]_vars PROVE StageInv'
  OBVIOUS
<1> USE DEF TypeOK, StageInv, Holding, AfterInsert, Goto
<1>1. ASSUME NEW r \in Requests, NEW reply, Reserve(r, reply) PROVE StageInv'
  BY <1>1 DEF Reserve, TakesEffect
<1>2. ASSUME NEW r \in Requests, NEW reply, BuildContext(r, reply) PROVE StageInv'
  BY <1>2 DEF BuildContext, rowVars
<1>3. ASSUME NEW r \in Requests, NEW reply, CreateConsultation(r, reply) PROVE StageInv'
  BY <1>3 DEF CreateConsultation, TakesEffect
<1>4. ASSUME NEW r \in Requests, NEW reply, Release(r, reply) PROVE StageInv'
  BY <1>4 DEF Release
<1>5. ASSUME NEW r \in Requests, NEW reply, Claim(r, reply) PROVE StageInv'
  BY <1>5 DEF Claim
<1>6. ASSUME NEW r \in Requests, NEW reply, Complete(r, reply) PROVE StageInv'
  BY <1>6 DEF Complete
<1>7. ASSUME NEW r \in Requests, NEW ok \in BOOLEAN, RunAgent(r, ok) PROVE StageInv'
  BY <1>7 DEF RunAgent, rowVars
<1>8. ASSUME NEW r \in Requests, NEW answer, Notify(r, answer) PROVE StageInv'
  BY <1>8 DEF Notify, rowVars
<1>9. ASSUME NEW r \in Requests, SkipAlert(r) PROVE StageInv'
  BY <1>9 DEF SkipAlert, rowVars
<1>10. ASSUME NEW r \in Requests, AddMessages(r) PROVE StageInv'
  BY <1>10 DEF AddMessages, rowVars
<1>11. ASSUME NEW r \in Requests, Cancel(r) PROVE StageInv'
  BY <1>11 DEF Cancel, rowVars
<1>12. ASSUME NEW victims \in SUBSET InFlight, Crash(victims) PROVE StageInv'
  BY <1>12 DEF Crash, rowVars
<1>13. ASSUME NEW l \in Limits, SetLimit(l) PROVE StageInv'
  BY <1>13 DEF SetLimit, rowVars, handlerVars
<1>14. CASE NextMonth
  BY <1>14 DEF NextMonth, rowVars, handlerVars
<1>15. CASE UNCHANGED vars
  BY <1>15 DEF vars, rowVars, handlerVars
<1>16. ASSUME NEW r \in Requests, HandlerStep(r) PROVE StageInv'
  BY <1>1, <1>2, <1>3, <1>4, <1>5, <1>6, <1>7, <1>8, <1>9, <1>10, <1>16, Zenon
     DEF HandlerStep
<1> QED  BY <1>11, <1>12, <1>13, <1>14, <1>15, <1>16, NextCases

-----------------------------------------------------------------------------
(* Requests charged to month m and entitled to the external model.         *)
EntitledIn(m) == {r \in ChargedIn(m) : UseExternalModel(ticket[r])}

(* At most a limit's worth of the charged requests of a month is entitled, *)
(* and only entitled requests are answered by the external model.          *)
EntitlementInv ==
    /\ \A m \in Months : \E l \in Limits : Cardinality(EntitledIn(m)) <= l
    /\ \A r \in Requests : tier[r] = "external" => UseExternalModel(ticket[r])

(* The part of the state the quota is computed from is left alone.         *)
LedgerFrame ==
    /\ UNCHANGED <<count, charged>>
    /\ \A r \in charged : month'[r] = month[r] /\ ticket'[r] = ticket[r]

(* A step changes the ledger only by a reservation or a release.           *)
LEMMA LedgerSteps ==
    ASSUME TypeOK, StageInv, [Next]_vars
    PROVE  \/ LedgerFrame
           \/ \E r \in Requests, reply \in {"ok", "lost"} : Reserve(r, reply)
           \/ \E r \in Requests, reply \in {"ok", "lost"} :
                 Release(r, reply) /\ count[month[r]] > 0
<1> USE DEF LedgerFrame
<1>1. ASSUME NEW r \in Requests, NEW reply \in {"ok", "failed", "lost"}, Reserve(r, reply)
      PROVE  LedgerFrame \/ reply \in {"ok", "lost"}
  BY <1>1 DEF Reserve, TakesEffect, TypeOK, StageInv, Goto
<1>2. ASSUME NEW r \in Requests, NEW reply \in {"ok", "failed", "lost"}, Release(r, reply)
      PROVE  LedgerFrame \/ (reply \in {"ok", "lost"} /\ count[month[r]] > 0)
  BY <1>2 DEF Release, ReleaseMonth, TakesEffect
<1>3. ASSUME NEW r \in Requests, HandlerStep(r),
             ~ \E reply \in {"ok", "failed", "lost"} : Reserve(r, reply) \/ Release(r, reply)
      PROVE  LedgerFrame
  BY <1>3 DEF HandlerStep, BuildContext, CreateConsultation, Claim, Complete, RunAgent,
              Notify, SkipAlert, AddMessages, rowVars
<1>4. ASSUME NEW r \in Requests, Cancel(r) PROVE LedgerFrame
  BY <1>4 DEF Cancel, rowVars
<1>5. ASSUME NEW victims \in SUBSET InFlight, Crash(victims) PROVE LedgerFrame
  BY <1>5 DEF Crash, rowVars
<1>6. ASSUME NEW l \in Limits, SetLimit(l) PROVE LedgerFrame
  BY <1>6 DEF SetLimit, rowVars, handlerVars
<1>7. CASE NextMonth
  BY <1>7 DEF NextMonth, rowVars, handlerVars
<1>8. CASE UNCHANGED vars
  BY <1>8 DEF vars, rowVars, handlerVars
<1> QED
  BY <1>1, <1>2, <1>3, <1>4, <1>5, <1>6, <1>7, <1>8, NextCases, Zenon

(* How the set of charged requests of each month moves with the ledger.    *)
LEMMA ChargedAfterReserve ==
    ASSUME TypeOK, StageInv, NEW r \in Requests, NEW reply \in {"ok", "lost"},
           Reserve(r, reply)
    PROVE  /\ r \notin charged
           /\ \A m \in Months :
                ChargedIn(m)' = IF m = thisMonth THEN ChargedIn(m) \cup {r}
                                                 ELSE ChargedIn(m)
  BY DEF TypeOK, StageInv, Reserve, Goto, TakesEffect, ChargedIn

LEMMA ChargedAfterRelease ==
    ASSUME TypeOK, StageInv, NEW r \in Requests, NEW reply \in {"ok", "lost"},
           Release(r, reply), count[month[r]] > 0
    PROVE  /\ r \in ChargedIn(month[r])
           /\ \A m \in Months : ChargedIn(m)' = ChargedIn(m) \ {r}
           /\ \A m \in Months \ {month[r]} : ChargedIn(m)' = ChargedIn(m)
  BY DEF TypeOK, StageInv, Release, ReleaseMonth, Goto, TakesEffect, ChargedIn, Holding

LEMMA ChargedFinite ==
    ASSUME TypeOK
    PROVE  \A m : /\ IsFiniteSet(ChargedIn(m))
                  /\ Cardinality(ChargedIn(m)) \in Nat
<1>1. \A m : ChargedIn(m) \in SUBSET Requests
  BY DEF ChargedIn, TypeOK
<1> QED  BY <1>1, RequestsFinite, FS_Subset, FS_CardinalityType

LEMMA InitLedger == Init => LedgerBalanced
<1> SUFFICES ASSUME Init, NEW m \in Months PROVE count[m] = Cardinality(ChargedIn(m))
  BY DEF LedgerBalanced
<1>1. ChargedIn(m) = {}
  BY DEF Init, ChargedIn
<1> QED  BY <1>1, FS_EmptySet DEF Init

LEMMA NextLedger == TypeOK /\ StageInv /\ LedgerBalanced /\ [Next]_vars => LedgerBalanced'
<1> SUFFICES ASSUME TypeOK, StageInv, LedgerBalanced, [Next]_vars, NEW m \in Months
             PROVE  count'[m] = Cardinality(ChargedIn(m)')
  BY DEF LedgerBalanced
<1>0. count[m] = Cardinality(ChargedIn(m))
  BY DEF LedgerBalanced
<1>1. CASE LedgerFrame
  <2>1. ChargedIn(m)' = ChargedIn(m)
    BY <1>1 DEF LedgerFrame, ChargedIn
  <2> QED  BY <2>1, <1>0, <1>1 DEF LedgerFrame
<1>2. ASSUME NEW r \in Requests, NEW reply \in {"ok", "lost"}, Reserve(r, reply)
      PROVE  count'[m] = Cardinality(ChargedIn(m)')
  <2>1. CASE m = thisMonth
    <3>1. r \notin ChargedIn(m) /\ ChargedIn(m)' = ChargedIn(m) \cup {r}
      BY <1>2, <2>1, ChargedAfterReserve DEF ChargedIn
    <3>2. Cardinality(ChargedIn(m)') = Cardinality(ChargedIn(m)) + 1
      BY <3>1, ChargedFinite, FS_AddElement
    <3>3. count'[m] = count[m] + 1
      BY <1>2, <2>1 DEF Reserve, TakesEffect, TypeOK
    <3> QED  BY <1>0, <3>2, <3>3
  <2>2. CASE m # thisMonth
    <3>1. ChargedIn(m)' = ChargedIn(m)
      BY <1>2, <2>2, ChargedAfterReserve
    <3>2. count'[m] = count[m]
      BY <1>2, <2>2 DEF Reserve, TakesEffect, TypeOK
    <3> QED  BY <1>0, <3>1, <3>2
  <2> QED  BY <2>1, <2>2
<1>3. ASSUME NEW r \in Requests, NEW reply \in {"ok", "lost"}, Release(r, reply),
             count[month[r]] > 0
      PROVE  count'[m] = Cardinality(ChargedIn(m)')
  <2>1. CASE m = month[r]
    <3>1. r \in ChargedIn(m) /\ ChargedIn(m)' = ChargedIn(m) \ {r}
      BY <1>3, <2>1, ChargedAfterRelease
    <3>2. Cardinality(ChargedIn(m)') = Cardinality(ChargedIn(m)) - 1
      BY <3>1, ChargedFinite, FS_RemoveElement
    <3>3. count'[m] = count[m] - 1
      BY <1>3, <2>1 DEF Release, ReleaseMonth, TakesEffect, TypeOK
    <3> QED  BY <1>0, <3>2, <3>3
  <2>2. CASE m # month[r]
    <3>1. ChargedIn(m)' = ChargedIn(m)
      BY <1>3, <2>2, ChargedAfterRelease
    <3>2. count'[m] = count[m]
      BY <1>3, <2>2 DEF Release, ReleaseMonth, TakesEffect, TypeOK
    <3> QED  BY <1>0, <3>1, <3>2
  <2> QED  BY <2>1, <2>2
<1> QED  BY <1>1, <1>2, <1>3, LedgerSteps

(* The usage row is exact, for any number of interleaved requests.         *)
THEOREM QuotaLedger == Spec => []LedgerBalanced
<1>1. Init => TypeOK /\ StageInv /\ LedgerBalanced
  BY InitType, InitStage, InitLedger
<1>2. TypeOK /\ StageInv /\ LedgerBalanced /\ [Next]_vars
        => (TypeOK /\ StageInv /\ LedgerBalanced)'
  BY NextType, NextStage, NextLedger
<1> QED  BY <1>1, <1>2, PTL DEF Spec

(* A consultation known to be saved is in the table and is paid for.       *)
THEOREM QuotaCreatedIsCharged == Spec => []CreatedIsCharged
<1>1. StageInv => CreatedIsCharged
  BY DEF StageInv, CreatedIsCharged, Holding, AfterInsert
<1> QED  BY <1>1, InitType, NextType, InitStage, NextStage, PTL DEF Spec

-----------------------------------------------------------------------------
(* Without faults nothing is cancelled, every call succeeds and no handler *)
(* dies; the release of a failing handler finds its charge in the row.     *)
ReturnedInv ==
    /\ cancelled = {}
    /\ \A r \in Requests : pc[r] # "dead"
    /\ \A r \in Requests : pc[r] = "refused" => r \notin charged

LEMMA InitReturned == Init => ReturnedInv
  BY DEF Init, ReturnedInv

LEMMA NextReturned ==
    ASSUME Faults = {}, TypeOK, StageInv, LedgerBalanced, ReturnedInv, [Next]_vars
    PROVE  ReturnedInv'
<1> USE DEF TypeOK, StageInv, ReturnedInv, Holding, AfterInsert, Goto
<1>1. \A r \in Requests : Replies(r) = {"ok"}
  BY DEF Replies
<1>2. ASSUME NEW r \in Requests, Reserve(r, "ok") PROVE ReturnedInv'
  BY <1>2 DEF Reserve, TakesEffect
<1>3. ASSUME NEW r \in Requests, Release(r, "ok") PROVE ReturnedInv'
  <2>1. r \in ChargedIn(month[r]) /\ month[r] \in Months
    BY <1>3 DEF Release, ChargedIn
  <2>2. Cardinality(ChargedIn(month[r])) # 0
    BY <2>1, ChargedFinite, FS_EmptySet
  <2>3. count[month[r]] > 0
    BY <2>1, <2>2 DEF LedgerBalanced
  <2> QED  BY <1>3, <2>3 DEF Release, ReleaseMonth, TakesEffect
<1>4. ASSUME NEW r \in Requests, Handle(r), ~Release(r, "ok") PROVE ReturnedInv'
  <2>1. CASE BuildContext(r, "ok")
    BY <2>1 DEF BuildContext, rowVars
  <2>2. ASSUME NEW ok \in BOOLEAN, RunAgent(r, ok) PROVE ReturnedInv'
    BY <2>2 DEF RunAgent, rowVars
  <2>3. CASE CreateConsultation(r, "ok")
    BY <2>3 DEF CreateConsultation
  <2>4. CASE SkipAlert(r)
    BY <2>4 DEF SkipAlert, rowVars
  <2>5. CASE Claim(r, "ok")
    BY <2>5 DEF Claim
  <2>6. ASSUME NEW answer \in {"ok", "error"}, Notify(r, answer) PROVE ReturnedInv'
    BY <2>6 DEF Notify, rowVars
  <2>7. CASE Complete(r, "ok")
    BY <2>7 DEF Complete
  <2>8. CASE AddMessages(r)
    BY <2>8 DEF AddMessages, rowVars
  <2>9. \/ BuildContext(r, "ok") \/ \E ok \in BOOLEAN : RunAgent(r, ok)
        \/ CreateConsultation(r, "ok") \/ SkipAlert(r) \/ Claim(r, "ok")
        \/ \E answer \in {"ok", "error"} : Notify(r, answer)
        \/ Complete(r, "ok") \/ AddMessages(r)
    <3> HIDE DEF TypeOK, StageInv, ReturnedInv, Goto
    <3>1. \A reply \in Replies(r) : reply = "ok"
      BY <1>1
    <3> QED  BY <1>4, <3>1, Zenon DEF Handle
  <2> QED  BY <2>1, <2>2, <2>3, <2>4, <2>5, <2>6, <2>7, <2>8, <2>9, Zenon
<1>5. ASSUME NEW l \in Limits, SetLimit(l) PROVE ReturnedInv'
  BY <1>5 DEF SetLimit, rowVars, handlerVars
<1>6. CASE NextMonth
  BY <1>6 DEF NextMonth, rowVars, handlerVars
<1>7. CASE UNCHANGED vars
  BY <1>7 DEF vars, rowVars, handlerVars
<1>8. \A r \in Requests : ~Cancel(r)
  BY DEF Cancel
<1>9. \A victims : ~Crash(victims)
  BY DEF Crash
<1>10. \A r \in Requests : \A reply \in Replies(r) : Reserve(r, reply) => ReturnedInv'
  BY <1>1, <1>2
<1> QED  BY <1>3, <1>4, <1>5, <1>6, <1>7, <1>8, <1>9, <1>10, Zenon DEF Next

(* "If processing fails before the consultation is saved, the reservation  *)
(* is returned", for any number of requests, limits and months, as long as *)
(* no call fails, no client disconnects and no process exits: with one of  *)
(* those faults a charge may stay, which quota_cancelled_release shows.    *)
THEOREM QuotaReservationReturned ==
    ASSUME Faults = {} PROVE Spec => []ReservationReturned
<1>1. Init => TypeOK /\ StageInv /\ LedgerBalanced /\ ReturnedInv
  BY InitType, InitStage, InitLedger, InitReturned
<1>2. TypeOK /\ StageInv /\ LedgerBalanced /\ ReturnedInv /\ [Next]_vars
        => (TypeOK /\ StageInv /\ LedgerBalanced /\ ReturnedInv)'
  BY NextType, NextStage, NextLedger, NextReturned
<1>3. ReturnedInv => ReservationReturned
  BY DEF ReturnedInv, ReservationReturned
<1> QED  BY <1>1, <1>2, <1>3, PTL DEF Spec

-----------------------------------------------------------------------------
LEMMA EntitledFinite ==
    ASSUME TypeOK
    PROVE  \A m : /\ IsFiniteSet(EntitledIn(m))
                  /\ Cardinality(EntitledIn(m)) \in Nat
                  /\ Cardinality(EntitledIn(m)) <= Cardinality(ChargedIn(m))
<1>1. \A m : EntitledIn(m) \in SUBSET ChargedIn(m)
  BY DEF EntitledIn
<1> QED  BY <1>1, ChargedFinite, FS_Subset, FS_CardinalityType

LEMMA InitEntitlement == Init => EntitlementInv
<1> SUFFICES ASSUME Init PROVE EntitlementInv
  OBVIOUS
<1>1. \A m : EntitledIn(m) = {}
  BY DEF Init, EntitledIn, ChargedIn
<1>2. \A m : Cardinality(EntitledIn(m)) <= limit
  BY <1>1, FS_EmptySet, LimitsAreNaturals DEF Init
<1> QED  BY <1>2 DEF Init, EntitlementInv

(* A request reserves before its agent runs, and the agent reads the       *)
(* request's own reservation.                                              *)
LEMMA NextTier ==
    ASSUME TypeOK, StageInv, EntitlementInv, [Next]_vars
    PROVE  \A r \in Requests : tier'[r] = "external" => UseExternalModel(ticket[r])'
<1> USE DEF TypeOK, EntitlementInv, UseExternalModel
<1>1. ASSUME NEW q \in Requests, NEW reply, Reserve(q, reply), NEW r \in Requests,
             tier'[r] = "external"
      PROVE  UseExternalModel(ticket[r])'
  BY <1>1 DEF Reserve, Goto, StageInv
<1>2. ASSUME NEW q \in Requests, NEW ok \in BOOLEAN, RunAgent(q, ok), NEW r \in Requests,
             tier'[r] = "external"
      PROVE  UseExternalModel(ticket[r])'
  BY <1>2 DEF RunAgent
<1>3. ASSUME NEW q \in Requests, HandlerStep(q),
             ~ \E reply \in {"ok", "failed", "lost"} : Reserve(q, reply),
             ~ \E ok \in BOOLEAN : RunAgent(q, ok)
      PROVE  UNCHANGED <<tier, ticket>>
  BY <1>3 DEF HandlerStep, BuildContext, CreateConsultation, Release, Claim, Complete,
              Notify, SkipAlert, AddMessages, rowVars
<1>4. ASSUME NEW r \in Requests, Cancel(r) PROVE UNCHANGED <<tier, ticket>>
  BY <1>4 DEF Cancel, rowVars
<1>5. ASSUME NEW victims \in SUBSET InFlight, Crash(victims) PROVE UNCHANGED <<tier, ticket>>
  BY <1>5 DEF Crash, rowVars
<1>6. ASSUME NEW l \in Limits, SetLimit(l) PROVE UNCHANGED <<tier, ticket>>
  BY <1>6 DEF SetLimit, rowVars, handlerVars
<1>7. CASE NextMonth
  BY <1>7 DEF NextMonth, rowVars, handlerVars
<1>8. CASE UNCHANGED vars
  BY <1>8 DEF vars, rowVars, handlerVars
<1> QED  BY <1>1, <1>2, <1>3, <1>4, <1>5, <1>6, <1>7, <1>8, NextCases

LEMMA NextEntitlement ==
    TypeOK /\ StageInv /\ LedgerBalanced /\ EntitlementInv /\ [Next]_vars => EntitlementInv'
<1> SUFFICES ASSUME TypeOK, StageInv, LedgerBalanced, EntitlementInv, [Next]_vars,
                    NEW m \in Months
             PROVE  \E l \in Limits : Cardinality(EntitledIn(m)') <= l
  BY NextTier DEF EntitlementInv
<1> PICK l \in Limits : Cardinality(EntitledIn(m)) <= l
  BY DEF EntitlementInv
<1>0. TypeOK' /\ LedgerBalanced'
  BY NextType, NextLedger
<1>1. ASSUME EntitledIn(m)' \subseteq EntitledIn(m)
      PROVE  Cardinality(EntitledIn(m)') <= l
  <2>1. EntitledIn(m)' \in SUBSET EntitledIn(m)
    BY <1>1
  <2>2. /\ Cardinality(EntitledIn(m)') <= Cardinality(EntitledIn(m))
        /\ Cardinality(EntitledIn(m)') \in Nat
    BY <2>1, EntitledFinite, FS_Subset, FS_CardinalityType
  <2> QED  BY <2>2, EntitledFinite, LimitsAreNaturals
<1>2. CASE LedgerFrame
  <2>1. EntitledIn(m)' \subseteq EntitledIn(m)
    BY <1>2 DEF LedgerFrame, EntitledIn, ChargedIn
  <2> QED  BY <2>1, <1>1
<1>3. ASSUME NEW r \in Requests, NEW reply \in {"ok", "lost"}, Reserve(r, reply)
      PROVE  \E k \in Limits : Cardinality(EntitledIn(m)') <= k
  <2>1. CASE m = thisMonth /\ count[m] + 1 <= limit
    <3>0. /\ EntitledIn(m)' \in SUBSET (ChargedIn(m)')
          /\ ChargedIn(m)' \in SUBSET Requests
      BY <1>0 DEF EntitledIn, ChargedIn, TypeOK
    <3>1. Cardinality(EntitledIn(m)') <= count'[m] /\ count'[m] \in Nat
      BY <1>0, <3>0, RequestsFinite, FS_Subset DEF LedgerBalanced, TypeOK
    <3>2. count'[m] <= limit
      BY <1>3, <2>1 DEF Reserve, UsageReserved, TakesEffect, TypeOK
    <3>3. limit \in Limits
      BY DEF TypeOK
    <3>4. Cardinality(EntitledIn(m)') \in Nat
      BY <3>0, RequestsFinite, FS_Subset, FS_CardinalityType
    <3> QED  BY <3>1, <3>2, <3>3, <3>4, LimitsAreNaturals
  <2>2. CASE ~(m = thisMonth /\ count[m] + 1 <= limit)
    <3>1. r \notin EntitledIn(m)'
      BY <1>3, <2>2 DEF Reserve, UsageReserved, TakesEffect, EntitledIn, ChargedIn, UseExternalModel, TypeOK
    <3>2. EntitledIn(m)' \subseteq EntitledIn(m)
      BY <3>1, <1>3 DEF Reserve, TakesEffect, EntitledIn, ChargedIn, TypeOK
    <3> QED  BY <3>2, <1>1
  <2> QED  BY <2>1, <2>2
<1>4. ASSUME NEW r \in Requests, NEW reply \in {"ok", "lost"}, Release(r, reply)
      PROVE  Cardinality(EntitledIn(m)') <= l
  <2>1. EntitledIn(m)' \subseteq EntitledIn(m)
    BY <1>4 DEF Release, ReleaseMonth, EntitledIn, ChargedIn, TypeOK
  <2> QED  BY <2>1, <1>1
<1> QED  BY <1>2, <1>3, <1>4, LedgerSteps

(* The external model answers at most a limit's worth of the consultations *)
(* a month is charged for, whatever the interleaving and the faults.       *)
THEOREM QuotaExternalWithinLimit == Spec => []ExternalWithinLimit
<1> DEFINE IInv == TypeOK /\ StageInv /\ LedgerBalanced /\ EntitlementInv
<1>1. Init => IInv
  BY InitType, InitStage, InitLedger, InitEntitlement
<1>2. IInv /\ [Next]_vars => IInv'
  BY NextType, NextStage, NextLedger, NextEntitlement
<1>3. IInv => ExternalWithinLimit
  <2> SUFFICES ASSUME IInv, NEW m \in Months
               PROVE  \E l \in Limits : Cardinality(ExternalIn(m)) <= l
    BY DEF ExternalWithinLimit
  <2>1. ExternalIn(m) \in SUBSET EntitledIn(m)
    BY DEF ExternalIn, EntitledIn, EntitlementInv, ChargedIn, TypeOK
  <2>2. /\ Cardinality(ExternalIn(m)) <= Cardinality(EntitledIn(m))
        /\ Cardinality(ExternalIn(m)) \in Nat
    BY <2>1, EntitledFinite, FS_Subset, FS_CardinalityType
  <2> QED  BY <2>2, EntitledFinite, LimitsAreNaturals DEF EntitlementInv
<1> QED  BY <1>1, <1>2, <1>3, PTL DEF Spec

-----------------------------------------------------------------------------
AtPagerDuty == {"notifying", "completing"}

(* A request at PagerDuty is alone and holds the month's row in sending;   *)
(* an acknowledged alert keeps the row from ever being claimed again: it   *)
(* is delivered, or still sending with nobody but the acknowledged request *)
(* left to complete it.                                                    *)
AlertInv ==
    /\ \A r \in Requests :
         /\ pc[r] \in AtPagerDuty => notice[month[r]] = "sending"
         /\ pc[r] = "notifying" => ack[r] = "none"
         /\ pc[r] \in {"idle", "reserved", "ready", "drafted", "failing", "saved"}
              => ack[r] = "none"
         /\ ack[r] = "ok" => notice[month[r]] \in {"sending", "delivered"}
    /\ \A r, s \in Requests :
         month[r] = month[s] /\ pc[s] \in AtPagerDuty
           => /\ pc[r] \in AtPagerDuty => r = s
              /\ ack[r] = "ok" => r = s
    /\ AlertedOnce

LEMMA InitAlert == Init => AlertInv
  BY DEF Init, AlertInv, AlertedOnce, AtPagerDuty

LEMMA NextAlert == TypeOK /\ StageInv /\ AlertInv /\ [Next]_vars => AlertInv'
<1> SUFFICES ASSUME TypeOK, StageInv, AlertInv, [Next]_vars PROVE AlertInv'
  OBVIOUS
<1> USE DEF TypeOK, AlertInv, AlertedOnce, AtPagerDuty, Goto
<1>1. ASSUME NEW r \in Requests, NEW reply, Reserve(r, reply) PROVE AlertInv'
  BY <1>1 DEF Reserve, StageInv
<1>2. ASSUME NEW r \in Requests, NEW reply, BuildContext(r, reply) PROVE AlertInv'
  BY <1>2 DEF BuildContext, rowVars
<1>3. ASSUME NEW r \in Requests, NEW reply, CreateConsultation(r, reply) PROVE AlertInv'
  BY <1>3 DEF CreateConsultation
<1>4. ASSUME NEW r \in Requests, NEW reply, Release(r, reply) PROVE AlertInv'
  BY <1>4 DEF Release
<1>5. ASSUME NEW r \in Requests, NEW reply, Claim(r, reply) PROVE AlertInv'
  BY <1>5 DEF Claim, Claimable, TakesEffect
<1>6. ASSUME NEW r \in Requests, NEW reply, Complete(r, reply) PROVE AlertInv'
  BY <1>6 DEF Complete, Outcome
<1>7. ASSUME NEW r \in Requests, NEW ok \in BOOLEAN, RunAgent(r, ok) PROVE AlertInv'
  BY <1>7 DEF RunAgent, rowVars
<1>8. ASSUME NEW r \in Requests, NEW answer \in {"ok", "error"}, Notify(r, answer)
      PROVE  AlertInv'
  BY <1>8 DEF Notify, rowVars
<1>9. ASSUME NEW r \in Requests, SkipAlert(r) PROVE AlertInv'
  BY <1>9 DEF SkipAlert, rowVars
<1>10. ASSUME NEW r \in Requests, AddMessages(r) PROVE AlertInv'
  BY <1>10 DEF AddMessages, rowVars
<1>11. ASSUME NEW r \in Requests, Cancel(r) PROVE AlertInv'
  BY <1>11 DEF Cancel, rowVars
<1>12. ASSUME NEW victims \in SUBSET InFlight, Crash(victims) PROVE AlertInv'
  BY <1>12 DEF Crash, rowVars
<1>13. ASSUME NEW l \in Limits, SetLimit(l) PROVE AlertInv'
  BY <1>13 DEF SetLimit, rowVars, handlerVars
<1>14. CASE NextMonth
  BY <1>14 DEF NextMonth, rowVars, handlerVars
<1>15. CASE UNCHANGED vars
  BY <1>15 DEF vars, rowVars, handlerVars
<1>16. ASSUME NEW r \in Requests, HandlerStep(r) PROVE AlertInv'
  BY <1>1, <1>2, <1>3, <1>4, <1>5, <1>6, <1>7, <1>8, <1>9, <1>10, <1>16, Zenon
     DEF HandlerStep
<1> QED  BY <1>11, <1>12, <1>13, <1>14, <1>15, <1>16, NextCases

(* Two requests are never at PagerDuty for the same month.                 *)
THEOREM QuotaOneSender == Spec => []OneSender
<1>1. AlertInv => OneSender
  BY DEF AlertInv, OneSender, Sending, AtPagerDuty
<1> QED
  BY <1>1, InitType, NextType, InitStage, NextStage, InitAlert, NextAlert, PTL DEF Spec

(* PagerDuty acknowledges at most one alert of a month, even when the      *)
(* completion is lost, the request is cancelled or the process dies.       *)
THEOREM QuotaAlertedOnce == Spec => []AlertedOnce
<1>1. AlertInv => AlertedOnce
  BY DEF AlertInv
<1> QED
  BY <1>1, InitType, NextType, InitStage, NextStage, InitAlert, NextAlert, PTL DEF Spec

(* The row of a month's alert moves only along claim and completion, and   *)
(* delivered is final.                                                     *)
THEOREM QuotaNoticeLifecycle == Spec => NoticeLifecycle
<1> DEFINE IInv == TypeOK /\ StageInv /\ AlertInv
           Moves(m) == /\ notice[m] = "delivered" => notice'[m] = "delivered"
                       /\ notice[m] = "sending" => notice'[m] # "none"
                       /\ notice'[m] \in {"delivered", "failed"} =>
                             notice[m] \in {"sending", notice'[m]}
<1>1. Init => IInv
  BY InitType, InitStage, InitAlert
<1>2. IInv /\ [Next]_vars => IInv'
  BY NextType, NextStage, NextAlert
<1>3. IInv /\ [Next]_vars => [\A m \in Months : Moves(m)]_notice
  <2> SUFFICES ASSUME IInv, [Next]_vars, notice' # notice, NEW m \in Months
               PROVE  Moves(m)
    OBVIOUS
  <2> USE DEF TypeOK
  <2>1. ASSUME NEW r \in Requests, NEW reply, Claim(r, reply) PROVE Moves(m)
    BY <2>1 DEF Claim, Claimable
  <2>2. ASSUME NEW r \in Requests, NEW reply, Complete(r, reply) PROVE Moves(m)
    BY <2>2 DEF Complete, Outcome, AlertInv, AtPagerDuty, Goto
  <2>3. ASSUME NEW r \in Requests, HandlerStep(r)
        PROVE  \E reply : Claim(r, reply) \/ Complete(r, reply)
    BY <2>3 DEF HandlerStep, Reserve, BuildContext, CreateConsultation, Release,
                RunAgent, Notify, SkipAlert, AddMessages, rowVars
  <2>4. CASE UNCHANGED vars \/ NextMonth
    BY <2>4 DEF vars, NextMonth, rowVars
  <2>5. ASSUME NEW r \in Requests, Cancel(r) PROVE FALSE
    BY <2>5 DEF Cancel, rowVars
  <2>6. ASSUME NEW victims \in SUBSET InFlight, Crash(victims) PROVE FALSE
    BY <2>6 DEF Crash, rowVars
  <2>7. ASSUME NEW l \in Limits, SetLimit(l) PROVE FALSE
    BY <2>7 DEF SetLimit, rowVars
  <2> HIDE DEF Moves
  <2> QED  BY <2>1, <2>2, <2>3, <2>4, <2>5, <2>6, <2>7, NextCases, Zenon
<1> QED  BY <1>1, <1>2, <1>3, PTL DEF Spec, NoticeLifecycle

-----------------------------------------------------------------------------
LEMMA InitQuota == Init => Quota!Init
<1> SUFFICES ASSUME Init PROVE Quota!Init
  OBVIOUS
<1>1. \A m : ChargedIn(m) = {}
  BY DEF Init, ChargedIn
<1>2. charged = {}
  BY DEF Init
<1> QED  BY <1>1, <1>2 DEF Quota!Init

(* The instance's own Cardinality is the one of FiniteSets.                *)
LEMMA QuotaCardinality == \A S : Quota!Cardinality(S) = Cardinality(S)
  BY Zenon DEF Quota!Cardinality, Cardinality, Quota!IsFiniteSet, IsFiniteSet

LEMMA NextQuota ==
    TypeOK /\ StageInv /\ LedgerBalanced /\ [Next]_vars => [Quota!Next]_(Quota!vars)
<1> DEFINE taken == [m \in Months |-> ChargedIn(m)]
           entitled == {r \in charged : ticket[r].count <= ticket[r].limit}
<1> SUFFICES ASSUME TypeOK, StageInv, LedgerBalanced, [Next]_vars
             PROVE  Quota!Next \/ UNCHANGED <<taken, entitled>>
  BY DEF Quota!vars
<1>1. CASE LedgerFrame
  <2>1. \A m \in Months : ChargedIn(m)' = ChargedIn(m)
    BY <1>1 DEF LedgerFrame, ChargedIn
  <2>2. entitled' = entitled
    BY <1>1 DEF LedgerFrame
  <2> QED  BY <2>1, <2>2
<1>2. ASSUME NEW r \in Requests, NEW reply \in {"ok", "lost"}, Reserve(r, reply)
      PROVE  Quota!Next
  <2> PICK m \in Months, l \in Limits : m = thisMonth /\ l = limit
    BY DEF TypeOK
  <2>1. r \notin Quota!Holders
    BY <1>2, ChargedAfterReserve DEF Quota!Holders, ChargedIn
  <2>2. taken' = [taken EXCEPT ![m] = @ \cup {r}]
    BY <1>2, ChargedAfterReserve
  <2>3. count[m] = Cardinality(taken[m])
    BY DEF LedgerBalanced
  <2>4. count[m] \in Nat /\ l \in Nat
    BY LimitsAreNaturals DEF TypeOK
  <2>5. /\ r \notin charged
        /\ charged' = charged \cup {r}
        /\ ticket'[r] = [count |-> count[m] + 1, limit |-> l]
        /\ \A q \in charged : ticket'[q] = ticket[q]
    BY <1>2, ChargedAfterReserve DEF Reserve, UsageReserved, TakesEffect, TypeOK
  <2>6. entitled' = IF Cardinality(taken[m]) < l THEN entitled \cup {r} ELSE entitled
    BY <2>3, <2>4, <2>5
  <2>7. Quota!Take(r, m, l)
    BY <2>1, <2>2, <2>6, QuotaCardinality, Zenon DEF Quota!Take
  <2> QED  BY <2>7 DEF Quota!Next
<1>3. ASSUME NEW r \in Requests, NEW reply \in {"ok", "lost"}, Release(r, reply),
             count[month[r]] > 0
      PROVE  Quota!Next
  <2> PICK m \in Months : m = month[r]
    BY DEF TypeOK
  <2>1. r \in taken[m]
    BY <1>3, ChargedAfterRelease
  <2>2. taken' = [taken EXCEPT ![m] = @ \ {r}]
    BY <1>3, ChargedAfterRelease
  <2>3. entitled' = entitled \ {r}
    BY <1>3 DEF Release, ReleaseMonth, TakesEffect
  <2>4. Quota!GiveBack(r, m)
    BY <2>1, <2>2, <2>3 DEF Quota!GiveBack
  <2> QED  BY <2>4 DEF Quota!Next
<1> QED  BY <1>1, <1>2, <1>3, LedgerSteps

(* The usage counter implements slots handed out first come, first served: *)
(* every reservation is a Take, every release that reaches the database is *)
(* a GiveBack, and nothing else moves the quota.                           *)
THEOREM QuotaRefinement == Spec => ImplementsQuota
<1> DEFINE IInv == TypeOK /\ StageInv /\ LedgerBalanced
<1>1. Init => IInv
  BY InitType, InitStage, InitLedger
<1>2. IInv /\ [Next]_vars => IInv'
  BY NextType, NextStage, NextLedger
<1>3. IInv /\ [Next]_vars => [Quota!Next]_(Quota!vars)
  BY NextQuota
<1> QED  BY <1>1, <1>2, <1>3, InitQuota, PTL DEF Spec, ImplementsQuota, Quota!Spec
=============================================================================
