-------------------------- MODULE ConsultationQuota --------------------------
(***************************************************************************)
(* The monthly consultation quota of one account: the handler of a new     *)
(* consultation (Application.StartConsultation), the usage row it reserves *)
(* and releases, and the limit alert it may raise.  Every action is one    *)
(* call of the handler to the database, to the agent or to PagerDuty; the  *)
(* calls of concurrent requests interleave freely.                         *)
(*                                                                         *)
(* Rows of different accounts never meet (every statement is keyed by the  *)
(* user id of the request), so one account stands for all of them.         *)
(***************************************************************************)
EXTENDS Naturals, FiniteSets

CONSTANTS
    Requests,   \* POST /consultations requests of the account
    Limits,     \* limits an administrator may set during the run
    LastMonth,  \* bound: months 1..LastMonth are explored
    Faults      \* what may go wrong beside the agent and PagerDuty

AllFaults == {"cancel", \* the client goes away: the request context is cancelled
              "crash",  \* the API process dies
              "db",     \* a statement fails without effect
              "lost"}   \* a statement takes effect and its reply is lost

ASSUME RequestsFinite   == IsFiniteSet(Requests)
ASSUME LimitsAreNaturals == Limits \subseteq Nat /\ Limits # {}
ASSUME LastMonthPositive == LastMonth \in Nat \ {0}
ASSUME FaultsKnown       == Faults \subseteq AllFaults

Months == 1 .. LastMonth

VARIABLES
    thisMonth,  \* s.now() in JST, as YYYY-MM
    limit,      \* monthly limit in service_settings / user_consultation_limits
    count,      \* monthly_consultation_usage.consultation_count, by month
    notice,     \* admin_notifications.status, by month
    saved,      \* requests whose row is in consultations
    pc,         \* where each request's handler is
    cancelled,  \* requests whose context is cancelled
    month,      \* the month a request captured when it reserved
    ticket,     \* the usage (count and limit) its reservation computed
    tier,       \* the agent that answered it
    ack,        \* what PagerDuty answered to it
    charged     \* history: requests counted in the usage row and not released

handlerVars == <<pc, cancelled, month, ticket, tier, ack>>
rowVars     == <<count, notice, saved, charged>>
vars        == <<thisMonth, limit, rowVars, handlerVars>>

Steps == {"idle", "reserved", "ready", "drafted", "failing", "saved",
          "notifying", "completing", "messages",
          "created",  \* answered 201
          "refused",  \* answered with an error
          "dead"}     \* died with its process

Usage == [count : Nat, limit : Nat]

TypeOK ==
    /\ thisMonth \in Months
    /\ limit \in Limits
    /\ count \in [Months -> Nat]
    /\ notice \in [Months -> {"none", "sending", "delivered", "failed"}]
    /\ saved \subseteq Requests
    /\ pc \in [Requests -> Steps]
    /\ cancelled \subseteq Requests
    /\ month \in [Requests -> Months]
    /\ ticket \in [Requests -> Usage]
    /\ tier \in [Requests -> {"none", "external", "fallback"}]
    /\ ack \in [Requests -> {"none", "ok", "error"}]
    /\ charged \subseteq Requests

Init ==
    /\ thisMonth = 1
    /\ limit \in Limits
    /\ count = [m \in Months |-> 0]
    /\ notice = [m \in Months |-> "none"]
    /\ saved = {}
    /\ pc = [r \in Requests |-> "idle"]
    /\ cancelled = {}
    /\ month = [r \in Requests |-> 1]
    /\ ticket = [r \in Requests |-> [count |-> 0, limit |-> 0]]
    /\ tier = [r \in Requests |-> "none"]
    /\ ack = [r \in Requests |-> "none"]
    /\ charged = {}

-----------------------------------------------------------------------------
(* Outcomes of a database call made with the context of request r.  A call *)
(* on a cancelled context returns the context's error before it is sent.   *)
Replies(r) ==
    IF r \in cancelled
    THEN {"failed"}
    ELSE {"ok"} \cup (IF "db" \in Faults THEN {"failed"} ELSE {})
                \cup (IF "lost" \in Faults THEN {"lost"} ELSE {})

TakesEffect(reply) == reply \in {"ok", "lost"}

Goto(r, from, to) ==
    /\ pc[r] = from
    /\ pc' = [pc EXCEPT ![r] = to]

-----------------------------------------------------------------------------
(* The count read before the upsert instead of the one it returns.         *)
UsageBefore == [count |-> count[thisMonth], limit |-> limit]

(* The usage a reservation made now returns.                               *)
UsageReserved == [count |-> count[thisMonth] + 1, limit |-> limit]

(* ReserveMonthlyConsultation: one transaction adds one to the row of the  *)
(* current month, reads the limit and commits.  An error returns before    *)
(* the deferred release is installed, even when the commit took effect.    *)
Reserve(r, reply) ==
    /\ Goto(r, "idle", IF reply = "ok" THEN "reserved" ELSE "refused")
    /\ month' = [month EXCEPT ![r] = thisMonth]
    /\ IF TakesEffect(reply)
       THEN /\ count' = [count EXCEPT ![thisMonth] = @ + 1]
            /\ ticket' = [ticket EXCEPT ![r] = UsageReserved]
            /\ charged' = charged \cup {r}
       ELSE UNCHANGED <<count, ticket, charged>>
    /\ UNCHANGED <<thisMonth, limit, notice, saved, cancelled, tier, ack>>

(* BuildConsultationContext: reads only; an error leaves through the       *)
(* deferred release.                                                       *)
BuildContext(r, reply) ==
    /\ Goto(r, "reserved", IF reply = "ok" THEN "ready" ELSE "failing")
    /\ UNCHANGED <<thisMonth, limit, rowVars, cancelled, month, ticket, tier, ack>>

\* One consultation more than the limit.
UseExternalModelOffByOne(usage) == usage.count <= usage.limit + 1

UseExternalModel(usage) == usage.count <= usage.limit

(* An agent error that leaves before the release is deferred.              *)
RunAgentUnreleased(r, ok) ==
    /\ Goto(r, "ready", IF ok THEN "drafted" ELSE "refused")
    /\ tier' = [tier EXCEPT ![r] =
                  IF UseExternalModel(ticket[r]) THEN "external" ELSE "fallback"]
    /\ UNCHANGED <<thisMonth, limit, rowVars, cancelled, month, ticket, ack>>

(* consultationAgent.Run or fallbackAgent.Run, by the reservation's usage. *)
RunAgent(r, ok) ==
    /\ Goto(r, "ready", IF ok THEN "drafted" ELSE "failing")
    /\ tier' = [tier EXCEPT ![r] =
                  IF UseExternalModel(ticket[r]) THEN "external" ELSE "fallback"]
    /\ UNCHANGED <<thisMonth, limit, rowVars, cancelled, month, ticket, ack>>

(* CreateConsultation: the insert.  With its reply lost the handler takes  *)
(* the error path although the row exists.                                 *)
CreateConsultation(r, reply) ==
    /\ Goto(r, "drafted", IF reply = "ok" THEN "saved" ELSE "failing")
    /\ saved' = IF TakesEffect(reply) THEN saved \cup {r} ELSE saved
    /\ UNCHANGED <<thisMonth, limit, count, notice, charged, cancelled, month,
                   ticket, tier, ack>>

\* The month at the time of the release instead of the captured one.
ReleaseMonthNow(r) == thisMonth

ReleaseMonth(r) == month[r]

(* The deferred ReleaseMonthlyConsultation, on the request's own context   *)
(* and for the month captured at the reservation; its error is dropped.    *)
Release(r, reply) ==
    LET m == ReleaseMonth(r) IN
    /\ Goto(r, "failing", "refused")
    /\ IF TakesEffect(reply) /\ count[m] > 0
       THEN /\ count' = [count EXCEPT ![m] = @ - 1]
            /\ charged' = charged \ {r}
       ELSE UNCHANGED <<count, charged>>
    /\ UNCHANGED <<thisMonth, limit, notice, saved, cancelled, month, ticket,
                   tier, ack>>

-----------------------------------------------------------------------------
(* notifyMonthlyLimit, entered with the usage computed by the reservation. *)
AlertDue(usage) == usage.count >= usage.limit /\ usage.count # 0

SkipAlert(r) ==
    /\ Goto(r, "saved", "messages")
    /\ ~AlertDue(ticket[r])
    /\ UNCHANGED <<thisMonth, limit, rowVars, cancelled, month, ticket, tier, ack>>

\* A claim that also retries an alert which is being sent.
ClaimableWhileSending(status) == status # "delivered"

\* A claim that also retries a delivered alert.
ClaimableAfterDelivery(status) == status # "sending"

Claimable(status) == status \in {"none", "failed"}

(* ClaimMonthlyLimitNotification: an insert, or an update of a failed row. *)
Claim(r, reply) ==
    LET m == month[r] IN
    /\ AlertDue(ticket[r])
    /\ Goto(r, "saved", IF reply = "ok" /\ Claimable(notice[m])
                        THEN "notifying" ELSE "messages")
    /\ notice' = IF TakesEffect(reply) /\ Claimable(notice[m])
                 THEN [notice EXCEPT ![m] = "sending"] ELSE notice
    /\ UNCHANGED <<thisMonth, limit, count, saved, charged, cancelled, month,
                   ticket, tier, ack>>

(* PagerDuty.NotifyMonthlyLimit: an HTTP call on the request's context.    *)
Notify(r, answer) ==
    /\ Goto(r, "notifying", "completing")
    /\ r \in cancelled => answer = "error"
    /\ ack' = [ack EXCEPT ![r] = answer]
    /\ UNCHANGED <<thisMonth, limit, rowVars, cancelled, month, ticket, tier>>

Outcome(answer) == IF answer = "ok" THEN "delivered" ELSE "failed"

(* A completion that records successes only.                               *)
CompleteSuccessOnly(r, reply) ==
    /\ Goto(r, "completing", "messages")
    /\ notice' = IF TakesEffect(reply) /\ ack[r] = "ok"
                 THEN [notice EXCEPT ![month[r]] = "delivered"] ELSE notice
    /\ UNCHANGED <<thisMonth, limit, count, saved, charged, cancelled, month,
                   ticket, tier, ack>>

(* CompleteMonthlyLimitNotification: records the outcome; errors dropped.  *)
Complete(r, reply) ==
    /\ Goto(r, "completing", "messages")
    /\ notice' = IF TakesEffect(reply)
                 THEN [notice EXCEPT ![month[r]] = Outcome(ack[r])] ELSE notice
    /\ UNCHANGED <<thisMonth, limit, count, saved, charged, cancelled, month,
                   ticket, tier, ack>>

(* A handler whose deferred release ignores that the row was saved.        *)
AddMessagesAndRelease(r) ==
    /\ Goto(r, "messages", "created")
    /\ count' = [count EXCEPT ![month[r]] = @ - 1]
    /\ charged' = charged \ {r}
    /\ UNCHANGED <<thisMonth, limit, notice, saved, cancelled, month, ticket,
                   tier, ack>>

(* The two AddMessage calls: their errors are dropped, then the handler    *)
(* answers.  The message rows themselves are not part of this module.      *)
AddMessages(r) ==
    /\ Goto(r, "messages", "created")
    /\ UNCHANGED <<thisMonth, limit, rowVars, cancelled, month, ticket, tier, ack>>

-----------------------------------------------------------------------------
InFlight == {r \in Requests : pc[r] \notin {"idle", "created", "refused", "dead"}}

(* The connection of a running request is closed by the client.            *)
Cancel(r) ==
    /\ "cancel" \in Faults
    /\ r \in InFlight \ cancelled
    /\ cancelled' = cancelled \cup {r}
    /\ UNCHANGED <<thisMonth, limit, rowVars, pc, month, ticket, tier, ack>>

(* A process exits with the requests it serves.  Shutdown waits 5 seconds  *)
(* and then exits; during a rolling deployment two processes overlap, so   *)
(* any set of requests may share the fate of one process.                  *)
Crash(victims) ==
    /\ "crash" \in Faults
    /\ victims # {}
    /\ pc' = [r \in Requests |-> IF r \in victims THEN "dead" ELSE pc[r]]
    /\ UNCHANGED <<thisMonth, limit, rowVars, cancelled, month, ticket, tier, ack>>

(* An administrator updates the limit in the database.                     *)
SetLimit(l) ==
    /\ limit' = l
    /\ UNCHANGED <<thisMonth, rowVars, handlerVars>>

NextMonth ==
    /\ thisMonth < LastMonth
    /\ thisMonth' = thisMonth + 1
    /\ UNCHANGED <<limit, rowVars, handlerVars>>

Handle(r) ==
    \/ \E reply \in Replies(r) : BuildContext(r, reply)
    \/ \E ok \in BOOLEAN : RunAgent(r, ok)
    \/ \E reply \in Replies(r) : CreateConsultation(r, reply)
    \/ \E reply \in Replies(r) : Release(r, reply)
    \/ SkipAlert(r)
    \/ \E reply \in Replies(r) : Claim(r, reply)
    \/ \E answer \in {"ok", "error"} : Notify(r, answer)
    \/ \E reply \in Replies(r) : Complete(r, reply)
    \/ AddMessages(r)

Next ==
    \/ \E r \in Requests : \E reply \in Replies(r) : Reserve(r, reply)
    \/ \E r \in Requests : Handle(r)
    \/ \E r \in Requests : Cancel(r)
    \/ \E victims \in SUBSET InFlight : Crash(victims)
    \/ \E l \in Limits : SetLimit(l)
    \/ NextMonth

Spec == Init /\ [][Next]_vars

(* Every call of a handler returns: agent calls carry a 20 second timeout, *)
(* PagerDuty 10 seconds, and statements end with their connection.         *)
FairSpec == Spec /\ \A r \in Requests : WF_vars(Handle(r))

-----------------------------------------------------------------------------
ChargedIn(m) == {r \in charged : month[r] = m}

(* The usage row of a month counts exactly the requests that reserved in   *)
(* that month and were not released: concurrent upserts lose no increment, *)
(* and a release goes to the month of its reservation, once.               *)
LedgerBalanced == \A m \in Months : count[m] = Cardinality(ChargedIn(m))

ExternalIn(m) == {r \in ChargedIn(m) : tier[r] = "external"}

(* However reservations, failures and releases interleave, the external    *)
(* model answers at most a limit's worth of the consultations a month is   *)
(* charged for.                                                            *)
ExternalWithinLimit ==
    \A m \in Months : \E l \in Limits : Cardinality(ExternalIn(m)) <= l

(* A consultation the handler knows to be saved stays charged whatever     *)
(* fails after the insert: alert, messages, cancellation.  The deferred    *)
(* release is for the other exits only.                                    *)
CreatedIsCharged ==
    \A r \in Requests :
        pc[r] \in {"saved", "notifying", "completing", "messages", "created"}
            => r \in saved /\ r \in charged

(* "If processing fails before the consultation is saved, the reservation  *)
(* is returned": a handler that is over left no charge without a row.      *)
ReservationReturned ==
    \A r \in Requests : pc[r] \in {"refused", "dead"} /\ r \notin saved
                            => r \notin charged

Sending(m) == {r \in Requests : month[r] = m /\ pc[r] \in {"notifying", "completing"}}

(* The claim admits one sender per month: the second of two requests that  *)
(* reach the limit together does not call PagerDuty while the first does.  *)
OneSender ==
    \A m \in Months : \A r, s \in Sending(m) : r = s

(* PagerDuty acknowledges at most one alert of a month: no retry follows   *)
(* an acknowledged alert, whatever happens to the row afterwards.          *)
AlertedOnce ==
    \A r, s \in Requests :
        month[r] = month[s] /\ ack[r] = "ok" /\ ack[s] = "ok" => r = s

(* The alert row never leaves delivered, and returns to sending only from  *)
(* failed.                                                                 *)
NoticeLifecycle ==
    [][\A m \in Months :
          /\ notice[m] = "delivered" => notice'[m] = "delivered"
          /\ notice[m] = "sending" => notice'[m] # "none"
          /\ notice'[m] \in {"delivered", "failed"} =>
                notice[m] \in {"sending", notice'[m]}]_notice

(* Every reservation is eventually a saved consultation or is returned.    *)
ReservationsSettle ==
    \A r \in Requests : r \in charged ~> (r \in saved \/ r \notin charged)

(* An alert that is being sent ends as delivered or as failed, and so can  *)
(* be retried by the next consultation over the limit.                     *)
AlertsSettle ==
    \A m \in Months : notice[m] = "sending" ~> notice[m] \in {"delivered", "failed"}

-----------------------------------------------------------------------------
(* The counter implements the abstract quota: the slots of a month are the *)
(* requests charged to it, and a request is entitled when the usage its    *)
(* reservation returned was within the limit.                              *)
Quota == INSTANCE MonthlyQuota WITH
    Consultations <- Requests,
    taken         <- [m \in Months |-> ChargedIn(m)],
    entitled      <- {r \in charged : ticket[r].count <= ticket[r].limit}

ImplementsQuota == Quota!Spec
=============================================================================
