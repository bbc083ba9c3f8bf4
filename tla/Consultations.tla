--------------------------- MODULE Consultations ---------------------------
(***************************************************************************)
(* Consultations after their start: further information, recorded results  *)
(* and the memories drawn from them on the server, and the consultation    *)
(* and result view models of the app that sends them and shows the history.*)
(*                                                                         *)
(* A request is a start, a continuation or a result. Local requests come   *)
(* from the modelled screen, the others from another device of the user,   *)
(* at any time. A request reads its row, waits for its agent and writes    *)
(* the row in separate statements, none of them in a transaction. Module   *)
(* ConsultationQuota models the start itself, call by call.                *)
(***************************************************************************)
EXTENDS Naturals, Sequences, FiniteSets

CONSTANTS
  Starts,    \* requests that start a consultation; each names the one it starts
  Continues, \* requests with further information
  Results,   \* requests that record what the user did
  Local,     \* the requests of the modelled screen
  Amounts,   \* amounts a request may plan
  None       \* no request

Requests == Starts \cup Continues \cup Results

ASSUME RequestsAssumption ==
  /\ None \notin Requests /\ Local \subseteq Requests
  /\ Starts \cap Continues = {} /\ Starts \cap Results = {} /\ Continues \cap Results = {}

VARIABLES
  rows,     \* the consultations table
  memories, \* the results a memory was drawn from
  pc,       \* request -> its step on the server
  target,   \* request -> the consultation it is about
  given,    \* request -> the amount it plans, a set that may be empty, until it is saved
  read,     \* continuation -> the row it read, while its agent runs
  answer,   \* request -> of the row it answers with, what matters
  waiting,  \* local requests whose answer the screen waits for
  shown,    \* ConsultationState.consultation: the advice on the screen
  history,  \* ConsultationState.history: the list below it
  gets,     \* the requests for the history so far, the last is the newest
  known,    \* history: local requests the app knows to have succeeded
  mounted   \* whether the screen's state still exists

serverVars == <<rows, memories, pc, target, given, read, answer>>
screenVars == <<waiting, shown, history, gets, known, mounted>>
vars == <<serverVars, screenVars>>

\* status is the decision once a result is recorded; feedback stands for the
\* columns only a result writes, by the result that wrote them. writes is a
\* history field: the requests whose update reached the row, in their order.
NoRow == [status |-> "none", followUp |-> FALSE, planned |-> {}, advice |-> None,
          feedback |-> None, writes |-> <<>>]
Seen(row) == [followUp |-> row.followUp, feedback |-> row.feedback]
NoRows == [s \in Starts |-> NoRow]
NoShown == [kind |-> "data", of |-> None, followUp |-> FALSE]
Loading == [kind |-> "loading", rows |-> NoRows]

Init ==
  /\ rows = NoRows
  /\ memories = {}
  /\ pc = [q \in Requests |-> "idle"]
  /\ target = [q \in Requests |-> None]
  /\ given = [q \in Requests |-> {}]
  /\ read = [q \in Continues |-> NoRow]
  /\ answer = [q \in Requests |-> Seen(NoRow)]
  /\ waiting = {}
  /\ shown = NoShown
  /\ history = Loading
  /\ gets = <<[phase |-> "sent", rows |-> NoRows]>>
  /\ known = {}
  /\ mounted = TRUE

-----------------------------------------------------------------------------
(* The server. *)

Goto(q, from, to) == pc[q] = from /\ pc' = [pc EXCEPT ![q] = to]

\* A statement for an unknown id touches no row and answers ErrNotFound.
Exists(s) == rows[s].status # "none"

AdviceStatus(followUp) == IF followUp THEN "awaiting_information" ELSE "awaiting_result"

\* Any statement or agent call of a request fails, or its row does not exist.
Fail(q) ==
  /\ pc[q] \in {"sent", "read", "updated"}
  /\ pc' = [pc EXCEPT ![q] = "failed"]
  /\ given' = [given EXCEPT ![q] = {}]
  /\ read' = [c \in Continues |-> IF c = q THEN NoRow ELSE read[c]]
  /\ UNCHANGED <<rows, memories, target, answer, screenVars>>

\* The consultation of a start is saved and is its answer.
CreateConsultation(q, followUp) ==
  LET row == [status |-> AdviceStatus(followUp), followUp |-> followUp,
              planned |-> given[q], advice |-> q, feedback |-> None, writes |-> <<q>>]
  IN /\ q \in Starts
     /\ Goto(q, "sent", "done")
     /\ rows' = [rows EXCEPT ![q] = row]
     /\ answer' = [answer EXCEPT ![q] = Seen(row)]
     /\ given' = [given EXCEPT ![q] = {}]
     /\ UNCHANGED <<memories, target, read, screenVars>>

\* A continuation reads its row. Then it builds its context and its agent runs,
\* which leaves the tables alone.
GetConsultation(q) ==
  /\ q \in Continues
  /\ Goto(q, "sent", "read")
  /\ Exists(target[q])
  /\ read' = [read EXCEPT ![q] = rows[target[q]]]
  /\ UNCHANGED <<rows, memories, target, given, answer, screenVars>>

\* Without an amount of its own a continuation keeps the planned one it read.
Planned(q) == IF given[q] = {} THEN read[q].planned ELSE given[q]

\* Mutant: the row read before the agent ran is written back as a whole.
AdvisedRowWholesale(q, row, followUp) ==
  [read[q] EXCEPT !.status = AdviceStatus(followUp), !.followUp = followUp,
                  !.planned = Planned(q), !.advice = q, !.writes = Append(row.writes, q)]

\* The update of a continuation on top of the row as it is then: its status
\* is written whatever the row's is.
AdvisedRow(q, row, followUp) ==
  [row EXCEPT !.status = AdviceStatus(followUp), !.followUp = followUp,
              !.planned = Planned(q), !.advice = q, !.writes = Append(@, q)]

UpdateConsultationAdvice(q, followUp) ==
  /\ Goto(q, "read", "updated")
  /\ rows' = [rows EXCEPT ![target[q]] = AdvisedRow(q, @, followUp)]
  /\ read' = [read EXCEPT ![q] = NoRow]
  /\ given' = [given EXCEPT ![q] = {}]
  /\ UNCHANGED <<memories, target, answer, screenVars>>

\* What the user did is recorded over the status; the advice stays.
RecordedRow(q, row) ==
  [row EXCEPT !.status = "recorded", !.feedback = q, !.writes = Append(@, q)]

UpdateConsultationResult(q) ==
  /\ q \in Results
  /\ Goto(q, "sent", "updated")
  /\ Exists(target[q])
  /\ rows' = [rows EXCEPT ![target[q]] = RecordedRow(q, @)]
  /\ UNCHANGED <<memories, target, given, read, answer, screenVars>>

\* Both updates read the row again for their answer; the messages a start and a
\* continuation add besides are of no consequence.
ReadBack(q) ==
  /\ Goto(q, "updated", IF q \in Results THEN "answered" ELSE "done")
  /\ answer' = [answer EXCEPT ![q] = Seen(rows[target[q]])]
  /\ UNCHANGED <<rows, memories, target, given, read, screenVars>>

\* A memory is drawn from the row read back, if a candidate is grounded and
\* confident enough; a failure to do so is ignored.
ExtractMemory(q) ==
  /\ Goto(q, "answered", "done")
  /\ memories' \in {memories, memories \cup {answer[q].feedback}}
  /\ UNCHANGED <<rows, target, given, read, answer, screenVars>>

-----------------------------------------------------------------------------
(* The screen. *)

\* refreshHistory up to its await: a new request, and its number.
Refresh ==
  /\ gets' = Append(gets, [phase |-> "sent", rows |-> NoRows])
  /\ history' = Loading

ReadHistory(i) ==
  /\ gets[i].phase = "sent"
  /\ gets' = [gets EXCEPT ![i] = [phase |-> "read", rows |-> rows]]
  /\ UNCHANGED <<serverVars, waiting, shown, history, known, mounted>>

\* Mutant: no request number is kept.
CurrentAlways(i) == mounted

\* Whether the screen takes the answer of a request for the history.
Current(i) == mounted /\ i = Len(gets)

Show(i, kind, list) ==
  /\ gets' = [gets EXCEPT ![i] = [phase |-> "done", rows |-> NoRows]]
  /\ history' = IF Current(i) THEN [kind |-> kind, rows |-> list] ELSE history
  /\ UNCHANGED <<serverVars, waiting, shown, known, mounted>>

AnswerHistory(i) == gets[i].phase = "read" /\ Show(i, "data", gets[i].rows)
FailHistory(i)   == gets[i].phase # "done" /\ Show(i, "error", NoRows)

\* Whether the screen offers a request about consultation s: the form is off
\* while an advice is awaited, and the advice may ask for more. The screen for
\* a result has a route of its own, with one button that is off while it saves.
Offered(q, s) ==
  \/ q \in Starts /\ shown.kind # "loading"
  \/ q \in Continues /\ shown.kind = "data" /\ shown.of = s /\ shown.followUp
  \/ q \in Results /\ \A r \in waiting \cap Results : target[r] # s

\* A request is sent, about any consultation; from the screen, a start and a
\* continuation put it in loading.
Send(q, s, amount) ==
  /\ q \in Starts => s = q
  /\ q \in Results => amount = {}
  /\ Goto(q, "idle", "sent")
  /\ target' = [target EXCEPT ![q] = s]
  /\ given' = [given EXCEPT ![q] = amount]
  /\ q \in Local => mounted /\ Offered(q, s)
  /\ waiting' = waiting \cup ({q} \cap Local)
  /\ shown' = IF q \in Local \ Results THEN [NoShown EXCEPT !.kind = "loading"] ELSE shown
  /\ UNCHANGED <<rows, memories, read, answer, history, gets, known, mounted>>

\* The answer arrives: the advice is shown and the history is read again.
Deliver(q) ==
  /\ q \in waiting /\ pc[q] = "done" /\ mounted
  /\ waiting' = waiting \ {q}
  /\ known' = known \cup {q}
  /\ shown' = IF q \in Results THEN shown
              ELSE [kind |-> "data", of |-> target[q], followUp |-> answer[q].followUp]
  /\ Refresh
  /\ UNCHANGED <<serverVars, mounted>>

\* Mutant: an error leaves the screen in loading.
ErrorLost(q) == shown

\* What the screen shows after an error.
AfterError(q) == IF q \in Results THEN shown ELSE [NoShown EXCEPT !.kind = "error"]

\* The server reports an error, or the app gives up waiting: the request may
\* still succeed on the server.
GiveUp(q) ==
  /\ q \in waiting /\ mounted
  /\ waiting' = waiting \ {q}
  /\ shown' = AfterError(q)
  /\ UNCHANGED <<serverVars, history, gets, known, mounted>>

\* Logout or expiry: the scope of the session is dropped with its view models,
\* and no answer reaches them any more.
Dispose ==
  /\ mounted
  /\ mounted' = FALSE
  /\ waiting' = {} /\ known' = {} /\ gets' = <<>>
  /\ shown' = NoShown /\ history' = Loading
  /\ UNCHANGED serverVars

-----------------------------------------------------------------------------
Serve(q) ==
  \/ \E f \in BOOLEAN : CreateConsultation(q, f)
  \/ GetConsultation(q)
  \/ \E f \in BOOLEAN : UpdateConsultationAdvice(q, f)
  \/ UpdateConsultationResult(q)
  \/ ReadBack(q)
  \/ ExtractMemory(q)

Next ==
  \/ \E q \in Requests :
       \/ \E s \in Starts, a \in {{}} \cup {{x} : x \in Amounts} : Send(q, s, a)
       \/ Serve(q)
       \/ Fail(q)
       \/ Deliver(q)
       \/ GiveUp(q)
  \/ \E i \in DOMAIN gets : ReadHistory(i) \/ AnswerHistory(i) \/ FailHistory(i)
  \/ Dispose

\* The app waits neither for the history nor for an advice for ever: its HTTP
\* client has a receive timeout.
Fairness ==
  /\ \A i \in 1..(1 + Cardinality(Local)) :
       WF_vars(i \in DOMAIN gets /\ (AnswerHistory(i) \/ FailHistory(i)))
  /\ \A q \in Local : WF_vars(Deliver(q) \/ GiveUp(q))

Spec == Init /\ [][Next]_vars /\ Fairness

-----------------------------------------------------------------------------
(* Properties. *)

Rows == [status : {"none", "awaiting_information", "awaiting_result", "recorded"},
         followUp : BOOLEAN, planned : SUBSET Amounts, advice : Starts \cup Continues \cup {None},
         feedback : Results \cup {None}, writes : Seq(Requests)]

\* The requests that wrote a row.
Writers(row) == {row.writes[i] : i \in DOMAIN row.writes}

\* Variables have their types; a row exists exactly when it holds an advice,
\* and its fields come from requests that wrote it
\* (repository.go:440-495, 534-555).
TypeOK ==
  /\ rows \in [Starts -> Rows]
  /\ \A s \in Starts : LET row == rows[s] IN
       /\ row.status = "none" <=> row.advice = None
       /\ {row.advice, row.feedback} \ {None} \subseteq Writers(row)
       /\ \A q \in Writers(row) : target[q] = s
  /\ pc \in [Requests -> {"idle", "sent", "read", "updated", "answered", "done", "failed"}]
  /\ given \in [Requests -> SUBSET Amounts]
  /\ waiting \subseteq Local /\ known \subseteq Local
  /\ shown.kind \in {"loading", "data", "error"} /\ history.kind \in {"loading", "data", "error"}

\* No write but a later result's replaces what a result wrote besides the status.
ResultKept(row) ==
  \A i \in DOMAIN row.writes : row.writes[i] \in Results =>
    \E j \in i .. Len(row.writes) : row.writes[j] = row.feedback

\* The status is a decision exactly while the last write was a result's.
DecisionShown(row) ==
  row.status = "recorded" <=> row.writes # <<>> /\ row.writes[Len(row.writes)] \in Results

\* What a result recorded beside the status (the amount spent, the reason, the
\* scores, the note) is replaced by later results only, although a continuation
\* read its row before its agent ran. The decision itself is the status: an
\* advice that comes after it takes it back, and nothing else does. A memory is
\* drawn only from a consultation that has a result (application.go:393-403,
\* 430-447, repository.go:470-495, 534-555).
FeedbackKept ==
  /\ \A s \in Starts : ResultKept(rows[s]) /\ DecisionShown(rows[s])
  /\ \A q \in Results : pc[q] \in {"answered", "done"} => answer[q].feedback # None
  /\ None \notin memories

\* A history on the screen holds every request the app has told the user of,
\* in whatever order the answers for the history arrived
\* (consultation_view_model.dart:80-95, result_view_model.dart:94-98).
HistoryFresh ==
  history.kind = "data" => \A q \in known : q \in Writers(history.rows[target[q]])

\* An open screen never keeps loading: an advice and the history are shown or
\* an error is (consultation_view_model.dart:53-95).
ScreenSettles ==
  /\ shown.kind = "loading" ~> (shown.kind # "loading" \/ ~mounted)
  /\ (history.kind = "loading") ~> (history.kind # "loading" \/ ~mounted)
=============================================================================
