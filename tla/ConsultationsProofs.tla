------------------------- MODULE ConsultationsProofs -------------------------
(***************************************************************************)
(* Proofs about Consultations, for any requests, of the modelled screen    *)
(* and of other devices: the columns of a result survive every advice, and *)
(* a history on the screen holds what the user was told of.  The fairness  *)
(* is not used.                                                            *)
(***************************************************************************)
EXTENDS Consultations, TLAPS

Steps == {"idle", "sent", "read", "updated", "answered", "done", "failed"}
Phases == {"sent", "read", "done"}
Kinds == {"loading", "data", "error"}
Gets == [phase : Phases, rows : [Starts -> Rows]]
Histories == [kind : Kinds, rows : [Starts -> Rows]]
Seens == [followUp : BOOLEAN, feedback : Results \cup {None}]
Showns == [kind : Kinds, of : Starts \cup {None}, followUp : BOOLEAN]

TypeInv ==
  /\ rows \in [Starts -> Rows]
  /\ pc \in [Requests -> Steps]
  /\ target \in [Requests -> Starts \cup {None}]
  /\ given \in [Requests -> SUBSET Amounts]
  /\ read \in [Continues -> Rows]
  /\ answer \in [Requests -> Seens]
  /\ waiting \subseteq Local /\ known \subseteq Local
  /\ shown \in Showns
  /\ history \in Histories
  /\ gets \in Seq(Gets)

(* The step a request is at, its kind and its row: a request that wrote    *)
(* its row is in the row's writes, whatever was written after it.          *)
StepInv ==
  \A q \in Requests :
    /\ pc[q] # "idle" => target[q] \in Starts /\ (q \in Starts => target[q] = q)
    /\ pc[q] = "read" => q \in Continues /\ rows[target[q]].status # "none"
    /\ pc[q] = "updated" => q \notin Starts
    /\ pc[q] = "answered" => q \in Results
    /\ pc[q] \in {"updated", "answered", "done"} => q \in Writers(rows[target[q]])

(* A row exists from the moment its start is done; its fields come from    *)
(* requests that wrote it, and those are about it.                         *)
RowInv ==
  \A s \in Starts :
    /\ rows[s].status = "none" <=> rows[s].advice = None
    /\ rows[s].status = "none" => rows[s].writes = <<>>
    /\ rows[s].status # "none" => pc[s] = "done"
    /\ {rows[s].advice, rows[s].feedback} \ {None} \subseteq Writers(rows[s])
    /\ \A q \in Writers(rows[s]) : pc[q] # "idle" /\ target[q] = s

ServerInv == TypeInv /\ StepInv /\ RowInv /\ FeedbackKept

LEMMA RowFacts ==
  \A row \in Rows :
    /\ row.status \in {"none", "awaiting_information", "awaiting_result", "recorded"}
    /\ row.followUp \in BOOLEAN /\ row.planned \in SUBSET Amounts
    /\ row.advice \in Starts \cup Continues \cup {None} /\ row.feedback \in Results \cup {None}
    /\ row.writes \in Seq(Requests) /\ Writers(row) \in SUBSET Requests
    /\ Seen(row) \in Seens /\ Seen(row).feedback = row.feedback
  BY DEF Rows, Seens, Seen, Writers

LEMMA NoRowFacts ==
  /\ NoRow \in Rows /\ NoRows \in [Starts -> Rows]
  /\ NoRow.status = "none" /\ NoRow.advice = None /\ NoRow.feedback = None
  /\ NoRow.writes = <<>> /\ Writers(NoRow) = {}
<1>1. NoRow \in Rows
  BY DEF NoRow, Rows
<1>2. NoRow.writes = <<>>
  BY DEF NoRow
<1>3. Writers(NoRow) = {}
  BY <1>2 DEF Writers
<1> QED  BY <1>1, <1>2, <1>3 DEF NoRow, NoRows

LEMMA AdvisedFacts ==
  ASSUME NEW q \in Continues, NEW row \in Rows, NEW f \in BOOLEAN, Planned(q) \in SUBSET Amounts
  PROVE  LET new == AdvisedRow(q, row, f)
         IN  /\ new \in Rows
             /\ new.status \notin {"none", "recorded"} /\ new.advice = q /\ new.feedback = row.feedback
             /\ new.writes = Append(row.writes, q)
<1> DEFINE r1 == [row EXCEPT !.status = AdviceStatus(f)]
           r2 == [r1 EXCEPT !.followUp = f]
           r3 == [r2 EXCEPT !.planned = Planned(q)]
           r4 == [r3 EXCEPT !.advice = q]
           r5 == [r4 EXCEPT !.writes = Append(row.writes, q)]
<1>1. /\ AdviceStatus(f) \in {"awaiting_information", "awaiting_result"}
      /\ Append(row.writes, q) \in Seq(Requests)
  BY RowFacts DEF AdviceStatus, Requests
<1>2. AdvisedRow(q, row, f) = r5
  BY Zenon DEF AdvisedRow
<1>3. /\ r1 \in Rows /\ r1.status \notin {"none", "recorded"} /\ r1.feedback = row.feedback
      /\ r1.writes = row.writes
  BY <1>1 DEF Rows
<1> HIDE DEF r1
<1>4. /\ r2 \in Rows /\ r2.status \notin {"none", "recorded"} /\ r2.feedback = row.feedback
      /\ r2.writes = row.writes
  BY <1>3 DEF Rows
<1> HIDE DEF r2
<1>5. /\ r3 \in Rows /\ r3.status \notin {"none", "recorded"} /\ r3.feedback = row.feedback
      /\ r3.writes = row.writes
  BY <1>4 DEF Rows
<1> HIDE DEF r3
<1>6. /\ r4 \in Rows /\ r4.status \notin {"none", "recorded"} /\ r4.feedback = row.feedback
      /\ r4.advice = q /\ r4.writes = row.writes
  BY <1>5 DEF Rows
<1> HIDE DEF r4
<1>7. /\ r5 \in Rows /\ r5.status \notin {"none", "recorded"} /\ r5.feedback = row.feedback
      /\ r5.advice = q /\ r5.writes = Append(row.writes, q)
  BY <1>1, <1>6 DEF Rows
<1> HIDE DEF r5
<1> QED  BY <1>2, <1>7

LEMMA RecordedFacts ==
  ASSUME NEW q \in Results, NEW row \in Rows
  PROVE  LET new == RecordedRow(q, row)
         IN  /\ new \in Rows
             /\ new.status = "recorded" /\ new.advice = row.advice /\ new.feedback = q
             /\ new.writes = Append(row.writes, q)
<1> DEFINE r1 == [row EXCEPT !.status = "recorded"]
           r2 == [r1 EXCEPT !.feedback = q]
           r3 == [r2 EXCEPT !.writes = Append(row.writes, q)]
<1>1. Append(row.writes, q) \in Seq(Requests)
  BY RowFacts DEF Requests
<1>2. RecordedRow(q, row) = r3
  BY Zenon DEF RecordedRow
<1>3. r1 \in Rows /\ r1.status = "recorded" /\ r1.advice = row.advice /\ r1.writes = row.writes
  BY DEF Rows
<1> HIDE DEF r1
<1>4. /\ r2 \in Rows /\ r2.status = "recorded" /\ r2.advice = row.advice /\ r2.feedback = q
      /\ r2.writes = row.writes
  BY <1>3 DEF Rows
<1> HIDE DEF r2
<1>5. /\ r3 \in Rows /\ r3.status = "recorded" /\ r3.advice = row.advice /\ r3.feedback = q
      /\ r3.writes = Append(row.writes, q)
  BY <1>1, <1>4 DEF Rows
<1> HIDE DEF r3
<1> QED  BY <1>2, <1>5

(* The history of a row after one write more, of whatever request.         *)
LEMMA WritesFacts ==
  ASSUME NEW row \in Rows, NEW new \in Rows, NEW q \in Requests,
         new.writes = Append(row.writes, q)
  PROVE  /\ Writers(new) = Writers(row) \cup {q}
         /\ (new.status = "recorded" <=> q \in Results) => DecisionShown(new)
         /\ ResultKept(row) /\ new.feedback = (IF q \in Results THEN q ELSE row.feedback)
              => ResultKept(new)
<1>1. row.writes \in Seq(Requests)
  BY RowFacts
<1> DEFINE n == Len(row.writes)
<1>2. /\ n \in Nat /\ Len(new.writes) = n + 1 /\ new.writes[n + 1] = q
      /\ DOMAIN row.writes = 1 .. n /\ DOMAIN new.writes = 1 .. n + 1
      /\ \A i \in 1 .. n : new.writes[i] = row.writes[i]
  BY <1>1
<1>3. Writers(new) = Writers(row) \cup {q}
  BY <1>2 DEF Writers
<1>4. new.writes # <<>>
  BY <1>1
<1>5. (new.status = "recorded" <=> q \in Results) => DecisionShown(new)
  BY <1>2, <1>4 DEF DecisionShown
<1>6. ASSUME ResultKept(row), new.feedback = (IF q \in Results THEN q ELSE row.feedback),
             NEW i \in 1 .. n + 1, new.writes[i] \in Results
      PROVE  \E j \in i .. n + 1 : new.writes[j] = new.feedback
  <2>1. CASE q \in Results
    BY <1>2, <1>6, <2>1
  <2>2. CASE q \notin Results
    <3>1. i \in 1 .. n
      BY <1>2, <1>6, <2>2
    <3>2. PICK j \in i .. n : row.writes[j] = row.feedback
      BY <1>2, <1>6, <3>1 DEF ResultKept
    <3> QED  BY <1>2, <1>6, <2>2, <3>1, <3>2
  <2> QED  BY <2>1, <2>2
<1> QED  BY <1>2, <1>3, <1>5, <1>6 DEF ResultKept

LEMMA InitServer == Init => ServerInv
<1> SUFFICES ASSUME Init PROVE ServerInv
  OBVIOUS
<1>1. NoShown \in Showns /\ Loading \in Histories /\ Seen(NoRow) \in Seens
  BY NoRowFacts, RowFacts DEF NoShown, Showns, Loading, Histories, Kinds
<1>2. gets \in Seq(Gets)
  <2>1. [phase |-> "sent", rows |-> NoRows] \in Gets
    BY NoRowFacts DEF Gets, Phases
  <2> QED  BY <2>1 DEF Init
<1>3. TypeInv
  BY <1>1, <1>2, NoRowFacts DEF Init, TypeInv, Steps
<1>4. \A s \in Starts : rows[s] = NoRow
  BY DEF Init, NoRows
<1>5. StepInv
  BY DEF Init, StepInv
<1>6. RowInv
  BY <1>4, NoRowFacts DEF RowInv
<1>7. FeedbackKept
  BY <1>4, NoRowFacts DEF Init, FeedbackKept, Requests, ResultKept, DecisionShown
<1> QED  BY <1>3, <1>5, <1>6, <1>7 DEF ServerInv

-----------------------------------------------------------------------------
(* The screen's variables keep their types in every step.                  *)
ScreenType ==
  /\ waiting \subseteq Local /\ known \subseteq Local
  /\ shown \in Showns /\ history \in Histories /\ gets \in Seq(Gets)

LEMMA GetFacts ==
  /\ [phase |-> "sent", rows |-> NoRows] \in Gets
  /\ [phase |-> "done", rows |-> NoRows] \in Gets
  /\ \A list \in [Starts -> Rows] : [phase |-> "read", rows |-> list] \in Gets
  /\ \A g \in Gets : g.rows \in [Starts -> Rows]
  /\ \A kind \in Kinds : \A list \in [Starts -> Rows] : [kind |-> kind, rows |-> list] \in Histories
  /\ Loading \in Histories
  BY NoRowFacts DEF Gets, Phases, Histories, Loading, Kinds

LEMMA SeqExcept ==
  ASSUME NEW S, NEW s \in Seq(S), NEW i \in DOMAIN s, NEW v \in S
  PROVE  [s EXCEPT ![i] = v] \in Seq(S) /\ Len([s EXCEPT ![i] = v]) = Len(s)
  OBVIOUS

LEMMA ScreenStep ==
  ASSUME TypeInv, [Next]_vars
  PROVE  ScreenType'
<1> USE DEF TypeInv, ScreenType
<1>1. CASE UNCHANGED screenVars
  BY <1>1 DEF screenVars
<1>2. ASSUME NEW q \in Requests, NEW s \in Starts, NEW x, Send(q, s, x) PROVE ScreenType'
  BY <1>2 DEF Send, NoShown, Showns, Kinds
<1>3. ASSUME NEW q \in Requests, Deliver(q) PROVE ScreenType'
  <2>1. answer[q].followUp \in BOOLEAN /\ target[q] \in Starts \cup {None}
    BY DEF Seens
  <2>2. shown' \in Showns
    BY <1>3, <2>1 DEF Deliver, Showns, Kinds
  <2>3. gets' \in Seq(Gets) /\ history' \in Histories
    BY <1>3, GetFacts DEF Deliver, Refresh
  <2> QED  BY <1>3, <2>2, <2>3 DEF Deliver
<1>4. ASSUME NEW q \in Requests, GiveUp(q) PROVE ScreenType'
  BY <1>4 DEF GiveUp, AfterError, NoShown, Showns, Kinds
<1>5. ASSUME NEW i \in DOMAIN gets, ReadHistory(i) PROVE ScreenType'
  BY <1>5, GetFacts, SeqExcept DEF ReadHistory
<1>6. ASSUME NEW i \in DOMAIN gets, NEW kind \in Kinds, NEW list \in [Starts -> Rows], Show(i, kind, list)
      PROVE  ScreenType'
  BY <1>6, GetFacts, SeqExcept DEF Show
<1>7. ASSUME NEW i \in DOMAIN gets, AnswerHistory(i) \/ FailHistory(i) PROVE ScreenType'
  <2>1. gets[i].rows \in [Starts -> Rows]
    BY GetFacts
  <2> QED  BY <1>6, <1>7, <2>1, NoRowFacts DEF AnswerHistory, FailHistory, Kinds
<1>8. CASE Dispose
  BY <1>8, GetFacts DEF Dispose, NoShown, Showns, Kinds
<1>9. ASSUME NEW q \in Requests, Serve(q) \/ Fail(q) PROVE UNCHANGED screenVars
  BY <1>9 DEF Serve, Fail, CreateConsultation, GetConsultation, UpdateConsultationAdvice,
              UpdateConsultationResult, ReadBack, ExtractMemory
<1> QED  BY <1>1, <1>2, <1>3, <1>4, <1>5, <1>7, <1>8, <1>9 DEF Next, vars

-----------------------------------------------------------------------------
(* The server's part of the types.                                         *)
ServerType ==
  /\ rows \in [Starts -> Rows]
  /\ pc \in [Requests -> Steps]
  /\ target \in [Requests -> Starts \cup {None}]
  /\ given \in [Requests -> SUBSET Amounts]
  /\ read \in [Continues -> Rows]
  /\ answer \in [Requests -> Seens]

(* A step of one request that leaves the rows alone.                       *)
LEMMA QuietStep ==
  ASSUME ServerInv, ServerType', NEW q \in Requests, UNCHANGED <<rows, memories>>,
         \A r \in Requests : r # q =>
           pc'[r] = pc[r] /\ target'[r] = target[r] /\ answer'[r] = answer[r],
         pc'[q] # "idle", target'[q] \in Starts, q \in Starts => target'[q] = q,
         pc[q] # "idle" => target'[q] = target[q],
         pc'[q] = "read" => q \in Continues /\ rows[target'[q]].status # "none",
         pc'[q] = "updated" => pc[q] = "updated",
         pc'[q] = "answered" => q \in Results,
         pc'[q] \in {"answered", "done"} => pc[q] \in {"updated", "answered"},
         pc[q] # "done",
         q \in Results /\ pc'[q] \in {"answered", "done"} => answer'[q].feedback # None
  PROVE  StepInv' /\ RowInv' /\ FeedbackKept'
<1> USE DEF ServerInv, TypeInv
<1>1. StepInv'
  BY DEF StepInv
<1>2. \A s \in Starts : s \in Requests /\ Writers(rows[s]) \in SUBSET Requests
  BY RowFacts DEF Requests
<1>3. RowInv'
  BY <1>2 DEF RowInv
<1>4. \A r \in Results : r \in Requests
  BY DEF Requests
<1>5. FeedbackKept'
  BY <1>4 DEF FeedbackKept
<1> QED  BY <1>1, <1>3, <1>5

LEMMA SendStep ==
  ASSUME ServerInv, NEW q \in Requests, NEW s \in Starts, NEW x \in SUBSET Amounts, Send(q, s, x)
  PROVE  ServerType' /\ StepInv' /\ RowInv' /\ FeedbackKept'
<1> USE DEF ServerInv, TypeInv
<1>1. /\ pc[q] = "idle" /\ pc' = [pc EXCEPT ![q] = "sent"] /\ target' = [target EXCEPT ![q] = s]
      /\ given' = [given EXCEPT ![q] = x] /\ (q \in Starts => s = q)
      /\ UNCHANGED <<rows, memories, read, answer>>
  BY DEF Send, Goto
<1>2. ServerType'
  BY <1>1 DEF ServerType, Steps
<1> QED  BY <1>1, <1>2, QuietStep

LEMMA FailStep ==
  ASSUME ServerInv, NEW q \in Requests, Fail(q)
  PROVE  ServerType' /\ StepInv' /\ RowInv' /\ FeedbackKept'
<1> USE DEF ServerInv, TypeInv
<1>1. /\ pc[q] \in {"sent", "read", "updated"} /\ pc' = [pc EXCEPT ![q] = "failed"]
      /\ given' = [given EXCEPT ![q] = {}]
      /\ read' = [c \in Continues |-> IF c = q THEN NoRow ELSE read[c]]
      /\ UNCHANGED <<rows, memories, target, answer>>
  BY DEF Fail
<1>2. ServerType'
  BY <1>1, NoRowFacts DEF ServerType, Steps
<1>3. target[q] \in Starts /\ (q \in Starts => target[q] = q)
  BY <1>1 DEF StepInv
<1> QED  BY <1>1, <1>2, <1>3, QuietStep

LEMMA GetStep ==
  ASSUME ServerInv, NEW q \in Requests, GetConsultation(q)
  PROVE  ServerType' /\ StepInv' /\ RowInv' /\ FeedbackKept'
<1> USE DEF ServerInv, TypeInv
<1>1. /\ q \in Continues /\ pc[q] = "sent" /\ pc' = [pc EXCEPT ![q] = "read"]
      /\ rows[target[q]].status # "none" /\ read' = [read EXCEPT ![q] = rows[target[q]]]
      /\ UNCHANGED <<rows, memories, target, given, answer>>
  BY DEF GetConsultation, Goto, Exists
<1>2. target[q] \in Starts /\ (q \in Starts => target[q] = q)
  BY <1>1 DEF StepInv
<1>3. ServerType'
  BY <1>1, <1>2 DEF ServerType, Steps
<1> QED  BY <1>1, <1>2, <1>3, QuietStep

LEMMA ReadBackStep ==
  ASSUME ServerInv, NEW q \in Requests, ReadBack(q)
  PROVE  ServerType' /\ StepInv' /\ RowInv' /\ FeedbackKept'
<1> USE DEF ServerInv, TypeInv
<1>1. /\ pc[q] = "updated" /\ pc' = [pc EXCEPT ![q] = IF q \in Results THEN "answered" ELSE "done"]
      /\ answer' = [answer EXCEPT ![q] = Seen(rows[target[q]])]
      /\ UNCHANGED <<rows, memories, target, given, read>>
  BY DEF ReadBack, Goto
<1>2. /\ target[q] \in Starts /\ (q \in Starts => target[q] = q)
      /\ q \in Writers(rows[target[q]])
  BY <1>1 DEF StepInv
<1>3. rows[target[q]] \in Rows
  BY <1>2
<1>4. ServerType'
  BY <1>1, <1>3, RowFacts DEF ServerType, Steps
<1>5. ASSUME q \in Results PROVE answer'[q].feedback # None
  <2>1. rows[target[q]].feedback # None
    <3>1. ResultKept(rows[target[q]]) /\ rows[target[q]].writes \in Seq(Requests)
      BY <1>2, <1>3, RowFacts DEF FeedbackKept
    <3>2. PICK i \in DOMAIN rows[target[q]].writes : rows[target[q]].writes[i] = q
      BY <1>2 DEF Writers
    <3>3. PICK j \in i .. Len(rows[target[q]].writes) :
             rows[target[q]].writes[j] = rows[target[q]].feedback
      BY <1>5, <3>1, <3>2 DEF ResultKept
    <3>4. rows[target[q]].writes[j] \in Requests
      BY <3>1, <3>2, <3>3
    <3> QED  BY <3>3, <3>4, RequestsAssumption
  <2>2. answer'[q].feedback = rows[target[q]].feedback
    BY <1>1, <1>3, RowFacts
  <2> QED  BY <2>1, <2>2
<1> QED  BY <1>1, <1>2, <1>4, <1>5, QuietStep

LEMMA ExtractStep ==
  ASSUME ServerInv, NEW q \in Requests, ExtractMemory(q)
  PROVE  ServerType' /\ StepInv' /\ RowInv' /\ FeedbackKept'
<1> USE DEF ServerInv, TypeInv
<1>1. /\ pc[q] = "answered" /\ pc' = [pc EXCEPT ![q] = "done"]
      /\ memories' \in {memories, memories \cup {answer[q].feedback}}
      /\ UNCHANGED <<rows, target, given, read, answer>>
  BY DEF ExtractMemory, Goto
<1>2. q \in Results /\ q \notin Starts /\ target[q] \in Starts
  BY <1>1, RequestsAssumption DEF StepInv
<1>3. answer[q].feedback # None
  BY <1>1, <1>2 DEF FeedbackKept
<1>4. ServerType'
  BY <1>1 DEF ServerType, Steps
<1>5. StepInv'
  BY <1>1, <1>2 DEF StepInv
<1>6. RowInv'
  BY <1>1, <1>2 DEF RowInv
<1>7. \A r \in Requests : r # q => pc'[r] = pc[r]
  BY <1>1
<1>8. FeedbackKept'
  BY <1>1, <1>3, <1>7 DEF FeedbackKept, Requests
<1> QED  BY <1>4, <1>5, <1>6, <1>8

-----------------------------------------------------------------------------
(* One more request has written its row.                                   *)
LEMMA WriteStep ==
  ASSUME ServerInv, ServerType', NEW q \in Requests, NEW s \in Starts, target[q] = s,
         UNCHANGED <<memories, target>>,
         q \in Starts => s = q /\ pc'[q] = "done" /\ rows[s].status = "none",
         q \notin Starts => pc'[q] = "updated" /\ rows[s].status # "none",
         pc[q] \notin {"idle", "done"},
         \A r \in Requests : r # q => pc'[r] = pc[r] /\ answer'[r] = answer[r],
         \A t \in Starts : t # s => rows'[t] = rows[t],
         rows'[s].writes = Append(rows[s].writes, q),
         rows'[s].status # "none", rows'[s].advice # None,
         rows'[s].advice = q \/ rows'[s].advice = rows[s].advice,
         rows'[s].status = "recorded" <=> q \in Results,
         q \in Results => rows'[s].feedback = q,
         q \notin Results => rows'[s].feedback = rows[s].feedback
  PROVE  StepInv' /\ RowInv' /\ FeedbackKept'
<1> USE DEF ServerInv, TypeInv
<1>0. /\ Writers(rows'[s]) = Writers(rows[s]) \cup {q}
      /\ ResultKept(rows'[s]) /\ DecisionShown(rows'[s])
  BY WritesFacts DEF FeedbackKept, ServerType
<1>1. \A t \in Starts : t \in Requests /\ rows[t].writes \in Seq(Requests) /\ Writers(rows[t]) \in SUBSET Requests
  BY RowFacts DEF Requests
<1>2. StepInv'
  BY <1>0, <1>1 DEF StepInv
<1>3. q # None /\ (q \in Starts => q \notin Results)
  BY RequestsAssumption
<1>4. {rows'[s].advice, rows'[s].feedback} \ {None} \subseteq Writers(rows'[s])
  BY <1>0 DEF RowInv
<1>5. \A t \in Starts : pc[t] = "done" => pc'[t] = "done"
  BY <1>1
<1>6. RowInv'
  <2> SUFFICES ASSUME NEW t \in Starts
               PROVE  /\ rows'[t].status = "none" <=> rows'[t].advice = None
                      /\ rows'[t].status = "none" => rows'[t].writes = <<>>
                      /\ rows'[t].status # "none" => pc'[t] = "done"
                      /\ {rows'[t].advice, rows'[t].feedback} \ {None} \subseteq Writers(rows'[t])
                      /\ \A r \in Writers(rows'[t]) : pc'[r] # "idle" /\ target'[r] = t
    BY DEF RowInv
  <2>1. CASE t # s
    BY <1>1, <1>5, <2>1 DEF RowInv
  <2>2. CASE t = s
    <3>1. pc'[s] = "done"
      BY <1>5 DEF RowInv
    <3>2. \A r \in Writers(rows'[s]) : pc'[r] # "idle" /\ target[r] = s
      BY <1>0, <1>1 DEF RowInv
    <3> QED  BY <1>4, <2>2, <3>1, <3>2
  <2> QED  BY <2>1, <2>2
<1>7. \A r \in Results : r \in Requests /\ (pc'[r] \in {"answered", "done"} => r # q /\ pc[r] = pc'[r])
  BY <1>3 DEF Requests
<1>8. \A t \in Starts : ResultKept(rows'[t]) /\ DecisionShown(rows'[t])
  BY <1>0 DEF FeedbackKept
<1>9. FeedbackKept'
  BY <1>7, <1>8 DEF FeedbackKept
<1> QED  BY <1>2, <1>6, <1>9

LEMMA CreateStep ==
  ASSUME ServerInv, NEW q \in Requests, NEW f \in BOOLEAN, CreateConsultation(q, f)
  PROVE  ServerType' /\ StepInv' /\ RowInv' /\ FeedbackKept'
<1> USE DEF ServerInv, TypeInv
<1> DEFINE row == [status |-> AdviceStatus(f), followUp |-> f,
                   planned |-> given[q], advice |-> q, feedback |-> None, writes |-> <<q>>]
<1>1. /\ q \in Starts /\ pc[q] = "sent" /\ pc' = [pc EXCEPT ![q] = "done"]
      /\ rows' = [rows EXCEPT ![q] = row] /\ answer' = [answer EXCEPT ![q] = Seen(row)]
      /\ given' = [given EXCEPT ![q] = {}] /\ UNCHANGED <<memories, target, read>>
  BY DEF CreateConsultation, Goto
<1>2. target[q] = q /\ rows[q].status = "none" /\ rows[q].writes = <<>>
  BY <1>1 DEF StepInv, RowInv
<1>3. /\ row \in Rows /\ row.status # "none" /\ row.advice = q /\ row.feedback = None
      /\ row.writes = <<q>> /\ row.status # "recorded"
  BY <1>1 DEF Rows, AdviceStatus
<1> HIDE DEF row
<1>4. ServerType'
  BY <1>1, <1>3, RowFacts DEF ServerType, Steps
<1>5. q \notin Results /\ q # None
  BY <1>1, RequestsAssumption
<1>6. rows[q].feedback = None
  <2>1. Writers(rows[q]) = {}
    BY <1>2 DEF Writers
  <2>2. {rows[q].feedback} \ {None} \subseteq Writers(rows[q])
    BY <1>1 DEF RowInv
  <2> QED  BY <2>1, <2>2
<1>7. row.writes = Append(rows[q].writes, q)
  BY <1>2, <1>3
<1> QED  BY <1>1, <1>2, <1>3, <1>4, <1>5, <1>6, <1>7, WriteStep

LEMMA AdviceStep ==
  ASSUME ServerInv, NEW q \in Requests, NEW f \in BOOLEAN, UpdateConsultationAdvice(q, f)
  PROVE  ServerType' /\ StepInv' /\ RowInv' /\ FeedbackKept'
<1> USE DEF ServerInv, TypeInv
<1>1. /\ pc[q] = "read" /\ pc' = [pc EXCEPT ![q] = "updated"]
      /\ rows' = [rows EXCEPT ![target[q]] = AdvisedRow(q, rows[target[q]], f)]
      /\ read' = [read EXCEPT ![q] = NoRow] /\ given' = [given EXCEPT ![q] = {}]
      /\ UNCHANGED <<memories, target, answer>>
  BY DEF UpdateConsultationAdvice, Goto
<1>2. /\ q \in Continues /\ target[q] \in Starts /\ rows[target[q]].status # "none"
      /\ rows[target[q]] \in Rows /\ q \notin Starts /\ q \notin Results /\ q # None
  BY <1>1, RequestsAssumption DEF StepInv
<1>3. PICK s \in Starts : s = target[q]
  BY <1>2
<1>4. Planned(q) \in SUBSET Amounts
  BY <1>2, RowFacts DEF Planned
<1>5. PICK new : new = AdvisedRow(q, rows[s], f)
  OBVIOUS
<1>6. /\ new \in Rows /\ new.status \notin {"none", "recorded"} /\ new.advice = q
      /\ new.feedback = rows[s].feedback /\ new.writes = Append(rows[s].writes, q)
  BY <1>2, <1>3, <1>4, <1>5, AdvisedFacts
<1>7. rows' = [rows EXCEPT ![s] = new]
  BY <1>1, <1>3, <1>5
<1>8. ServerType'
  <2>1. rows' \in [Starts -> Rows]
    BY <1>6, <1>7
  <2>2. read' \in [Continues -> Rows] /\ given' \in [Requests -> SUBSET Amounts]
    BY <1>1, NoRowFacts
  <2>3. pc' \in [Requests -> Steps] /\ UNCHANGED <<target, answer>>
    BY <1>1 DEF Steps
  <2> QED  BY <2>1, <2>2, <2>3 DEF ServerType
<1> QED  BY <1>1, <1>2, <1>3, <1>6, <1>7, <1>8, WriteStep

LEMMA ResultStep ==
  ASSUME ServerInv, NEW q \in Requests, UpdateConsultationResult(q)
  PROVE  ServerType' /\ StepInv' /\ RowInv' /\ FeedbackKept'
<1> USE DEF ServerInv, TypeInv
<1>1. /\ q \in Results /\ pc[q] = "sent" /\ pc' = [pc EXCEPT ![q] = "updated"]
      /\ rows[target[q]].status # "none"
      /\ rows' = [rows EXCEPT ![target[q]] = RecordedRow(q, rows[target[q]])]
      /\ UNCHANGED <<memories, target, given, read, answer>>
  BY DEF UpdateConsultationResult, Goto, Exists
<1>2. target[q] \in Starts /\ q \notin Starts /\ q # None
  BY <1>1, RequestsAssumption DEF StepInv
<1>3. PICK s \in Starts : s = target[q]
  BY <1>2
<1>4. PICK new : new = RecordedRow(q, rows[s])
  OBVIOUS
<1>5. /\ new \in Rows /\ new.status = "recorded" /\ new.advice = rows[s].advice
      /\ new.feedback = q /\ new.writes = Append(rows[s].writes, q)
  BY <1>1, <1>4, RecordedFacts
<1>6. rows' = [rows EXCEPT ![s] = new]
  BY <1>1, <1>3, <1>4
<1>7. ServerType'
  <2>1. rows' \in [Starts -> Rows]
    BY <1>5, <1>6
  <2>2. pc' \in [Requests -> Steps] /\ UNCHANGED <<target, given, read, answer>>
    BY <1>1 DEF Steps
  <2> QED  BY <2>1, <2>2 DEF ServerType
<1>8. rows[s].advice # None
  BY <1>1, <1>3 DEF RowInv
<1> QED  BY <1>1, <1>2, <1>3, <1>5, <1>6, <1>7, <1>8, WriteStep

LEMMA ServerStep == ServerInv /\ [Next]_vars => ServerInv'
<1> SUFFICES ASSUME ServerInv, [Next]_vars
             PROVE  ServerType' /\ StepInv' /\ RowInv' /\ FeedbackKept'
  BY ScreenStep DEF ServerInv, TypeInv, ScreenType, ServerType
<1>1. CASE UNCHANGED serverVars
  BY <1>1 DEF serverVars, ServerInv, TypeInv, ServerType, StepInv, RowInv, FeedbackKept
<1>2. ASSUME NEW q \in Requests, NEW s \in Starts,
             NEW x \in {{}} \cup {{y} : y \in Amounts}, Send(q, s, x)
      PROVE  ServerType' /\ StepInv' /\ RowInv' /\ FeedbackKept'
  <2>1. x \in SUBSET Amounts
    OBVIOUS
  <2> QED  BY <1>2, <2>1, SendStep
<1>3. ASSUME NEW q \in Requests, Serve(q)
      PROVE  ServerType' /\ StepInv' /\ RowInv' /\ FeedbackKept'
  BY <1>3, CreateStep, GetStep, AdviceStep, ResultStep, ReadBackStep, ExtractStep, Zenon DEF Serve
<1>4. ASSUME NEW q \in Requests, Fail(q)
      PROVE  ServerType' /\ StepInv' /\ RowInv' /\ FeedbackKept'
  BY <1>4, FailStep
<1>5. ASSUME NEW q \in Requests, Deliver(q) \/ GiveUp(q) PROVE UNCHANGED serverVars
  BY <1>5 DEF Deliver, GiveUp
<1>6. ASSUME NEW i \in DOMAIN gets, ReadHistory(i) \/ AnswerHistory(i) \/ FailHistory(i)
      PROVE  UNCHANGED serverVars
  BY <1>6 DEF ReadHistory, AnswerHistory, FailHistory, Show
<1>7. CASE Dispose
  BY <1>1, <1>7 DEF Dispose
<1>8. CASE UNCHANGED vars
  BY <1>1, <1>8 DEF vars
<1> QED  BY <1>1, <1>2, <1>3, <1>4, <1>5, <1>6, <1>7, <1>8, Zenon DEF Next

LEMMA ServerInductive == Spec => []ServerInv
  BY InitServer, ServerStep, PTL DEF Spec

(* What a result wrote beside the status is replaced by later results      *)
(* only, the status is a decision exactly while no advice came after it,   *)
(* and no memory is drawn from a consultation without a result, whatever   *)
(* interleaves.                                                            *)
THEOREM ConsultationsFeedbackKept == Spec => []FeedbackKept
<1>1. ServerInv => FeedbackKept
  BY DEF ServerInv
<1> QED  BY <1>1, ServerInductive, PTL

(* Types, and that a row's fields come from requests that wrote it.        *)
THEOREM ConsultationsType == Spec => []TypeOK
<1>1. ServerInv => TypeOK
  BY DEF ServerInv, TypeInv, RowInv, TypeOK, Steps, Showns, Histories, Kinds
<1> QED  BY <1>1, ServerInductive, PTL

-----------------------------------------------------------------------------
(* The newest request for the history, once it has read the rows, has seen *)
(* every request the app knows to have succeeded; an older one may have    *)
(* missed one, and is not shown.                                           *)
HistoryInv ==
  /\ \A q \in known : q \in Requests /\ pc[q] = "done"
  /\ gets # <<>> /\ gets[Len(gets)].phase = "read" =>
       \A q \in known : q \in Writers(gets[Len(gets)].rows[target[q]])
  /\ HistoryFresh

LEMMA DoneStays ==
  ASSUME ServerInv, [Next]_vars, NEW q \in Requests, pc[q] = "done"
  PROVE  pc'[q] = "done" /\ target'[q] = target[q]
<1> USE DEF ServerInv, TypeInv
<1>1. ASSUME NEW r \in Requests, Serve(r) \/ Fail(r)
      PROVE  pc'[q] = "done" /\ target'[q] = target[q]
  BY <1>1 DEF Serve, Fail, CreateConsultation, GetConsultation, UpdateConsultationAdvice,
              UpdateConsultationResult, ReadBack, ExtractMemory, Goto
<1>2. ASSUME NEW r \in Requests, NEW s, NEW x, Send(r, s, x)
      PROVE  pc'[q] = "done" /\ target'[q] = target[q]
  BY <1>2 DEF Send, Goto
<1>3. ASSUME NEW r \in Requests, Deliver(r) \/ GiveUp(r) PROVE UNCHANGED serverVars
  BY <1>3 DEF Deliver, GiveUp
<1>4. ASSUME NEW i \in DOMAIN gets, ReadHistory(i) \/ AnswerHistory(i) \/ FailHistory(i)
      PROVE  UNCHANGED serverVars
  BY <1>4 DEF ReadHistory, AnswerHistory, FailHistory, Show
<1>5. Dispose \/ UNCHANGED vars => UNCHANGED serverVars
  BY DEF Dispose, vars
<1> QED  BY <1>1, <1>2, <1>3, <1>4, <1>5 DEF Next, serverVars

LEMMA HistoryStep == ServerInv /\ HistoryInv /\ [Next]_vars => HistoryInv'
<1> SUFFICES ASSUME ServerInv, HistoryInv, [Next]_vars PROVE HistoryInv'
  OBVIOUS
<1> USE DEF HistoryInv, HistoryFresh
<1>1. /\ gets \in Seq(Gets) /\ known \subseteq Requests
      /\ \A q \in known : pc'[q] = "done" /\ target'[q] = target[q] /\ q \in Writers(rows[target[q]])
  BY DoneStays DEF ServerInv, TypeInv, StepInv
<1>2. CASE UNCHANGED <<gets, known, history>>
  BY <1>1, <1>2
<1>3. ASSUME NEW q \in Requests, Deliver(q) PROVE HistoryInv'
  <2>1. /\ pc[q] = "done" /\ known' = known \cup {q} /\ history' = Loading /\ UNCHANGED serverVars
        /\ gets' = Append(gets, [phase |-> "sent", rows |-> NoRows])
    BY <1>3 DEF Deliver, Refresh
  <2>2. gets'[Len(gets')] = [phase |-> "sent", rows |-> NoRows]
    BY <1>1, <2>1
  <2> QED  BY <2>1, <2>2 DEF Loading, serverVars
<1>4. ASSUME NEW i \in DOMAIN gets, ReadHistory(i) PROVE HistoryInv'
  <2>1. /\ gets' = [gets EXCEPT ![i] = [phase |-> "read", rows |-> rows]]
        /\ UNCHANGED <<rows, pc, target, known, history>>
    BY <1>4 DEF ReadHistory, serverVars
  <2>2. Len(gets') = Len(gets) /\ Len(gets) \in DOMAIN gets /\ gets # <<>>
    BY <1>1, <2>1
  <2>3. gets'[Len(gets)] = IF i = Len(gets) THEN [phase |-> "read", rows |-> rows] ELSE gets[Len(gets)]
    BY <2>1, <2>2
  <2>4. gets'[Len(gets)].phase = "read" => \A q \in known : q \in Writers(gets'[Len(gets)].rows[target[q]])
    BY <1>1, <2>2, <2>3
  <2> QED  BY <2>1, <2>2, <2>4
<1>5. ASSUME NEW i \in DOMAIN gets, AnswerHistory(i) \/ FailHistory(i) PROVE HistoryInv'
  <2>1. PICK kind, list :
           /\ Show(i, kind, list)
           /\ kind = "data" => gets[i].phase = "read" /\ list = gets[i].rows
    BY <1>5 DEF AnswerHistory, FailHistory
  <2>2. /\ gets' = [gets EXCEPT ![i] = [phase |-> "done", rows |-> NoRows]]
        /\ \/ i = Len(gets) /\ history' = [kind |-> kind, rows |-> list]
           \/ history' = history
        /\ UNCHANGED <<pc, target, known>>
    BY <2>1 DEF Show, Current, serverVars
  <2>3. Len(gets') = Len(gets) /\ Len(gets) \in DOMAIN gets /\ gets # <<>>
    BY <1>1, <2>2
  <2>4. gets'[Len(gets)] = IF i = Len(gets) THEN [phase |-> "done", rows |-> NoRows] ELSE gets[Len(gets)]
    BY <2>2, <2>3
  <2>5. history'.kind = "data" => \A q \in known : q \in Writers(history'.rows[target[q]])
    BY <2>1, <2>2, <2>3
  <2>6. gets'[Len(gets)].phase = "read" => \A q \in known : q \in Writers(gets'[Len(gets)].rows[target[q]])
    BY <2>3, <2>4
  <2> QED  BY <2>2, <2>3, <2>5, <2>6
<1>6. CASE Dispose
  BY <1>6 DEF Dispose, Loading
<1>7. ASSUME NEW q \in Requests, NEW s, NEW x, Serve(q) \/ Fail(q) \/ GiveUp(q) \/ Send(q, s, x)
      PROVE  UNCHANGED <<gets, known, history>>
  BY <1>7 DEF Serve, Fail, GiveUp, Send, CreateConsultation, GetConsultation, UpdateConsultationAdvice,
              UpdateConsultationResult, ReadBack, ExtractMemory, screenVars
<1>8. UNCHANGED vars => UNCHANGED <<gets, known, history>>
  BY DEF vars, screenVars
<1> QED  BY <1>2, <1>3, <1>4, <1>5, <1>6, <1>7, <1>8, Zenon DEF Next

(* A history on the screen holds every request the user was told of, in    *)
(* whatever order the answers arrive.                                      *)
THEOREM ConsultationsHistoryFresh == Spec => []HistoryFresh
<1>1. Init => HistoryInv
  BY DEF Init, HistoryInv, HistoryFresh, Loading
<1>2. HistoryInv => HistoryFresh
  BY DEF HistoryInv
<1> QED  BY <1>1, <1>2, HistoryStep, ServerInductive, PTL DEF Spec

=============================================================================
