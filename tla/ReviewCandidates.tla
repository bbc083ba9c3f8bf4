------------------------- MODULE ReviewCandidates -------------------------
(***************************************************************************)
(* The candidates of the monthly review, from BuildReviewCandidates and    *)
(* DetectSubscriptionCandidates in application.go. Pure operators; a label *)
(* is the sequence of its words, so that labels of different origin may    *)
(* be equal, as they may be in the code.                                   *)
(***************************************************************************)
EXTENDS SpendingRules, Integers, Sequences, FiniteSets, FiniteSetsExt, SequencesExt

CONSTANTS
  MaxCandidates,  \* candidates a review keeps
  SubscriptionGap \* days between two payments of a subscription

Candidate(kind, label, total, count) ==
  [kind |-> kind, label |-> label, total |-> total, count |-> count,
   annualized |-> total * 12]

\* Mutant: the statistics of a category count its income and every month.
CategoryStatsOfAll(txs, month, category) ==
  LET found == {i \in DOMAIN txs : txs[i].category = category}
  IN [total |-> MapThenSumSet(LAMBDA i : txs[i].amount, found),
      count |-> Cardinality(found)]

CategoryStats(txs, month, category) ==
  LET found == {i \in DOMAIN txs : IsExpense(txs[i], month) /\ txs[i].category = category}
  IN [total |-> MapThenSumSet(LAMBDA i : txs[i].amount, found),
      count |-> Cardinality(found)]

CountExpenses(txs, month) ==
  Cardinality({i \in DOMAIN txs : IsExpense(txs[i], month)})

\* The first of the largest expenses of the month, as a sequence of at most one.
LargestExpense(txs, month) ==
  LET expenses == {i \in DOMAIN txs : IsExpense(txs[i], month)}
      Before(i, j) == \/ txs[i].amount > txs[j].amount
                      \/ txs[i].amount = txs[j].amount /\ i <= j
  IN IF expenses = {} THEN <<>>
     ELSE <<txs[CHOOSE i \in expenses : \A j \in expenses : Before(i, j)]>>

\* Whether two neighbours in date order look like a subscription.
LooksMonthly(before, after) ==
  /\ after.date - before.date \in SubscriptionGap
  /\ after.amount = before.amount

\* The results of one detection: the expenses of a merchant are sorted by date
\* and the candidates by amount; neither sort keeps the order of equal keys.
DetectSubscriptionCandidates(txs) ==
  LET expenses == {i \in DOMAIN txs : txs[i].type = "expense"}
      merchants == {txs[i].merchant : i \in expenses}
      Orders(m) ==
        {s \in SetToSeqs({i \in expenses : txs[i].merchant = m}) :
           \A k \in 1..Len(s) - 1 : txs[s[k]].date <= txs[s[k + 1]].date}
      Matched(s) ==
        \E k \in 1..Len(s) - 1 : LooksMonthly(txs[s[k]], txs[s[k + 1]])
      Found(m, s) ==
        IF Matched(s)
        THEN {Candidate("detected", m, txs[Last(s)].amount, Len(s))} ELSE {}
      Outcomes(m) == {Found(m, s) : s \in Orders(m)}
      Picks == {f \in [merchants -> UNION {Outcomes(m) : m \in merchants}] :
                  \A m \in merchants : f[m] \in Outcomes(m)}
      Sorted(S) == {s \in SetToSeqs(S) :
                      \A k \in 1..Len(s) - 1 : s[k].annualized >= s[k + 1].annualized}
  IN UNION {Sorted(UNION {f[m] : m \in merchants}) : f \in Picks}

\* What is put forward for a review, in the order it is collected. detected is
\* one of the results of DetectSubscriptionCandidates; regrets are the
\* consultations with a high regret score, as [category, actual].
CollectCandidates(month, today, profile, dashboard, txs, detected, regrets) ==
  LET When(condition, candidate) == IF condition THEN <<candidate>> ELSE <<>>
      OfCategory(c, total) ==
        Candidate("category", <<c>>, total, CategoryStats(txs, month, c).count)
      Reduced(c) ==
        LET total == CategoryStats(txs, month, c).total
        IN When(total > 0, OfCategory(c, total))
      firstHalf == /\ dashboard.monthlyFreeBudget > 0
                   /\ MonthOf(today) = month
                   /\ today % MonthDays < 15
                   /\ dashboard.freeExpenseTotal * 2 > dashboard.monthlyFreeBudget
      largest == LargestExpense(txs, month)
      Regret(r) == Candidate("regret", <<r.category, "regret">>, r.actual, 1)
  IN FlattenSeq([i \in DOMAIN profile.reduce |-> Reduced(profile.reduce[i])])
     \o When(dashboard.drinkingTotal > 0, OfCategory(Drinking, dashboard.drinkingTotal))
     \o When(dashboard.subscriptionTotal > 0,
             OfCategory(Subscription, dashboard.subscriptionTotal))
     \o detected
     \o When(firstHalf, Candidate("pace", <<"pace">>, dashboard.freeExpenseTotal,
                                  CountExpenses(txs, month)))
     \o [i \in DOMAIN largest |->
           Candidate("largest", largest[i].merchant, largest[i].amount, 1)]
     \o [i \in DOMAIN regrets |-> Regret(regrets[i])]

\* The first candidate of a label stays.
AddCandidate(kept, candidate) ==
  IF \E i \in DOMAIN kept : kept[i].label = candidate.label
  THEN kept ELSE Append(kept, candidate)

\* Each label once, cut to the first MaxCandidates.
BuildReviewCandidates(month, today, profile, dashboard, txs, detected, regrets) ==
  LET collected == CollectCandidates(month, today, profile, dashboard, txs, detected, regrets)
      kept == FoldLeft(AddCandidate, <<>>, collected)
  IN SubSeq(kept, 1, Min({Len(kept), MaxCandidates}))
=============================================================================
