---------------------------- MODULE AgentPayload ----------------------------
(***************************************************************************)
(* What a monthly review hands to the external model: CreateMonthlyReview  *)
(* masks what it collected (sanitizeForLLM, sanitizeReviewCandidates), the *)
(* adapter copies listed fields, the OpenAI client lists them once more.   *)
(***************************************************************************)
EXTENDS ReviewCandidates, Integers, Sequences, FiniteSetsExt

CONSTANT PayloadRows  \* transactions a payload carries

Masked == <<"pattern of one merchant">>

\* The first of the transactions, without merchant, source and fingerprint.
SanitizeForLLM(txs) ==
  [i \in 1..Min({Len(txs), PayloadRows}) |->
     [txs[i] EXCEPT !.merchant = <<>>, !.source = "", !.fingerprint = <<>>]]

\* Mutant: a subscription is taken for one of the fixed labels.
NamesNoOneDetected(candidate) ==
  candidate.kind # "largest" \/ candidate.label \in {<<c>> : c \in Categories}

\* Whether a label may leave as it is. The code goes by the text: a category,
\* the mark of a regret, the name of the pace.
NamesNoOne(candidate) ==
  LET label == candidate.label
  IN \/ label \in {<<c>> : c \in Categories}
     \/ \E i \in DOMAIN label : label[i] = "regret"
     \/ label = <<"pace">>

SanitizeReviewCandidates(local) ==
  [i \in DOMAIN local |->
     IF NamesNoOne(local[i]) THEN local[i]
     ELSE [local[i] EXCEPT !.label = Masked]]

\* transactionValues with sanitizedTransactions, dashboardValue (which leaves the
\* list of recent transactions out) and reviewCandidates.
TransactionValue(tx) == [date |-> tx.date, amount |-> tx.amount, category |-> tx.category]
DashboardValue(d) ==
  [field \in {"month", "expenseTotal", "freeExpenseTotal", "monthlyFreeBudget",
              "freeBudgetRemaining", "drinkingTotal", "subscriptionTotal",
              "byCategory"} |-> d[field]]
CandidateValue(c) ==
  [label |-> c.label, total |-> c.total, count |-> c.count, annualized |-> c.annualized]

ReviewPayload(profile, dashboard, txs, local) ==
  LET sent == SanitizeForLLM(txs)
      candidates == SanitizeReviewCandidates(local)
  IN [profile |-> profile, dashboard |-> DashboardValue(dashboard),
      transactions |-> [i \in DOMAIN sent |-> TransactionValue(sent[i])],
      candidates |-> [i \in DOMAIN candidates |-> CandidateValue(candidates[i])]]
=============================================================================
