--------------------------- MODULE SpendingRules ---------------------------
(***************************************************************************)
(* The month's totals and the verdict on a planned purchase, from          *)
(* MonthlyDashboard in postgres/repository.go and domain/spending.go.      *)
(* Pure operators on a ledger (a sequence of transactions) and a profile.  *)
(***************************************************************************)
EXTENDS Integers, Sequences, FiniteSetsExt, SequencesExt

CONSTANTS
  Categories,      \* every category
  FixedCategories, \* rent, utilities and telephone: not paid from the budget
  Drinking,        \* the category of drinks
  Subscription,    \* the category of subscriptions
  Other,           \* the category of a purchase nobody could classify
  MonthDays,       \* days of a month
  ReducedFloor     \* what a purchase in a reduced category may always cost

MonthOf(date) == date \div MonthDays

\* Go's integer division, which truncates toward zero.
Quotient(a, b) == IF a >= 0 THEN a \div b ELSE -((-a) \div b)

IsExpense(tx, month) == tx.type = "expense" /\ MonthOf(tx.date) = month

\* The expenses of a month by category, and what they leave of the budget.
MonthlyDashboard(rows, month, profile) ==
  LET expenses == {i \in DOMAIN rows : IsExpense(rows[i], month)}
      Total(S) == MapThenSumSet(LAMBDA i : rows[i].amount, S)
      byCategory == [c \in {rows[i].category : i \in expenses} |->
                       Total({i \in expenses : rows[i].category = c})]
      Of(c) == IF c \in DOMAIN byCategory THEN byCategory[c] ELSE 0
      free == Total({i \in expenses : rows[i].category \notin FixedCategories})
  IN [month |-> month, byCategory |-> byCategory,
      expenseTotal |-> Total(expenses), freeExpenseTotal |-> free,
      drinkingTotal |-> Of(Drinking), subscriptionTotal |-> Of(Subscription),
      monthlyFreeBudget |-> profile.freeBudget,
      freeBudgetRemaining |-> profile.freeBudget - free]

\* A remembered regret speaks against the purchase when it mentions the
\* category, or when the message mentions drinking, whatever the regret says.
Regretted(memories, category, aboutDrinking) ==
  \E m \in memories : m.regret /\ (category \in m.mentions \/ aboutDrinking)

\* Mutant: the strict adviser's check comes before the reduced category's.
EvaluateStrictFirst(profile, dashboard, memories, aboutDrinking, planned, inferred) ==
  LET remaining == dashboard.freeBudgetRemaining
      Costs(limit) == \E p \in planned : p > limit
      floor == LET fifth == Quotient(remaining, 5)
               IN IF fifth > ReducedFloor THEN fifth ELSE ReducedFloor
  IN IF planned = {} THEN "insufficient_data"
     ELSE IF \/ Costs(remaining)
             \/ Regretted(memories, inferred, aboutDrinking) THEN "avoid"
     ELSE IF profile.strictness = "strict" /\ Costs(Quotient(remaining, 4)) THEN "caution"
     ELSE IF Contains(profile.reduce, inferred) /\ Costs(floor) THEN "avoid"
     ELSE "safe"

\* The verdict on a purchase. planned is the amount, or no amount; inferred
\* is the category the agent answered, which may be none of ours.
EvaluateSpending(profile, dashboard, memories, aboutDrinking, planned, inferred) ==
  LET category == IF inferred \in Categories THEN inferred ELSE Other
      remaining == dashboard.freeBudgetRemaining
      Costs(limit) == \E p \in planned : p > limit
      fifth == Quotient(remaining, 5)
      floor == IF fifth > ReducedFloor THEN fifth ELSE ReducedFloor
  IN IF planned = {} THEN "insufficient_data"
     ELSE IF \/ Costs(remaining)
             \/ Regretted(memories, category, aboutDrinking)
             \/ Contains(profile.reduce, category) /\ Costs(floor) THEN "avoid"
     ELSE IF profile.strictness = "strict" /\ Costs(Quotient(remaining, 4)) THEN "caution"
     ELSE "safe"
=============================================================================
