------------------------------- MODULE Ledger -------------------------------
(***************************************************************************)
(* One user's ledger over many imports: statement files are previewed with *)
(* the rules of that moment, committed later, their transactions given new *)
(* categories by hand, categories remembered for a merchant, and the       *)
(* result summed up for the dashboard, the verdicts and the review.        *)
(*                                                                         *)
(* A commit is one step here: module ImportPreview shows that concurrent   *)
(* imports are atomic, and models the lifetime of a preview.               *)
(***************************************************************************)
EXTENDS CsvImporter, AgentPayload, Integers, Sequences, FiniteSets, FiniteSetsExt, SequencesExt

CONSTANTS
  Files,       \* statement files: headers, records, source
  Mappings,    \* column choices a user may send with a file
  Profiles,    \* profiles a user may save, valid or not
  Choosable,   \* categories a user may choose
  ReviewRows,  \* the latest transactions a review looks at
  MaxPreviews, \* previews held at a time
  MaxRows,     \* transactions in the ledger
  MaxChoices,  \* transactions whose category was chosen by hand
  MaxSaving,   \* rules being saved at a time
  Months, Days, Prices, \* what dashboards, reviews and verdicts are asked for
  MemorySets,  \* memories a verdict may find
  Regrets      \* consultations with a high regret score

\* Categories are ours, whoever names them, and the lines of a file are of the
\* months looked at.
ASSUME LedgerAssumption ==
  /\ Choosable \cup {Unclassified} \subseteq Categories
  /\ KeywordRules \in Seq([keywords : {r.keywords : r \in Range(KeywordRules)},
                           category : Categories])
  /\ {ReviewRows, MaxPreviews, MaxRows, MaxChoices, MaxSaving, MaxCandidates} \subseteq Nat
  /\ \A p \in Profiles : p.freeBudget \in Int /\ p.reduce \in Seq(Range(p.reduce))
  /\ Regrets \in Seq(Range(Regrets))
  /\ Prices \cup {ReducedFloor} \subseteq Int /\ MonthDays \in Nat \ {0}

ASSUME FilesAssumption ==
  \A f \in Files :
    /\ f.records \in Seq(Range(f.records))
    /\ \A record \in Range(f.records) : \A cell \in Range(record) :
         /\ cell.kind = "date" => cell.day \in Nat /\ MonthOf(cell.day) \in Months
         /\ cell.kind = "number" => cell.value \in Int

VARIABLES
  rows,      \* the transactions table, a row's id is its position
  rules,     \* the merchant_rules table: merchant -> category
  profile,   \* the profiles row
  previews,  \* parsed files waiting for their commit
  saving,    \* category updates whose rule is still to be saved
  chosen,    \* history: row -> the category the user chose last
  committed  \* history: the files committed, with their mapping

vars == <<rows, rules, profile, previews, saving, chosen, committed>>

\* Before the first PutProfile; no valid profile equals it.
NoProfile == [freeBudget |-> 0, reduce |-> <<>>, strictness |-> "balanced"]

Init ==
  /\ rows = <<>>
  /\ rules = <<>>
  /\ profile = NoProfile
  /\ previews = {}
  /\ saving = {}
  /\ chosen = <<>>
  /\ committed = {}

-----------------------------------------------------------------------------
(* Imports. *)

\* A file is parsed with the rules saved so far; what needs no further mapping
\* waits, with its categories, for the commit.
PreviewImport(file, mapping) ==
  LET parsed == Parse(file, mapping, rules)
      preview == [file |-> file, mapping |-> mapping,
                  transactions |-> parsed.transactions]
  IN /\ Cardinality(previews) < MaxPreviews
     /\ ~parsed.failed
     /\ ~parsed.needsMapping
     /\ previews' = previews \cup {preview}
     /\ UNCHANGED <<rows, rules, profile, saving, chosen, committed>>

\* A preview expires, is lost in a restart, or its import fails and is undone.
LosePreview(preview) ==
  /\ previews' = previews \ {preview}
  /\ UNCHANGED <<rows, rules, profile, saving, chosen, committed>>

\* Mutant: a duplicate brings the new line's category along.
InsertOrUpdate(table, tx) ==
  IF \E i \in DOMAIN table : table[i].fingerprint = tx.fingerprint
  THEN [i \in DOMAIN table |-> IF table[i].fingerprint = tx.fingerprint
                               THEN [table[i] EXCEPT !.category = tx.category]
                               ELSE table[i]]
  ELSE Append(table, tx)

\* INSERT ... ON CONFLICT (user_id, fingerprint) DO NOTHING.
InsertTransaction(table, tx) ==
  IF \E i \in DOMAIN table : table[i].fingerprint = tx.fingerprint
  THEN table ELSE Append(table, tx)

ImportTransactions(table, transactions) ==
  FoldLeft(InsertTransaction, table, transactions)

\* The preview is taken and its transactions are registered.
CommitImport(preview) ==
  LET after == ImportTransactions(rows, preview.transactions)
  IN /\ Len(after) <= MaxRows
     /\ previews' = previews \ {preview}
     /\ rows' = after
     /\ committed' = committed \cup {[file |-> preview.file, mapping |-> preview.mapping]}
     /\ UNCHANGED <<rules, profile, saving, chosen>>

-----------------------------------------------------------------------------
(* Corrections. The update of the category and the upsert of the rule are   *)
(* separate statements, outside a transaction.                              *)

SetCategory(id, category, remember) ==
  /\ Cardinality(DOMAIN chosen \cup {id}) <= MaxChoices
  /\ rows' = [rows EXCEPT ![id].category = category]
  /\ chosen' = [i \in DOMAIN chosen \cup {id} |->
                  IF i = id THEN category ELSE chosen[i]]
  /\ IF remember
     THEN /\ Cardinality(saving) < MaxSaving
          /\ saving' = saving \cup {[merchant |-> rows[id].merchant, category |-> category]}
     ELSE UNCHANGED saving
  /\ UNCHANGED <<rules, profile, previews, committed>>

SaveRule(rule) ==
  /\ saving' = saving \ {rule}
  /\ rules' = [m \in DOMAIN rules \cup {rule.merchant} |->
                 IF m = rule.merchant THEN rule.category ELSE rules[m]]
  /\ UNCHANGED <<rows, profile, previews, chosen, committed>>

\* The read of the row or the upsert fails: the category stays, without a rule.
SaveRuleFails(rule) ==
  /\ saving' = saving \ {rule}
  /\ UNCHANGED <<rows, rules, profile, previews, chosen, committed>>

-----------------------------------------------------------------------------
(* The profile. *)

ValidProfile(p) ==
  /\ p.freeBudget > 0
  /\ p.strictness \in {"gentle", "balanced", "strict"}

PutProfile(p) ==
  /\ ValidProfile(p)
  /\ profile' = p
  /\ UNCHANGED <<rows, rules, previews, saving, chosen, committed>>

Next ==
  \/ \E f \in Files, m \in Mappings : PreviewImport(f, m)
  \/ \E p \in previews : LosePreview(p)
  \/ \E p \in previews : CommitImport(p)
  \/ \E id \in DOMAIN rows, c \in Choosable, r \in BOOLEAN : SetCategory(id, c, r)
  \/ \E r \in saving : SaveRule(r)
  \/ \E r \in saving : SaveRuleFails(r)
  \/ \E p \in Profiles : PutProfile(p)

Spec == Init /\ [][Next]_vars
-----------------------------------------------------------------------------
(* Properties. *)

TransactionType(tx) ==
  /\ DOMAIN tx = {"date", "merchant", "type", "amount", "category", "source", "fingerprint"}
  /\ tx.date \in Nat /\ MonthOf(tx.date) \in Months
  /\ tx.type \in {"expense", "income"}
  /\ tx.amount \in Nat \ {0}
  /\ tx.category \in Categories

\* The tables hold well-formed transactions, a rule or a choice is one of the
\* selectable categories, and amounts are positive whatever the sign, the
\* parentheses and the columns of the file were (normalizeRecord).
TypeOK ==
  /\ rows \in Seq(Range(rows)) /\ \A i \in DOMAIN rows : TransactionType(rows[i])
  /\ \A m \in DOMAIN rules : rules[m] \in Choosable
  /\ profile = NoProfile \/ profile \in Profiles
  /\ \A p \in previews : /\ p.file \in Files /\ p.mapping \in Mappings
                         /\ p.transactions \in Seq(Range(p.transactions))
                         /\ \A i \in DOMAIN p.transactions : TransactionType(p.transactions[i])
  /\ \A s \in saving : s.category \in Choosable
  /\ DOMAIN chosen \subseteq DOMAIN rows
  /\ committed \subseteq [file : Files, mapping : Mappings]

\* Committing a file again adds nothing, whatever rules were saved and
\* categories chosen since: a fingerprint does not depend on them
\* (Fingerprint, the unique key of ImportTransactions).
ReimportAddsNothing ==
  \A c \in committed :
    LET again == Parse(c.file, c.mapping, rules).transactions
    IN Len(ImportTransactions(rows, again)) = Len(rows)

\* The category a user chose stays until the user chooses another: neither an
\* overlapping import nor a rule saved late takes it back
\* (UpdateTransactionCategory, ON CONFLICT DO NOTHING).
ChoiceKept ==
  \A i \in DOMAIN chosen : rows[i].category = chosen[i]

\* A purchase the verdict does not advise against leaves the month's budget
\* unspent once it is on the ledger: EvaluateSpending and MonthlyDashboard
\* agree on what is left.
SafePurchaseFits ==
  \A month \in Months :
    LET dashboard == MonthlyDashboard(rows, month, profile)
        Advised(price, c) ==
          EvaluateSpending(profile, dashboard, {}, FALSE, {price}, c) # "avoid"
        Bought(price, c) == [date |-> month * MonthDays, type |-> "expense",
                             amount |-> price, category |-> c]
        After(price, c) ==
          MonthlyDashboard(Append(rows, Bought(price, c)), month, profile)
    IN \A c \in Categories, price \in Prices \cap Nat :
         profile # NoProfile /\ Advised(price, c)
           => After(price, c).freeBudgetRemaining >= 0

Severity == [safe |-> 0, caution |-> 1, avoid |-> 2]

\* A higher price never gets a milder verdict: the order of the checks and the
\* limits of EvaluateSpending keep this for every budget left, also when it is
\* overdrawn and the division truncates toward zero.
VerdictMonotone ==
  \A month \in Months :
    LET dashboard == MonthlyDashboard(rows, month, profile)
        SeverityOf(price, c, memories, drinking) ==
          Severity[EvaluateSpending(profile, dashboard, memories, drinking, {price}, c)]
    IN \A c \in Categories, memories \in MemorySets, drinking \in BOOLEAN, p \in Prices :
         profile # NoProfile /\ p + 1 \in Prices
           => SeverityOf(p, c, memories, drinking) <= SeverityOf(p + 1, c, memories, drinking)

\* Verdicts agree with the ledger and with each other: a purchase that is not
\* advised against fits the budget, and a dearer one is not judged more mildly
\* (EvaluateSpending, spending.go:18-57).
VerdictsSound == SafePurchaseFits /\ VerdictMonotone

\* ORDER BY transaction_date DESC, id DESC LIMIT n, for every month.
ListTransactions(table, limit) ==
  LET Newer(i, j) == \/ table[i].date > table[j].date
                     \/ table[i].date = table[j].date /\ i > j
      NewerThan(i) == {j \in DOMAIN table : Newer(j, i)}
  IN [k \in 1..Min({limit, Len(table)}) |->
        table[CHOOSE i \in DOMAIN table : Cardinality(NewerThan(i)) = k - 1]]

\* What a review says is on the ledger. A category's total and count are the
\* month's, as the dashboard adds them up, as long as the latest ReviewRows
\* transactions reach back to that month; a merchant put forward as a
\* subscription was paid the same amount twice, a month apart.
ReviewSound ==
  LET txs == ListTransactions(rows, ReviewRows) IN
  \A detected \in DetectSubscriptionCandidates(txs), month \in Months, today \in Days :
    LET dashboard == MonthlyDashboard(rows, month, profile)
        review == BuildReviewCandidates(month, today, profile, dashboard, txs,
                                        detected, Regrets)
        complete == Cardinality({i \in DOMAIN rows : MonthOf(rows[i].date) >= month})
                      <= ReviewRows
        Paid(c, i, j) ==
          /\ rows[i].type = "expense" /\ rows[j].type = "expense"
          /\ rows[i].merchant = c.label /\ rows[j].merchant = c.label
          /\ rows[i].amount = rows[j].amount
          /\ rows[j].date - rows[i].date \in SubscriptionGap
    IN \A k \in DOMAIN review :
         LET c == review[k] IN
         /\ c.kind = "category" /\ complete =>
              /\ c.label[1] \in DOMAIN dashboard.byCategory
              /\ c.total = dashboard.byCategory[c.label[1]]
              /\ c.count = Cardinality({i \in DOMAIN rows :
                             IsExpense(rows[i], month) /\ rows[i].category = c.label[1]})
         /\ c.kind = "detected" => \E i, j \in DOMAIN rows : Paid(c, i, j)

\* A category remembered for a merchant is given to that merchant's later
\* transactions ("CSVのカテゴリは店舗ルール、キーワード、未分類の順で決まります").
RememberedApplies ==
  \A f \in Files, m \in Mappings :
    LET parsed == Parse(f, m, rules).transactions
    IN \A i \in DOMAIN parsed :
         parsed[i].merchant \in DOMAIN rules
           => parsed[i].category = rules[parsed[i].merchant]

\* Words by which the code tells the labels it makes itself, and the words of a
\* statement that are not spelled so: no merchant of these files bears a mark.
Marks == {"regret", "pace", Masked[1]}
Spelled == {w \in DOMAIN Lower : Lower[w] \notin Marks}
NoMarks ==
  /\ Numbers # {} /\ Numbers \subseteq Spelled
  /\ \A f \in Files : \A record \in Range(f.records) : \A cell \in Range(record) :
       cell.kind = "text" => cell.words \in Seq(Spelled)

\* No merchant is named in what a review sends to the external model, whether it
\* was put forward as a subscription or as the largest expense; all else a
\* candidate says is sent as it was found ("加盟店名やCSV原文を意図せず外部へ送らないための境界").
MerchantsStayHome ==
  LET txs == ListTransactions(rows, ReviewRows)
      merchants == {rows[i].merchant : i \in DOMAIN rows} \ {<<c>> : c \in Categories}
  IN \A detected \in DetectSubscriptionCandidates(txs), month \in Months, today \in Days :
       LET dashboard == MonthlyDashboard(rows, month, profile)
           local == BuildReviewCandidates(month, today, profile, dashboard, txs,
                                          detected, Regrets)
           payload == ReviewPayload(profile, dashboard, txs, local)
       IN \A k \in DOMAIN local :
            /\ payload.candidates[k].label \notin merchants
            /\ payload.candidates[k].total = local[k].total
=============================================================================
