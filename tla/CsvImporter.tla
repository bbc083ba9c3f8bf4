---------------------------- MODULE CsvImporter ----------------------------
(***************************************************************************)
(* How a statement file becomes transactions: column detection, amounts,   *)
(* dates, merchants, categories and the fingerprint that tells duplicates. *)
(* Pure operators, from csvimport/importer.go.                             *)
(*                                                                         *)
(* A text is the sequence of its words; a header is its name. A cell is a  *)
(* record whose kind says which parser accepts it:                         *)
(*   [kind |-> "blank"]                  spaces only                       *)
(*   [kind |-> "date", day]              one of the accepted layouts       *)
(*   [kind |-> "number", value, paren]   an integer, maybe in parentheses  *)
(*   [kind |-> "text", words]            anything else                     *)
(* Source and account are one value: both are trimmed, lowered and joined  *)
(* to the fingerprint alike.                                               *)
(***************************************************************************)
EXTENDS Integers, Sequences, SequencesExt

CONSTANTS
  ColumnCandidates, \* role -> the header names that mean it, preferred first
  Numbers,          \* words made of digits and hyphens only
  BranchWords,      \* words that mean "branch"
  Lower,            \* word -> the word in lower case
  KeywordRules,     \* sequence of [keywords, category], the first match wins
  Unclassified      \* the category of what no rule and no keyword matches

Roles == {"date", "description", "amount", "debit", "credit"}

\* An unmapped role names the empty header.
NoColumn == ""

Blank == [kind |-> "blank"]

\* The words of a cell read as text; a date or a number is one numeric word.
Words(cell) ==
  CASE cell.kind = "blank" -> <<>>
    [] cell.kind = "text"  -> cell.words
    [] OTHER               -> <<CHOOSE n \in Numbers : TRUE>>

\* The amount a cell holds, as a set that is empty when it holds none.
\* Parentheses turn a positive amount negative and leave a negative one.
ParseAmount(cell) ==
  CASE cell.kind = "blank"  -> {0}
    [] cell.kind = "number" ->
         {IF cell.paren /\ cell.value > 0 THEN -cell.value ELSE cell.value}
    [] OTHER                -> {}

ParseDate(cell) == IF cell.kind = "date" THEN {cell.day} ELSE {}

\* Lower case, single spaces, and one number at the end taken off together
\* with a branch word before it.
NormalizeMerchant(words) ==
  LET lowered == [i \in DOMAIN words |-> Lower[words[i]]]
      EndsIn(s, W) == s # <<>> /\ Last(s) \in W
      bare == IF EndsIn(lowered, Numbers) THEN Front(lowered) ELSE lowered
  IN IF bare # lowered /\ EndsIn(bare, BranchWords) THEN Front(bare) ELSE bare

\* The category of a merchant: the rule the user saved for it, else the first
\* keyword rule that matches. The argument is normalised here once more.
Categorize(merchant, merchantRules) ==
  LET normalized == NormalizeMerchant(merchant)
      matching == {i \in DOMAIN KeywordRules :
                     \E w \in KeywordRules[i].keywords : Contains(normalized, w)}
  IN IF normalized \in DOMAIN merchantRules THEN merchantRules[normalized]
     ELSE IF matching # {} THEN KeywordRules[Min(matching)].category
     ELSE Unclassified

\* Mutant: the category is part of the key.
FingerprintWithCategory(tx) ==
  <<tx.date, tx.amount, tx.merchant, tx.source, tx.category>>

\* The key of a transaction, whose merchant is its normalised description: it
\* holds neither the category nor the type, so that a corrected category does
\* not make the same line a new transaction.
Fingerprint(tx) == <<tx.date, tx.amount, tx.merchant, tx.source>>

Abs(v) == IF v < 0 THEN -v ELSE v

ValueAt(record, index) ==
  IF index \in DOMAIN record THEN record[index] ELSE Blank

\* Type and amount of a record. With one amount column a negative amount is
\* income; with two columns the debit comes first, and both must be readable.
Money(record, at) ==
  IF at.amount # 0
  THEN {[type |-> IF v < 0 THEN "income" ELSE "expense", amount |-> Abs(v)] :
          v \in ParseAmount(ValueAt(record, at.amount))}
  ELSE {IF debit # 0 THEN [type |-> "expense", amount |-> Abs(debit)]
                     ELSE [type |-> "income", amount |-> Abs(credit)] :
          debit \in ParseAmount(ValueAt(record, at.debit)),
          credit \in ParseAmount(ValueAt(record, at.credit))}

\* The transactions of one record: one, or none when its date, description
\* or amount is unusable (the line becomes a warning).
NormalizeRecord(record, at, merchantRules, source) ==
  LET words == Words(ValueAt(record, at.description))
      merchant == NormalizeMerchant(words)
      Transaction(date, money) ==
        [date |-> date, merchant |-> merchant, type |-> money.type,
         amount |-> money.amount, category |-> Categorize(merchant, merchantRules),
         source |-> IF source = "" THEN "csv" ELSE Lower[source],
         fingerprint |-> <<>>]
  IN IF words = <<>> THEN {}
     ELSE {LET tx == Transaction(date, money)
           IN [tx EXCEPT !.fingerprint = Fingerprint(tx)] :
             date \in ParseDate(ValueAt(record, at.date)),
             money \in {m \in Money(record, at) : m.amount # 0}}

\* The first candidate that some header spells.
Detect(headers, candidates) ==
  LET Present(c) == Contains(headers, c)
      found == SelectSeq(candidates, Present)
  IN IF found = <<>> THEN NoColumn ELSE Head(found)

DetectColumns(headers) ==
  [role \in Roles |-> Detect(headers, ColumnCandidates[role])]

NeedsMapping(mapping) ==
  \/ mapping.date = NoColumn
  \/ mapping.description = NoColumn
  \/ \A role \in {"amount", "debit", "credit"} : mapping[role] = NoColumn

\* The position of each mapped header, 0 for a header the file lacks. A role
\* without a column is looked up all the same, under the empty name.
MappingIndexes(headers, mapping) ==
  [role \in Roles |-> SelectInSeq(headers, LAMBDA h : h = mapping[role])]

\* A file read with the columns the user chose: columns are detected when none
\* of the four listed roles was chosen. Fails on an empty file and on a mapping
\* that names headers the file lacks; asks for a mapping before that.
Parse(file, chosen, merchantRules) ==
  LET unchosen == \A role \in Roles \ {"credit"} : chosen[role] = NoColumn
      mapping == IF unchosen THEN DetectColumns(file.headers) ELSE chosen
      at == MappingIndexes(file.headers, mapping)
      unknown == at.date = 0 \/ at.description = 0
                 \/ (at.amount = 0 /\ at.debit = 0 /\ at.credit = 0)
      Row(record) ==
        SetToSeq(NormalizeRecord(record, at, merchantRules, file.source))
  IN [failed |-> file.headers = <<>> \/ (~NeedsMapping(mapping) /\ unknown),
      needsMapping |-> NeedsMapping(mapping),
      transactions |->
        IF NeedsMapping(mapping) \/ unknown THEN <<>>
        ELSE FlattenSeq([i \in DOMAIN file.records |-> Row(file.records[i])])]
=============================================================================
