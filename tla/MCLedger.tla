------------------------------ MODULE MCLedger ------------------------------
(* Small statements of two accounts for TLC. Amounts are in thousands of yen. *)
EXTENDS Ledger, Integers

Text(words) == [kind |-> "text", words |-> words]
Date(day) == [kind |-> "date", day |-> day]
Number(value) == [kind |-> "number", value |-> value, paren |-> FALSE]
Paren(value) == [kind |-> "number", value |-> value, paren |-> TRUE]

MCNumbers == {"12", "34"}
MCWords == MCNumbers \cup {"netflix", "NETFLIX", "shop", "SHOP", "bar", "branch", "rent",
                           "taxi", "card", "bank"}
MCLower == [w \in MCWords |-> CASE w = "NETFLIX" -> "netflix"
                                [] w = "SHOP"    -> "shop"
                                [] OTHER         -> w]
MCCandidates == [date |-> <<"date", "day">>, description |-> <<"merchant">>,
                 amount |-> <<"amount">>, debit |-> <<"debit">>, credit |-> <<"credit">>]
MCKeywordRules == <<[keywords |-> {"bar"}, category |-> "drinks"],
                    [keywords |-> {"netflix"}, category |-> "subscriptions"],
                    [keywords |-> {"taxi"}, category |-> "taxi"],
                    [keywords |-> {"bar", "shop"}, category |-> "other"]>>

MCCategories == {"drinks", "subscriptions", "taxi", "rent", "other", "unclassified"}

\* A card statement: the same subscription a month apart, a purchase in a
\* branch, a refund, a line without merchant and a line that is too short.
Card == [headers |-> <<"merchant", "date", "amount">>, source |-> "card",
         records |-> <<<<Text(<<"NETFLIX">>), Date(3), Number(2)>>,
                       <<Text(<<"netflix">>), Date(33), Number(2)>>,
                       <<Text(<<"shop", "branch", "12">>), Date(33), Number(4)>>,
                       <<Text(<<"shop", "branch", "34">>), Date(40), Paren(3)>>,
                       <<Blank, Date(41), Number(1)>>,
                       <<Text(<<"taxi">>), Date(41)>>>>]

\* The next statement of that card: a line of the last one, spelled otherwise,
\* and a line that looks like a duplicate of it but for the amount.
NextCard == [headers |-> <<"day", "merchant", "amount">>, source |-> "card",
             records |-> <<<<Date(33), Text(<<"SHOP", "12">>), Number(4)>>,
                           <<Date(34), Text(<<"bar", "shop">>), Number(5)>>,
                           <<Text(<<"bar">>), Text(<<"bar">>), Number(5)>>>>]

\* A bank statement with columns for debits and credits, and a column whose
\* name nobody expects.
Bank == [headers |-> <<"date", "memo", "debit", "credit">>, source |-> "",
         records |-> <<<<Date(33), Text(<<"rent">>), Number(6), Blank>>,
                       <<Date(34), Text(<<"taxi">>), Blank, Number(1)>>,
                       <<Date(35), Text(<<"taxi", "34">>), Number(-3), Number(2)>>,
                       <<Date(36), Text(<<"taxi">>), Blank, Blank>>>>]

MCFiles == {Card, NextCard, Bank}

Detected == [role \in Roles |-> NoColumn]
BankColumns == [Detected EXCEPT !.date = "date", !.description = "memo",
                                !.debit = "debit", !.credit = "credit"]
\* Columns detected, chosen rightly for the bank, and chosen by an unknown name.
MCMappings == {Detected, BankColumns, [BankColumns EXCEPT !.date = "posted"]}

MCProfiles == {[freeBudget |-> 17, reduce |-> <<"drinks", "taxi">>, strictness |-> "strict"],
               [freeBudget |-> 8, reduce |-> <<"other">>, strictness |-> "balanced"],
               [freeBudget |-> 0, reduce |-> <<>>, strictness |-> "balanced"],
               [freeBudget |-> 5, reduce |-> <<>>, strictness |-> "harsh"]}

MCMemorySets == {{}, {[regret |-> TRUE, mentions |-> {"taxi"}],
                      [regret |-> FALSE, mentions |-> {"drinks"}]}}
MCRegrets == <<[category |-> "drinks", actual |-> 4], [category |-> "drinks", actual |-> 5]>>
MCGap == 25..35
MCPrices == {-3, -2, 0, 1, 2, 3, 4, 5, 6, 9, 10}

\* A merchant whose description ends in two numbers.
Branches == [headers |-> <<"merchant", "date", "amount">>, source |-> "card",
             records |-> <<<<Text(<<"shop", "12", "34">>), Date(3), Number(2)>>>>]
BranchFiles == {Branches}

\* The statements above name no merchant by a fixed mark.
ASSUME MarksAssumption == NoMarks
=============================================================================
