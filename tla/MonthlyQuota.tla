----------------------------- MODULE MonthlyQuota -----------------------------
(***************************************************************************)
(* What the quota promises, without counters, requests in flight or a      *)
(* database: every month has a set of slots taken by consultations, and a  *)
(* consultation is entitled to the external model when its slot was one of *)
(* the first "limit" of the month at the moment it was taken.              *)
(***************************************************************************)
EXTENDS Naturals, FiniteSets

CONSTANTS Consultations, Limits, Months

VARIABLES
    taken,     \* taken[m]: consultations holding a slot of month m
    entitled   \* those that may be answered by the external model

vars == <<taken, entitled>>

Init ==
    /\ taken = [m \in Months |-> {}]
    /\ entitled = {}

Holders == UNION {taken[m] : m \in Months}

(* A slot is taken while the limit is l; within it, the slot entitles.     *)
Take(c, m, l) ==
    /\ c \notin Holders
    /\ taken' = [taken EXCEPT ![m] = @ \cup {c}]
    /\ entitled' = IF Cardinality(taken[m]) < l THEN entitled \cup {c} ELSE entitled

(* A consultation that was not saved returns its slot.                     *)
GiveBack(c, m) ==
    /\ c \in taken[m]
    /\ taken' = [taken EXCEPT ![m] = @ \ {c}]
    /\ entitled' = entitled \ {c}

Next ==
    \E c \in Consultations, m \in Months :
        \/ \E l \in Limits : Take(c, m, l)
        \/ GiveBack(c, m)

Spec == Init /\ [][Next]_vars
=============================================================================
