----------------------------- MODULE AtomicImport -----------------------------
(***************************************************************************)
(* What the CSV import promises, without a cache, requests in flight or    *)
(* transactions: a preview fixes a user and a file; registering it is one  *)
(* step that adds the lines the user does not have yet and answers how     *)
(* many were added and how many were there; it happens at most once.       *)
(***************************************************************************)
EXTENDS Naturals, Sequences, FiniteSets

CONSTANTS Users, Files, Lines, PreviewIds

VARIABLES
    previews,  \* preview id -> its owner and file
    rows,      \* <<user, fingerprint>> pairs
    answers    \* preview id -> the counts its registration answered

vars == <<previews, rows, answers>>

RowsOfFile(u, f) == {<<u, Lines[f][i]>> : i \in 1 .. Len(Lines[f])}

Init ==
    /\ previews = <<>>
    /\ rows = {}
    /\ answers = <<>>

Issue(id, u, f) ==
    /\ id \notin DOMAIN previews
    /\ previews' = [x \in DOMAIN previews \cup {id} |->
                      IF x = id THEN [owner |-> u, file |-> f] ELSE previews[x]]
    /\ UNCHANGED <<rows, answers>>

(* The counts a registration made now answers.                             *)
Answer(u, f) ==
    LET added == Cardinality(RowsOfFile(u, f) \ rows)
    IN  [imported |-> added, duplicate |-> Len(Lines[f]) - added]

Register(id) ==
    LET u == previews[id].owner
        f == previews[id].file
    IN  /\ id \in DOMAIN previews \ DOMAIN answers
        /\ rows' = rows \cup RowsOfFile(u, f)
        /\ answers' = [x \in DOMAIN answers \cup {id} |->
                         IF x = id THEN Answer(u, f) ELSE answers[x]]
        /\ UNCHANGED previews

Next ==
    \E id \in PreviewIds :
        \/ \E u \in Users, f \in Files : Issue(id, u, f)
        \/ Register(id)

Spec == Init /\ [][Next]_vars
=============================================================================
