---------------------------- MODULE ImportPreview ----------------------------
(***************************************************************************)
(* The two-step CSV import: previews kept in the memory of the API process *)
(* (Application.PreviewImport, CommitImport) and the row-by-row database   *)
(* transaction that registers one (Repository.ImportTransactions).         *)
(*                                                                         *)
(* A file is the sequence of the fingerprints of its lines.  Two open      *)
(* transactions meet at the unique index (user_id, fingerprint): an insert *)
(* waits for the transaction that inserted the same key and is still open. *)
(***************************************************************************)
EXTENDS Naturals, Sequences, FiniteSets

CONSTANTS
    Users,
    Files,        \* parsed uploads
    Lines,        \* Lines[f]: the fingerprints of file f, in file order
    PreviewIds,   \* bound: each is issued at most once (randomID)
    Commits,      \* POST /transactions/import/commit requests
    TTL,          \* lifetime of a preview, in ticks
    LastTick      \* bound of the clock

ASSUME TTLIsNatural == TTL \in Nat /\ LastTick \in Nat

LinesOf(f) == {Lines[f][i] : i \in 1 .. Len(Lines[f])}
Fingerprints == UNION {LinesOf(f) : f \in Files}

ASSUME LinesAreSequences == \A f \in Files : Lines[f] \in Seq(Fingerprints)

NoPreview == [owner |-> "none"]

VARIABLES
    clock,    \* s.now()
    cache,    \* s.previews: preview id -> cachedPreview
    rows,     \* transactions: <<user, fingerprint>> pairs, committed
    pc,       \* where each commit request is
    took,     \* the user and preview id a running or registered commit took
    tx,       \* the database transaction of each commit request
    issued,   \* history: previews answered to a client
    owed      \* history: those issued by the running process and not taken

vars == <<clock, cache, rows, pc, took, tx, issued, owed>>

Nothing == <<>>
NoTx == [todo |-> <<>>, mine |-> {}, imported |-> 0, duplicate |-> 0]

Previews == [owner : Users, file : Files, expiresAt : Nat]

Transactions == [todo : Seq(Fingerprints), mine : SUBSET Fingerprints,
                 imported : Nat, duplicate : Nat]

Registered(c) == pc[c] \in {"imported", "unknown"}
Holds(c)      == pc[c] = "importing" \/ Registered(c)

TypeOK ==
    /\ clock \in 0 .. LastTick
    /\ DOMAIN cache \subseteq PreviewIds
    /\ \A id \in DOMAIN cache : cache[id] \in Previews
    /\ rows \subseteq Users \X Fingerprints
    /\ pc \in [Commits -> {"idle", "importing", "imported", "unknown", "error"}]
    /\ DOMAIN took = Commits
    /\ \A c \in Commits : IF Holds(c) THEN took[c] \in Users \X PreviewIds
                                     ELSE took[c] = Nothing
    /\ tx \in [Commits -> Transactions]
    /\ DOMAIN issued \subseteq PreviewIds
    /\ \A id \in DOMAIN issued : issued[id] \in Previews
    /\ owed \subseteq DOMAIN issued

Init ==
    /\ clock = 0
    /\ cache = <<>>
    /\ rows = {}
    /\ pc = [c \in Commits |-> "idle"]
    /\ took = [c \in Commits |-> Nothing]
    /\ tx = [c \in Commits |-> NoTx]
    /\ issued = <<>>
    /\ owed = {}

-----------------------------------------------------------------------------
With(f, x, v)  == [y \in DOMAIN f \cup {x} |-> IF y = x THEN v ELSE f[y]]
Keep(f, S)     == [y \in DOMAIN f \cap S |-> f[y]]
Expired(entry) == clock > entry.expiresAt

(* cleanupPreviewsLocked with the entries about to expire removed as well. *)
SweptEarly(entries) ==
    Keep(entries, {id \in DOMAIN entries : clock < entries[id].expiresAt})

(* cleanupPreviewsLocked: expired entries of every user are dropped.       *)
Swept(entries) ==
    Keep(entries, {id \in DOMAIN entries : ~Expired(entries[id])})

(* PreviewImport of a file whose columns were recognised, the only case    *)
(* that stores a preview.  Reading the merchant rules and parsing come     *)
(* first and store nothing.                                                *)
PreviewImport(u, f, id) ==
    LET entry == [owner |-> u, file |-> f, expiresAt |-> clock + TTL] IN
    /\ id \notin DOMAIN issued
    /\ cache' = With(Swept(cache), id, entry)
    /\ issued' = With(issued, id, entry)
    /\ owed' = owed \cup {id}
    /\ UNCHANGED <<clock, rows, pc, took, tx>>

(* A commit that consumes the preview without looking at its owner.        *)
TakesAny(u, id) == id \in DOMAIN cache

(* The owner's entry is taken, expired or not; another user's is left.     *)
Takes(u, id) == id \in DOMAIN cache /\ cache[id].owner = u

(* CommitImport up to the database: under the lock the preview is looked   *)
(* up and consumed; only then is its expiry tested.                        *)
CommitImport(c, u, id) ==
    /\ pc[c] = "idle"
    /\ cache' = IF Takes(u, id) THEN Keep(cache, PreviewIds \ {id}) ELSE cache
    /\ owed' = IF id \in DOMAIN issued /\ issued[id].owner = u
               THEN owed \ {id} ELSE owed
    /\ IF Takes(u, id) /\ ~Expired(cache[id])
       THEN /\ pc' = [pc EXCEPT ![c] = "importing"]
            /\ took' = [took EXCEPT ![c] = <<u, id>>]
            /\ tx' = [tx EXCEPT ![c] = [NoTx EXCEPT !.todo = Lines[cache[id].file]]]
       ELSE /\ pc' = [pc EXCEPT ![c] = "error"]
            /\ UNCHANGED <<took, tx>>
    /\ UNCHANGED <<clock, rows, issued>>

-----------------------------------------------------------------------------
Open == {c \in Commits : pc[c] = "importing"}
UserOf(c) == took[c][1]

(* c's next insert meets a key that the open transaction of d inserted.    *)
WaitsFor(c, d) ==
    /\ {c, d} \subseteq Open /\ c # d
    /\ tx[c].todo # <<>>
    /\ UserOf(c) = UserOf(d)
    /\ Head(tx[c].todo) \in tx[d].mine

Blocked(c) == \E d \in Commits : WaitsFor(c, d)

(* Mutant: a line counts as imported unless its key was there before the   *)
(* transaction, whatever its insert did.                                   *)
InsertLineCountingBefore(c) ==
    LET line == Head(tx[c].todo)
        old == <<UserOf(c), line>> \in rows
    IN  /\ pc[c] = "importing"
        /\ tx[c].todo # <<>>
        /\ ~Blocked(c)
        /\ tx' = [tx EXCEPT ![c] =
              [todo      |-> Tail(tx[c].todo),
               mine      |-> IF old THEN tx[c].mine ELSE tx[c].mine \cup {line},
               imported  |-> tx[c].imported + (IF old THEN 0 ELSE 1),
               duplicate |-> tx[c].duplicate + (IF old THEN 1 ELSE 0)]]
        /\ UNCHANGED <<clock, cache, rows, pc, took, issued, owed>>

(* Mutant: a line repeated within the file is not counted as a duplicate.  *)
InsertLineIgnoringRepeats(c) ==
    LET line == Head(tx[c].todo)
        old == <<UserOf(c), line>> \in rows
        fresh == ~old /\ line \notin tx[c].mine
    IN  /\ pc[c] = "importing"
        /\ tx[c].todo # <<>>
        /\ ~Blocked(c)
        /\ tx' = [tx EXCEPT ![c] =
              [todo      |-> Tail(tx[c].todo),
               mine      |-> IF fresh THEN tx[c].mine \cup {line} ELSE tx[c].mine,
               imported  |-> tx[c].imported + (IF fresh THEN 1 ELSE 0),
               duplicate |-> tx[c].duplicate + (IF old THEN 1 ELSE 0)]]
        /\ UNCHANGED <<clock, cache, rows, pc, took, issued, owed>>

(* INSERT ... ON CONFLICT (user_id, fingerprint) DO NOTHING for one line.  *)
InsertLine(c) ==
    LET line == Head(tx[c].todo)
        fresh == <<UserOf(c), line>> \notin rows /\ line \notin tx[c].mine
    IN  /\ pc[c] = "importing"
        /\ tx[c].todo # <<>>
        /\ ~Blocked(c)
        /\ tx' = [tx EXCEPT ![c] =
              [todo      |-> Tail(tx[c].todo),
               mine      |-> IF fresh THEN tx[c].mine \cup {line} ELSE tx[c].mine,
               imported  |-> tx[c].imported + (IF fresh THEN 1 ELSE 0),
               duplicate |-> tx[c].duplicate + (IF fresh THEN 0 ELSE 1)]]
        /\ UNCHANGED <<clock, cache, rows, pc, took, issued, owed>>

Ends(c, state) == pc' = [pc EXCEPT ![c] = state]

(* tx.Commit; with the reply lost the rows are in and the client is told   *)
(* of an error.                                                            *)
CommitTx(c, reply) ==
    /\ pc[c] = "importing"
    /\ tx[c].todo = <<>>
    /\ rows' = rows \cup ({UserOf(c)} \X tx[c].mine)
    /\ Ends(c, IF reply = "ok" THEN "imported" ELSE "unknown")
    /\ tx' = [tx EXCEPT ![c].mine = {}]
    /\ UNCHANGED <<clock, cache, took, issued, owed>>

(* An insert fails after rows of the file were committed one by one.       *)
AbortTxKeepingRows(c) ==
    /\ pc[c] = "importing"
    /\ rows' = rows \cup ({UserOf(c)} \X tx[c].mine)
    /\ Ends(c, "error")
    /\ took' = [took EXCEPT ![c] = Nothing]
    /\ tx' = [tx EXCEPT ![c] = NoTx]
    /\ UNCHANGED <<clock, cache, issued, owed>>

(* Mutant: the import starts again after any failure.                      *)
AbortTxRetrying(c) ==
    /\ pc[c] = "importing"
    /\ tx' = [tx EXCEPT ![c] = [NoTx EXCEPT !.todo = Lines[issued[took[c][2]].file]]]
    /\ UNCHANGED <<clock, cache, rows, pc, took, issued, owed>>

(* A statement or the commit fails: the deferred rollback undoes all lines. *)
(* The preview stays consumed.                                             *)
AbortTx(c) ==
    /\ pc[c] = "importing"
    /\ Ends(c, "error")
    /\ took' = [took EXCEPT ![c] = Nothing]
    /\ tx' = [tx EXCEPT ![c] = NoTx]
    /\ UNCHANGED <<clock, cache, rows, issued, owed>>

Deadlocked(c) ==
    \E S \in SUBSET Open : c \in S /\ \A x \in S : \E y \in S : WaitsFor(x, y)

(* The database aborts one transaction of a cycle of waiting inserts.      *)
ResolveDeadlock(c) == Deadlocked(c) /\ AbortTx(c)

-----------------------------------------------------------------------------
Tick ==
    /\ clock < LastTick
    /\ clock' = clock + 1
    /\ UNCHANGED <<cache, rows, pc, took, tx, issued, owed>>

(* A new API process replaces the running one, whose previews are gone.    *)
(* The requests still running in the old process finish there (Shutdown    *)
(* waits 5 seconds) or die with it; the database rolls back the            *)
(* transactions of those that die.                                         *)
Restart(victims) ==
    /\ cache' = <<>>
    /\ owed' = {}
    /\ pc' = [c \in Commits |-> IF c \in victims THEN "error" ELSE pc[c]]
    /\ took' = [c \in Commits |-> IF c \in victims THEN Nothing ELSE took[c]]
    /\ tx' = [c \in Commits |-> IF c \in victims THEN NoTx ELSE tx[c]]
    /\ UNCHANGED <<clock, rows, issued>>

Proceed(c) ==
    \/ InsertLine(c)
    \/ \E reply \in {"ok", "lost"} : CommitTx(c, reply)
    \/ ResolveDeadlock(c)

Next ==
    \/ \E u \in Users, f \in Files, id \in PreviewIds : PreviewImport(u, f, id)
    \/ \E c \in Commits, u \in Users, id \in DOMAIN issued : CommitImport(c, u, id)
    \/ \E c \in Commits : Proceed(c)
    \/ \E c \in Commits : AbortTx(c)
    \/ Tick
    \/ \E victims \in SUBSET Open : Restart(victims)

Spec == Init /\ [][Next]_vars

(* The handler goes on to its next statement, and the database looks for   *)
(* deadlocks.                                                              *)
FairSpec == Spec /\ \A c \in Commits : WF_vars(Proceed(c))

-----------------------------------------------------------------------------
(* The rows the answers to the registered commits of user u told of: the   *)
(* first, second, ... row that commit c imported.                          *)
Told(u) ==
    UNION {{c} \X (1 .. tx[c].imported)
             : c \in {d \in Commits : Registered(d) /\ UserOf(d) = u}}

(* The counts told to the user are exact: the rows of a user are as many   *)
(* as the imported counts of the user's registered commits add up to, also *)
(* when files overlap and their transactions run side by side.             *)
CountsExact ==
    \A u \in Users :
        Cardinality({row \in rows : row[1] = u}) = Cardinality(Told(u))

(* A preview is registered for the user it was issued to and by at most    *)
(* one commit request, however often requests are repeated and whoever     *)
(* else names its id.                                                      *)
RegisteredOnce ==
    \A c \in Commits : Holds(c) =>
        /\ issued[took[c][2]].owner = UserOf(c)
        /\ \A d \in Commits : Holds(d) /\ took[c][2] = took[d][2] => c = d

(* All or nothing: every committed row of a user belongs to a file of that *)
(* user whose lines are all committed.                                     *)
WholeFiles ==
    \A row \in rows : \E c \in Commits :
        LET preview == issued[took[c][2]]
            lines == LinesOf(preview.file)
        IN  /\ Registered(c)
            /\ preview.owner = row[1]
            /\ row[2] \in lines
            /\ {row[1]} \X lines \subseteq rows

(* An issued preview can be committed by its owner until it expires:       *)
(* neither another user's commit nor the sweep of another preview takes    *)
(* it, only a restart does.                                                *)
OwedIsCached ==
    \A id \in owed : ~Expired(issued[id]) => id \in DOMAIN cache /\ cache[id] = issued[id]

(* Every commit that reached the database is answered, also when two files *)
(* of a user list the same lines in different orders and block each other. *)
CommitsEnd == \A c \in Commits : pc[c] = "importing" ~> pc[c] # "importing"

(* The registered commit that took preview id.                             *)
CommitOf(id) == CHOOSE c \in Commits : Registered(c) /\ took[c][2] = id

Answers ==
    [id \in {took[c][2] : c \in {d \in Commits : Registered(d)}} |->
        [imported  |-> tx[CommitOf(id)].imported,
         duplicate |-> tx[CommitOf(id)].duplicate]]

Atomic == INSTANCE AtomicImport WITH
    previews <- [id \in DOMAIN issued |->
                   [owner |-> issued[id].owner, file |-> issued[id].file]],
    answers  <- Answers

(* The import is as if every registered preview had been registered in one *)
(* step, at the commit of its transaction: both counts it answers are the  *)
(* ones of that step, whatever ran beside it line by line, and no failed   *)
(* statement, timeout, deadlock or restart leaves a step half done.        *)
ImplementsAtomicImport == Atomic!Spec
=============================================================================
