------------------------------ MODULE LoginGate ------------------------------
(***************************************************************************)
(* POST /auth/login: the attempt counters shared through the database      *)
(* (Repository.AllowLogin), the slots of the password check, and the       *)
(* session row created from a credential read earlier (CreateSession),     *)
(* while an administrator changes the account.                             *)
(*                                                                         *)
(* One account is modelled, tried from several addresses.  AllowLogin is a *)
(* transaction of several statements: a row it changed stays locked until  *)
(* the transaction ends, and its CURRENT_TIMESTAMP is the time it began.   *)
(***************************************************************************)
EXTENDS Naturals, FiniteSets, Functions

CONSTANTS
    Attempts,    \* login requests (bound)
    Ips,         \* client addresses
    IpLimit,     \* 20 in the code
    NameLimit,   \* 5 in the code
    Slots,       \* 4 in the code
    Window,      \* a minute, in ticks; a transaction takes less than one
    LastTick,    \* bound of the clock
    LastHash,    \* bound: password changes of the run
    LastPeriod,  \* bound: disablings of the account in the run
    Faults       \* a subset of {"db"}: statements may fail

ASSUME LimitsPositive == {IpLimit, NameLimit, Slots} \subseteq Nat \ {0}
ASSUME WindowOfTicks == Window \in Nat \ {0, 1}
ASSUME BoundsAreNaturals == {LastTick, LastHash, LastPeriod} \subseteq Nat
ASSUME AttemptsFinite == IsFiniteSet(Attempts)

Name == "name"    \* the key of the account, beside those of the addresses
Keys == Ips \cup {Name}

ASSUME NameIsNoAddress == Name \notin Ips    \* the digests of "user:" and "ip:"

VARIABLES
    clock,
    rows,       \* auth_attempts, committed: key -> [attempts, end]
    change,     \* change[a]: what the open transaction of a did, by key
    victims,    \* expired rows the DELETE of a has still to lock
    stamp,      \* CURRENT_TIMESTAMP of a's transaction
    from,       \* the address of a
    counts,     \* the rows a's upserts left, by key; their attempts are returned
    pc,
    slots,      \* slots in use: the fill of Service.slots
    account,    \* the users row: is_active and password_hash
    period,     \* history: the period of activity of the account, the last one
                \* while it is disabled
    read,       \* the account a verified its password against
    sessions,   \* auth_sessions: attempt -> its row
    pending     \* session rows inserted and not committed yet

gate    == <<rows, change, victims, stamp, from, counts>>
session == <<account, period, read, sessions, pending>>
vars    == <<clock, gate, pc, slots, session>>

Gone == [attempts |-> 0, end |-> 0]
Row  == [attempts : Nat, end : Nat]
User == [active : BOOLEAN, hash : 0 .. LastHash]

(* password_hash of a session, and its history: the period it was inserted *)
(* in, and whether a disabling came between its insert and its commit.     *)
Session == [hash : 0 .. LastHash, since : 0 .. LastPeriod, overtaken : BOOLEAN]

Answers == {"limited",      \* 429
            "denied",       \* 401
            "unavailable",  \* 503
            "in"}           \* 200
InGate == {"sweeping", "counting", "counted"}
InSlot == {"looking", "creating", "inserted"}

GateType ==
    /\ clock \in 0 .. LastTick
    /\ DOMAIN rows \subseteq Keys /\ \A k \in DOMAIN rows : rows[k] \in Row \ {Gone}
    /\ DOMAIN change = Attempts /\ DOMAIN counts = Attempts
    /\ \A a \in Attempts :
          /\ DOMAIN change[a] \subseteq Keys
          /\ \A k \in DOMAIN change[a] : change[a][k] \in Row
          /\ DOMAIN counts[a] \subseteq Keys
          /\ \A k \in DOMAIN counts[a] : counts[a][k] \in Row \ {Gone}
    /\ victims \in [Attempts -> SUBSET Keys]
    /\ stamp \in [Attempts -> 0 .. LastTick]
    /\ from \in [Attempts -> Ips]
    /\ pc \in [Attempts -> {"idle", "allowed"} \cup InGate \cup InSlot \cup Answers]

SessionType ==
    /\ account \in User
    /\ period \in 0 .. LastPeriod /\ (~account.active => period < LastPeriod)
    /\ read \in [Attempts -> User]
    /\ DOMAIN sessions \subseteq Attempts
    /\ \A a \in DOMAIN sessions : sessions[a] \in Session
    /\ DOMAIN pending = {a \in Attempts : pc[a] = "inserted"}
    /\ \A a \in DOMAIN pending : pending[a] \in Session

TypeOK == GateType /\ SessionType /\ slots \in 0 .. Slots

Init ==
    /\ clock = 0
    /\ rows = <<>>
    /\ change = [a \in Attempts |-> <<>>]
    /\ victims = [a \in Attempts |-> {}]
    /\ stamp = [a \in Attempts |-> 0]
    /\ from \in [Attempts -> Ips]
    /\ counts = [a \in Attempts |-> <<>>]
    /\ pc = [a \in Attempts |-> "idle"]
    /\ slots = 0
    /\ account = [active |-> TRUE, hash |-> 0]
    /\ period = 0
    /\ read = [a \in Attempts |-> account]
    /\ sessions = <<>>
    /\ pending = <<>>

-----------------------------------------------------------------------------
Goto(a, step) == pc' = [pc EXCEPT ![a] = step]
With(f, x, v) == [y \in DOMAIN f \cup {x} |-> IF y = x THEN v ELSE f[y]]

LockedByOther(a, k) == \E b \in Attempts \ {a} : k \in DOMAIN change[b]

\* No DELETE at all.
OverNever(row, now) == FALSE

\* A DELETE without its condition.
OverAlways(row, now) == TRUE

Over(row, now) == row.end <= now

(* The transaction begins with the DELETE of the rows that are over.       *)
BeginAllow(a) ==
    /\ pc[a] = "idle"
    /\ Goto(a, "sweeping")
    /\ stamp' = [stamp EXCEPT ![a] = clock]
    /\ victims' = [victims EXCEPT ![a] = {k \in DOMAIN rows : Over(rows[k], clock)}]
    /\ UNCHANGED <<clock, rows, change, from, counts, slots, session>>

(* The DELETE locks its rows one by one, in an order of the database's     *)
(* choice, and looks at each again once it holds it.                       *)
Sweep(a, k) ==
    /\ pc[a] = "sweeping"
    /\ k \in victims[a]
    /\ ~LockedByOther(a, k)
    /\ victims' = [victims EXCEPT ![a] = @ \ {k}]
    /\ change' = IF k \in DOMAIN rows /\ Over(rows[k], stamp[a])
                 THEN [change EXCEPT ![a] = With(@, k, Gone)]
                 ELSE change
    /\ UNCHANGED <<clock, rows, stamp, from, counts, pc, slots, session>>

EndSweep(a) ==
    /\ pc[a] = "sweeping"
    /\ victims[a] = {}
    /\ Goto(a, "counting")
    /\ UNCHANGED <<clock, gate, slots, session>>

Seen(a, k) == IF k \in DOMAIN change[a] THEN change[a][k]
              ELSE IF k \in DOMAIN rows THEN rows[k] ELSE Gone

(* The row after one attempt more: the window of an existing row stays.    *)
Counted(row, now) ==
    IF row = Gone THEN [attempts |-> 1, end |-> now + Window]
                  ELSE [row EXCEPT !.attempts = @ + 1]

NextKey(a) == IF from[a] \in DOMAIN counts[a] THEN Name ELSE from[a]

(* The upsert of one key, the address first.                               *)
Count(a) ==
    LET k   == NextKey(a)
        row == Counted(Seen(a, k), stamp[a]) IN
    /\ pc[a] = "counting"
    /\ ~LockedByOther(a, k)
    /\ change' = [change EXCEPT ![a] = With(@, k, row)]
    /\ counts' = [counts EXCEPT ![a] = With(@, k, row)]
    /\ Goto(a, IF k = Name THEN "counted" ELSE "counting")
    /\ UNCHANGED <<clock, rows, victims, stamp, from, slots, session>>

Limit(k) == IF k = Name THEN NameLimit ELSE IpLimit

Allowed(a) == \A k \in {from[a], Name} : counts[a][k].attempts <= Limit(k)

(* The committed rows once the changes of a transaction are in.            *)
After(old, done) ==
    LET all == DOMAIN old \cup DOMAIN done
        now(k) == IF k \in DOMAIN done THEN done[k] ELSE old[k]
    IN  [k \in {x \in all : now(x) # Gone} |-> now(k)]

(* The commit makes the counts visible, refused attempts included.         *)
CommitAllow(a, reply) ==
    /\ pc[a] = "counted"
    /\ ~reply => "db" \in Faults
    /\ rows' = After(rows, change[a])
    /\ change' = [change EXCEPT ![a] = <<>>]
    /\ Goto(a, IF ~reply THEN "unavailable"
               ELSE IF Allowed(a) THEN "allowed" ELSE "limited")
    /\ UNCHANGED <<clock, victims, stamp, from, counts, slots, session>>

(* The rollback takes back what the transaction counted.                   *)
AbortAllow(a) ==
    /\ pc[a] \in InGate
    /\ change' = [change EXCEPT ![a] = <<>>]
    /\ victims' = [victims EXCEPT ![a] = {}]
    /\ counts' = [counts EXCEPT ![a] = <<>>]
    /\ Goto(a, "unavailable")
    /\ UNCHANGED <<clock, rows, stamp, from, slots, session>>

WaitsFor(a, b) ==
    /\ a # b
    /\ \/ pc[a] = "sweeping" /\ victims[a] \cap DOMAIN change[b] # {}
       \/ pc[a] = "counting" /\ NextKey(a) \in DOMAIN change[b]

Deadlocked(a) ==
    \E S \in SUBSET Attempts : a \in S /\ \A x \in S : \E y \in S : WaitsFor(x, y)

(* The database aborts one transaction of a cycle of waiting ones.         *)
ResolveDeadlock(a) == Deadlocked(a) /\ AbortAllow(a)

LoseAllow(a) == "db" \in Faults /\ AbortAllow(a)

-----------------------------------------------------------------------------
(* The select on the slots channel: a full channel answers 429 at once.    *)
TakeSlot(a) ==
    /\ pc[a] = "allowed"
    /\ IF slots < Slots
       THEN Goto(a, "looking") /\ slots' = slots + 1
       ELSE Goto(a, "limited") /\ UNCHANGED slots
    /\ UNCHANGED <<clock, gate, session>>

(* An early return before the slot's release is deferred.                  *)
LeaveKeeping(a, answer) == Goto(a, answer) /\ UNCHANGED slots

(* Every return after that gives the slot back.                            *)
Leave(a, answer) == Goto(a, answer) /\ slots' = slots - 1

(* FindUser and VerifyPassword: the credential as it is now, checked with   *)
(* the password; a disabled account is refused after the same work.        *)
Verify(a, right) ==
    /\ pc[a] = "looking"
    /\ IF right /\ account.active
       THEN Goto(a, "creating") /\ read' = [read EXCEPT ![a] = account] /\ UNCHANGED slots
       ELSE Leave(a, "denied") /\ UNCHANGED read
    /\ UNCHANGED <<clock, gate, account, period, sessions, pending>>

LoseUser(a) ==
    /\ pc[a] = "looking"
    /\ "db" \in Faults
    /\ Leave(a, "unavailable")
    /\ UNCHANGED <<clock, gate, session>>

\* Only the hash is compared: a disabling since the read goes unnoticed.
CredentialHash(user) == account.hash = user.hash

\* The condition of the INSERT: the credential is still the one that was read.
Credential(user) == account.active /\ account.hash = user.hash

(* CreateSession: the INSERT copies the hash of the users row.             *)
InsertSession(a) ==
    /\ pc[a] = "creating"
    /\ IF Credential(read[a])
       THEN /\ pending' = With(pending, a, [hash |-> account.hash, since |-> period, overtaken |-> FALSE])
            /\ Goto(a, "inserted")
            /\ UNCHANGED slots
       ELSE Leave(a, "unavailable") /\ UNCHANGED pending
    /\ UNCHANGED <<clock, gate, account, period, read, sessions>>

(* The commit, or its failure: with the reply lost the row is in.          *)
CommitSession(a, effect, reply) ==
    /\ pc[a] = "inserted"
    /\ ~(effect /\ reply) => "db" \in Faults
    /\ reply => effect
    /\ sessions' = IF effect THEN With(sessions, a, pending[a]) ELSE sessions
    /\ pending' = Restrict(pending, DOMAIN pending \ {a})
    /\ Leave(a, IF reply THEN "in" ELSE "unavailable")
    /\ UNCHANGED <<clock, gate, account, period, read>>

-----------------------------------------------------------------------------
(* What Wrap's ResolveSession accepts.                                     *)
Usable(a) ==
    a \in DOMAIN sessions /\ account.active /\ sessions[a].hash = account.hash

(* POST /auth/logout deletes the row of the resolved session.              *)
Logout(a) ==
    /\ Usable(a)
    /\ sessions' = Restrict(sessions, DOMAIN sessions \ {a})
    /\ UNCHANGED <<clock, gate, pc, slots, account, period, read, pending>>

(* The administrator's transaction: the account is disabled and its        *)
(* sessions, as far as they are committed, are deleted.  An insert holds   *)
(* the users row for its key only, so the transaction does not wait for it.*)
Disable ==
    /\ account.active
    /\ period < LastPeriod
    /\ account' = [account EXCEPT !.active = FALSE]
    /\ sessions' = <<>>
    /\ pending' = [a \in DOMAIN pending |-> [pending[a] EXCEPT !.overtaken = TRUE]]
    /\ UNCHANGED <<clock, gate, pc, slots, period, read>>

Enable ==
    /\ ~account.active
    /\ account' = [account EXCEPT !.active = TRUE]
    /\ period' = period + 1
    /\ UNCHANGED <<clock, gate, pc, slots, read, sessions, pending>>

ChangePassword ==
    /\ account.hash < LastHash
    /\ account' = [account EXCEPT !.hash = @ + 1]
    /\ UNCHANGED <<clock, gate, pc, slots, period, read, sessions, pending>>

(* Time passes; a transaction is assumed to end within a tick of its begin.*)
Tick ==
    /\ clock < LastTick
    /\ \A a \in Attempts : pc[a] \in InGate => stamp[a] = clock
    /\ clock' = clock + 1
    /\ UNCHANGED <<gate, pc, slots, session>>

Proceed(a) ==
    \/ \E k \in Keys : Sweep(a, k)
    \/ EndSweep(a)
    \/ Count(a)
    \/ CommitAllow(a, TRUE)
    \/ ResolveDeadlock(a)
    \/ TakeSlot(a)
    \/ \E right \in BOOLEAN : Verify(a, right)
    \/ InsertSession(a)
    \/ CommitSession(a, TRUE, TRUE)

Fail(a) ==
    \/ LoseAllow(a)
    \/ CommitAllow(a, FALSE)
    \/ LoseUser(a)
    \/ \E effect \in BOOLEAN : CommitSession(a, effect, FALSE)

Next ==
    \/ \E a \in Attempts : BeginAllow(a) \/ Proceed(a) \/ Fail(a)
    \/ \E a \in Attempts : Logout(a)
    \/ Disable
    \/ Enable
    \/ ChangePassword
    \/ Tick

Spec == Init /\ [][Next]_vars

-----------------------------------------------------------------------------
(* a was counted under k, within the limit of k.                           *)
Within(a, k) == k \in DOMAIN counts[a] /\ counts[a][k].attempts <= Limit(k)

(* What fixed windows really guarantee: however attempts and the sweep of  *)
(* old rows interleave, at most twice the limit of attempts of a key is    *)
(* let through in a span shorter than a window by one transaction.  In a   *)
(* whole window it may be three times: a transaction that began before the *)
(* end of a window opens the next one early when another, of other keys,   *)
(* sweeps the row in between.                                              *)
TwiceTheLimit ==
    \A k \in Keys, t \in 0 .. LastTick :
        Cardinality({a \in Attempts : Within(a, k) /\ stamp[a] \in t .. t + Window - 2})
            <= 2 * Limit(k)

(* Refused attempts do not prolong the refusal: behind every refused       *)
(* attempt are a limit's worth of admitted ones from the last window (and  *)
(* a tick, for transactions that overlapped).                              *)
RefusedAfterLimit ==
    \A a \in Attempts, k \in Keys :
        k \in DOMAIN counts[a] /\ pc[a] = "limited" /\ ~Within(a, k)
        => Cardinality({b \in Attempts : Within(b, k) /\ stamp[b] + Window >= stamp[a]})
             >= Limit(k)

(* A slot of the password check is in use exactly while a login is between *)
(* its check and its return: no early return keeps one.                    *)
SlotsReturned == slots = Cardinality({a \in Attempts : pc[a] \in InSlot})

(* A session that is accepted now comes from a login that verified the     *)
(* password the account has now, and was inserted in the present period of *)
(* activity: neither a change of the password nor a disabling between the  *)
(* read of the credential and the insert leaves a session that can be used *)
(* later, and a disabling deletes those before it.  The exception is the   *)
(* row whose commit a disabling overtook, which it could not see.          *)
UsableWasVerified ==
    \A a \in Attempts : Usable(a) =>
        /\ read[a].hash = account.hash
        /\ sessions[a].since = period \/ sessions[a].overtaken
=============================================================================
