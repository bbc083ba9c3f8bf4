---------------------------- MODULE MobileSession ----------------------------
(***************************************************************************)
(* The session of the mobile app: the session held in memory, the copy in  *)
(* the device's secure storage, the queue that orders its writes and       *)
(* deletes, and the login view model that feeds it.  An action is what the *)
(* app does between two awaits, together with the reply that resumes it.   *)
(*                                                                         *)
(* A login attempt stands for the token the server issues to it.           *)
(***************************************************************************)
EXTENDS Naturals, Sequences, FiniteSets

CONSTANTS
    Logins,  \* login attempts (bound: each is made once)
    Faults   \* what may go wrong

AllFaults == {"expiry",   \* sessions reach their absolute end
              "late",     \* the expiry timer fires late: the clock it runs on
                          \* stops while the device sleeps
              "network",  \* a call is not answered, or not executed
              "storage",  \* the secure storage throws
              "revoked",  \* the server ends a session (disable, password)
              "death"}    \* the app process is killed

None == "none"

ASSUME LoginsFinite == IsFiniteSet(Logins) /\ None \notin Logins
ASSUME FaultsKnown  == Faults \subseteq AllFaults

VARIABLES
    session,      \* SessionController._session
    timer,        \* _expiryTimer: the session it will clear
    generation,   \* bumped at each change of session
    initialized,
    queue,        \* _storageQueue: operations not finished yet
    stored,       \* content of the secure storage
    pc,           \* where LoginViewModel.dispatch is, by attempt
    startedIn,    \* the generation an attempt captured
    leaving,      \* tokens whose POST /auth/logout by logout() is in flight
    valid,        \* server: auth_sessions
    expired,      \* sessions past expiresAt
    cleared,      \* history: sessions clearIfCurrent dropped
    abandoned     \* history: tokens the server may keep because a call or the
                  \* process failed

controller == <<session, timer, generation, initialized, queue>>
login      == <<pc, startedIn>>
world      == <<stored, valid, expired>>
history    == <<cleared, abandoned>>
vars       == <<controller, login, leaving, world, history>>

Holding == Logins \cup {None}
Operations == [kind : {"write"}, login : Logins] \cup [kind : {"delete"}]
Running == {"sent", "storing", "unsaving", "revoking"}

TypeOK ==
    /\ session \in Holding
    /\ timer \in Holding
    /\ generation \in Nat
    /\ initialized \in BOOLEAN
    /\ queue \in Seq(Operations)
    /\ stored \in Holding
    /\ pc \in [Logins -> Running \cup {"idle", "active", "over"}]
    /\ startedIn \in [Logins -> Nat]
    /\ leaving \subseteq Logins /\ valid \subseteq Logins /\ expired \subseteq Logins
    /\ cleared \subseteq Logins /\ abandoned \subseteq Logins

Init ==
    /\ session = None
    /\ timer = None
    /\ generation = 0
    /\ initialized = FALSE
    /\ queue = <<>>
    /\ stored = None
    /\ pc = [l \in Logins |-> "idle"]
    /\ startedIn = [l \in Logins |-> 0]
    /\ leaving = {}
    /\ valid = {}
    /\ expired = {}
    /\ cleared = {}
    /\ abandoned = {}

-----------------------------------------------------------------------------
Alive(l) == l # None /\ l \notin expired
LoggedIn == Alive(session)
Goto(l, state) == pc' = [pc EXCEPT ![l] = state]

\* A queue that keeps the newest operation only.
EnqueueNewest(operation) == queue' = <<operation>>

Enqueue(operation) == queue' = Append(queue, operation)

(* initialize: the stored session is restored if it is still alive and     *)
(* deleted otherwise; a storage error leaves the app logged out.           *)
Initialize ==
    /\ ~initialized
    /\ initialized' = TRUE
    /\ \/ /\ Alive(stored)
          /\ session' = stored
          /\ timer' = stored
          /\ UNCHANGED <<stored, abandoned>>
       \/ /\ ~Alive(stored)
          /\ stored' = None
          /\ UNCHANGED <<session, timer, abandoned>>
       \/ /\ "storage" \in Faults
          /\ abandoned' = abandoned \cup ({stored} \ {None})
          /\ UNCHANGED <<session, timer, stored>>
    /\ UNCHANGED <<generation, queue, login, leaving, valid, expired, cleared>>

(* A clear that does not compare the token with the current session.       *)
ClearUnchecked(l) ==
    /\ session' = None
    /\ timer' = None
    /\ generation' = generation + 1
    /\ Enqueue([kind |-> "delete"])
    /\ cleared' = IF session = None THEN cleared ELSE cleared \cup {session}
    /\ UNCHANGED initialized

(* A clear that leaves the session in the device's storage.                *)
ClearMemoryOnly(l) ==
    IF session # l
    THEN UNCHANGED <<controller, cleared>>
    ELSE /\ session' = None
         /\ timer' = None
         /\ generation' = generation + 1
         /\ cleared' = cleared \cup {l}
         /\ UNCHANGED <<initialized, queue>>

(* clearIfCurrent: only the session that holds the rejected token is       *)
(* dropped, from memory at once and from storage in the queue's turn.      *)
ClearIfCurrent(l) ==
    IF session # l
    THEN UNCHANGED <<controller, cleared>>
    ELSE /\ session' = None
         /\ timer' = None
         /\ generation' = generation + 1
         /\ Enqueue([kind |-> "delete"])
         /\ cleared' = cleared \cup {l}
         /\ UNCHANGED initialized

(* POST /auth/logout with token l.  A token the server does not know is    *)
(* answered 401, which counts as done.                                     *)
Replies == {"done"} \cup (IF "network" \in Faults THEN {"failed", "lost"} ELSE {})

PostLogout(l, reply) == valid' = IF reply = "failed" THEN valid ELSE valid \ {l}

Unrevoked(l, reply) == IF reply = "failed" /\ l \in valid
                       THEN abandoned \cup {l} ELSE abandoned

-----------------------------------------------------------------------------
(* The view model of the running generation is at work.                    *)
Busy == \E l \in Logins : pc[l] \in Running /\ startedIn[l] = generation

(* dispatch(SubmitLogin): the login page is shown without a live session.  *)
(* The view model lives as long as its generation, and refuses a second    *)
(* submission while it is busy.                                            *)
Submit(l) ==
    /\ pc[l] = "idle"
    /\ initialized
    /\ ~LoggedIn
    /\ session = None \/ "late" \in Faults
    /\ ~Busy
    /\ Goto(l, "sent")
    /\ startedIn' = [startedIn EXCEPT ![l] = generation]
    /\ UNCHANGED <<controller, leaving, world, history>>

(* The server issued the token and the answer arrives: a view model of a   *)
(* past generation revokes it, the current one starts to store it.         *)
Answer(l) ==
    /\ pc[l] = "sent"
    /\ valid' = valid \cup {l}
    /\ IF startedIn[l] # generation
       THEN Goto(l, "revoking") /\ UNCHANGED queue
       ELSE Goto(l, "storing") /\ Enqueue([kind |-> "write", login |-> l])
    /\ UNCHANGED <<session, timer, generation, initialized, startedIn, leaving,
                   stored, expired, history>>

(* The attempt is refused, or its answer does not arrive.                  *)
LoginFails(l, issued) ==
    /\ pc[l] = "sent"
    /\ issued => "network" \in Faults
    /\ Goto(l, "over")
    /\ valid' = IF issued THEN valid \cup {l} ELSE valid
    /\ abandoned' = IF issued THEN abandoned \cup {l} ELSE abandoned
    /\ UNCHANGED <<controller, startedIn, leaving, stored, expired, cleared>>

(* revoke: the answer of a session that will not be published.             *)
Revoke(l, reply) ==
    /\ pc[l] = "revoking"
    /\ PostLogout(l, reply)
    /\ Goto(l, "over")
    /\ abandoned' = Unrevoked(l, reply)
    /\ UNCHANGED <<controller, startedIn, leaving, stored, expired, cleared>>

(* activate, after the storage refused the session: it is revoked.         *)
Unsave(l, reply) ==
    /\ pc[l] = "unsaving"
    /\ PostLogout(l, reply)
    /\ Goto(l, "over")
    /\ abandoned' = Unrevoked(l, reply)
    /\ UNCHANGED <<controller, startedIn, leaving, stored, expired, cleared>>

-----------------------------------------------------------------------------
(* A session published without a timer.                                    *)
PublishUntimed(l) ==
    /\ session' = l
    /\ generation' = generation + 1
    /\ Goto(l, "active")
    /\ UNCHANGED timer

Publish(l) ==
    /\ session' = l
    /\ timer' = l
    /\ generation' = generation + 1
    /\ Goto(l, "active")

(* A write that publishes the session whether or not it was stored.        *)
FinishWriteAnyway(l, ok) ==
    /\ stored' = IF ok THEN l ELSE stored
    /\ Publish(l)

(* A refused write whose token is left on the server.                      *)
FinishWriteUnrevoked(l, ok) ==
    IF ok
    THEN stored' = l /\ Publish(l)
    ELSE Goto(l, "over") /\ UNCHANGED <<stored, session, timer, generation>>

(* The write of activate ends: the session is published, or its token is   *)
(* to be revoked.                                                          *)
FinishWrite(l, ok) ==
    IF ok
    THEN stored' = l /\ Publish(l)
    ELSE Goto(l, "unsaving") /\ UNCHANGED <<stored, session, timer, generation>>

FinishDelete(ok) ==
    /\ stored' = IF ok THEN None ELSE stored
    /\ UNCHANGED <<pc, session, timer, generation>>

(* The first operation of the storage queue ends and its caller resumes.   *)
StorageTurn(ok) ==
    /\ queue # <<>>
    /\ ~ok => "storage" \in Faults
    /\ queue' = Tail(queue)
    /\ IF Head(queue).kind = "write"
       THEN FinishWrite(Head(queue).login, ok)
       ELSE FinishDelete(ok)
    /\ UNCHANGED <<initialized, startedIn, leaving, valid, expired, history>>

-----------------------------------------------------------------------------
(* logout, from the settings page: with a live session it posts first, with *)
(* an expired one it clears at once.                                       *)
StartLogout ==
    /\ session # None
    /\ ~Busy
    /\ IF LoggedIn
       THEN leaving' = leaving \cup {session} /\ UNCHANGED <<controller, cleared>>
       ELSE ClearIfCurrent(session) /\ UNCHANGED leaving
    /\ UNCHANGED <<login, world, abandoned>>

(* A logout that clears the session whatever the server answered.          *)
FinishLogoutAnyway(l, reply) ==
    /\ l \in leaving
    /\ leaving' = leaving \ {l}
    /\ PostLogout(l, reply)
    /\ ClearIfCurrent(l)
    /\ UNCHANGED <<login, stored, expired, abandoned>>

(* The server answered the logout: an error leaves the session for a retry.*)
FinishLogout(l, reply) ==
    /\ l \in leaving
    /\ leaving' = leaving \ {l}
    /\ PostLogout(l, reply)
    /\ IF reply = "done"
       THEN ClearIfCurrent(l)
       ELSE UNCHANGED <<controller, cleared>>
    /\ UNCHANGED <<login, stored, expired, abandoned>>

(* A 401 arrives for a request that carried l, current or not.             *)
Rejected(l) ==
    /\ initialized
    /\ pc[l] = "active"
    /\ l \notin valid \/ l \in expired
    /\ ClearIfCurrent(l)
    /\ UNCHANGED <<login, leaving, world, abandoned>>

TimerFires ==
    /\ timer # None
    /\ timer \in expired
    /\ ClearIfCurrent(timer)
    /\ UNCHANGED <<login, leaving, world, abandoned>>

-----------------------------------------------------------------------------
Expire(l) ==
    /\ "expiry" \in Faults
    /\ pc[l] = "active"
    /\ expired' = expired \cup {l}
    /\ UNCHANGED <<controller, login, leaving, stored, valid, history>>

(* An account is disabled or its password changed, or the API is asked to  *)
(* log the session out from elsewhere.                                     *)
ServerRevokes(l) ==
    /\ "revoked" \in Faults
    /\ l \in valid
    /\ valid' = valid \ {l}
    /\ UNCHANGED <<controller, login, leaving, stored, expired, history>>

InProgress == {l \in Logins : pc[l] \in Running}

(* The app is killed: memory, queue and calls in progress are gone.        *)
Death ==
    /\ "death" \in Faults
    /\ session' = None
    /\ timer' = None
    /\ generation' = 0
    /\ initialized' = FALSE
    /\ queue' = <<>>
    /\ leaving' = {}
    /\ pc' = [l \in Logins |-> IF l \in InProgress THEN "over" ELSE pc[l]]
    /\ abandoned' = abandoned \cup InProgress
    /\ UNCHANGED <<startedIn, world, cleared>>

Resume(l) ==
    \/ Answer(l)
    \/ \E reply \in Replies : Revoke(l, reply)
    \/ \E reply \in Replies : Unsave(l, reply)
    \/ \E reply \in Replies : FinishLogout(l, reply)

Next ==
    \/ Initialize
    \/ \E l \in Logins : Submit(l)
    \/ \E l \in Logins, issued \in BOOLEAN : LoginFails(l, issued)
    \/ \E l \in Logins : Resume(l)
    \/ \E ok \in BOOLEAN : StorageTurn(ok)
    \/ StartLogout
    \/ \E l \in Logins : Rejected(l)
    \/ TimerFires
    \/ \E l \in Logins : Expire(l)
    \/ \E l \in Logins : ServerRevokes(l)
    \/ Death

Spec == Init /\ [][Next]_vars

(* Calls end (Dio's timeouts), the storage queue moves on, a due timer     *)
(* fires.                                                                  *)
FairSpec ==
    /\ Spec
    /\ \A l \in Logins : WF_vars(Resume(l))
    /\ WF_vars(StorageTurn(TRUE))
    /\ WF_vars(TimerFires)

-----------------------------------------------------------------------------
(* A session leaves the memory by a logout, a 401 or its expiry only when  *)
(* its token is worth nothing any more: a failed logout keeps it for a     *)
(* retry, and a late answer about one session does not drop another.       *)
ClearedIsDead == \A l \in cleared : l \notin valid \/ l \in expired

(* A session that is alive here and on the server is neither dropped nor   *)
(* replaced by another login; only the process can lose it.                *)
LiveSessionKept ==
    [][(session \in valid /\ Alive(session) /\ initialized')
          => (session' = session \/ session \notin valid')]_session

(* Once the storage queue is empty the device stores the session in memory,*)
(* so that a restart finds it: writes and deletes end in the order of the  *)
(* changes they belong to.                                                 *)
StoredIsCurrent ==
    initialized /\ session # None /\ queue = <<>> => stored = session

(* No token is forgotten: what the server accepts is in memory, in storage *)
(* or about to be, unless a call or the process failed.                    *)
NoOrphan ==
    \A l \in valid :
        l \in {session, stored} \cup InProgress \cup expired \cup abandoned

(* A session that was dropped is deleted from the device for good, also    *)
(* when its delete is queued behind the write of a later login.            *)
ClearedIsForgotten == \A l \in Logins : l \in cleared ~> [](stored # l)

(* An expired session does not stay: its timer is armed whenever a session *)
(* is in memory, whichever of the timer, a 401 and a login comes first.    *)
ExpiredIsLeft ==
    \A l \in Logins : session = l /\ l \in expired ~> session # l

(* Every submitted login ends, as the session or revoked or failed.        *)
LoginsEnd == \A l \in Logins : pc[l] \in Running ~> pc[l] \in {"active", "over"}
=============================================================================
