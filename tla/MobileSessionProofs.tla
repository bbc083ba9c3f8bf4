------------------------- MODULE MobileSessionProofs -------------------------
(***************************************************************************)
(* Proofs about MobileSession, for any number of logins.  What holds with  *)
(* every combination of faults comes first; then what needs a timer that   *)
(* is not late, which the run mobile_late_401 shows to be necessary.       *)
(***************************************************************************)
EXTENDS MobileSession, TLAPS

LEMMA OperationFacts ==
  /\ [kind |-> "delete"] \in Operations
  /\ \A l \in Logins : [kind |-> "write", login |-> l] \in Operations
  /\ \A o \in Operations : o.kind = "write" => o.login \in Logins
  BY DEF Operations

LEMMA AppendOperation ==
  ASSUME NEW s \in Seq(Operations), NEW o \in Operations
  PROVE  Append(s, o) \in Seq(Operations)
  OBVIOUS

(* A step of a login attempt or of a logout, whatever is answered.         *)
LoginStep(l) ==
  \/ Submit(l) \/ Answer(l) \/ Rejected(l) \/ Expire(l) \/ ServerRevokes(l)
  \/ \E issued \in BOOLEAN : LoginFails(l, issued)
  \/ \E reply \in {"done", "failed", "lost"} :
        Revoke(l, reply) \/ Unsave(l, reply) \/ FinishLogout(l, reply)

LEMMA NextCases ==
  ASSUME Next
  PROVE  \/ Initialize \/ StartLogout \/ TimerFires \/ Death
         \/ \E ok \in BOOLEAN : StorageTurn(ok)
         \/ \E l \in Logins : LoginStep(l)
<1>1. Replies \subseteq {"done", "failed", "lost"}
  BY DEF Replies
<1>2. \A l \in Logins : Resume(l) => LoginStep(l)
  BY <1>1, Zenon DEF Resume, LoginStep
<1> QED  BY <1>2, Zenon DEF Next, LoginStep

-----------------------------------------------------------------------------
LEMMA InitType == Init => TypeOK
<1> SUFFICES ASSUME Init PROVE TypeOK
  OBVIOUS
<1>1. queue \in Seq(Operations)
  BY DEF Init
<1> QED  BY <1>1 DEF Init, TypeOK, Holding, Running

(* clearIfCurrent keeps the types of what it changes.                      *)
LEMMA ClearType ==
  ASSUME TypeOK, NEW l \in Logins, ClearIfCurrent(l)
  PROVE  /\ session' \in Holding /\ timer' \in Holding
         /\ generation' \in Nat /\ initialized' \in BOOLEAN
         /\ queue' \in Seq(Operations)
         /\ cleared' \subseteq Logins
<1>1. CASE session # l
  BY <1>1 DEF ClearIfCurrent, controller, TypeOK
<1>2. CASE session = l
  BY <1>2, OperationFacts DEF ClearIfCurrent, Enqueue, TypeOK, Holding
<1> QED  BY <1>1, <1>2

LEMMA StepType ==
  ASSUME TypeOK, NEW l \in Logins, LoginStep(l)
  PROVE  TypeOK'
<1> USE DEF controller, login, world, history, Goto
<1>1. CASE Submit(l)
  BY <1>1 DEF Submit, TypeOK, Running
<1>2. CASE Answer(l)
  <2>1. UNCHANGED queue \/ queue' = Append(queue, [kind |-> "write", login |-> l])
    BY <1>2 DEF Answer, Enqueue
  <2>2. [kind |-> "write", login |-> l] \in Operations
    BY OperationFacts
  <2>3. queue' \in Seq(Operations)
    BY <2>1, <2>2, AppendOperation DEF TypeOK
  <2> QED  BY <1>2, <2>3 DEF Answer, TypeOK, Running
<1>3. ASSUME NEW issued \in BOOLEAN, LoginFails(l, issued) PROVE TypeOK'
  BY <1>3 DEF LoginFails, TypeOK, Running
<1>4. ASSUME NEW reply, Revoke(l, reply) \/ Unsave(l, reply) PROVE TypeOK'
  BY <1>4 DEF Revoke, Unsave, PostLogout, Unrevoked, TypeOK, Running
<1>5. ASSUME NEW reply, FinishLogout(l, reply) PROVE TypeOK'
  <2>1. CASE reply = "done"
    BY <1>5, <2>1, ClearType DEF FinishLogout, PostLogout, TypeOK
  <2>2. CASE reply # "done"
    BY <1>5, <2>2 DEF FinishLogout, PostLogout, TypeOK
  <2> QED  BY <2>1, <2>2
<1>6. CASE Rejected(l)
  BY <1>6, ClearType DEF Rejected, TypeOK
<1>7. CASE Expire(l) \/ ServerRevokes(l)
  BY <1>7 DEF Expire, ServerRevokes, TypeOK
<1> QED  BY <1>1, <1>2, <1>3, <1>4, <1>5, <1>6, <1>7 DEF LoginStep

LEMMA NextType == TypeOK /\ [Next]_vars => TypeOK'
<1> SUFFICES ASSUME TypeOK, [Next]_vars PROVE TypeOK'
  OBVIOUS
<1> USE DEF controller, login, world, history, Goto
<1>1. CASE Initialize
  BY <1>1 DEF Initialize, Alive, TypeOK, Holding
<1>2. CASE StartLogout
  BY <1>2, ClearType DEF StartLogout, LoggedIn, Alive, TypeOK, Holding
<1>3. CASE TimerFires
  BY <1>3, ClearType DEF TimerFires, TypeOK, Holding
<1>4. CASE Death
  <2>1. queue' \in Seq(Operations) /\ generation' \in Nat
    BY <1>4 DEF Death
  <2> QED  BY <1>4, <2>1 DEF Death, InProgress, TypeOK, Holding, Running
<1>5. ASSUME NEW ok \in BOOLEAN, StorageTurn(ok) PROVE TypeOK'
  <2>1. Head(queue) \in Operations /\ queue' \in Seq(Operations)
    BY <1>5 DEF StorageTurn, TypeOK
  <2>2. CASE Head(queue).kind = "write"
    <3>1. Head(queue).login \in Logins
      BY <2>1, <2>2, OperationFacts
    <3> QED  BY <1>5, <2>1, <2>2, <3>1
             DEF StorageTurn, FinishWrite, Publish, TypeOK, Holding, Running
  <2>3. CASE Head(queue).kind # "write"
    BY <1>5, <2>1, <2>3 DEF StorageTurn, FinishDelete, TypeOK, Holding
  <2> QED  BY <2>2, <2>3
<1>6. CASE UNCHANGED vars
  BY <1>6 DEF vars, TypeOK
<1> QED  BY <1>1, <1>2, <1>3, <1>4, <1>5, <1>6, NextCases, StepType

(* The variables keep their types.                                         *)
THEOREM SessionType == Spec => []TypeOK
  BY InitType, NextType, PTL DEF Spec
-----------------------------------------------------------------------------
(* Only sessions that were published are in memory, in storage, cleared or *)
(* expired, and every write in the queue belongs to a login that waits for *)
(* it: a login is published at most once.                                  *)
PublishedInv ==
  /\ timer = session
  /\ session # None => pc[session] = "active"
  /\ stored # None => pc[stored] = "active"
  /\ \A l \in cleared \cup expired : pc[l] = "active"
  /\ \A i \in DOMAIN queue :
        queue[i].kind = "write" => pc[queue[i].login] = "storing"
  /\ \A i, j \in DOMAIN queue :
        /\ queue[i].kind = "write" /\ queue[j].kind = "write"
        /\ queue[i].login = queue[j].login
        => i = j

DeadInv == PublishedInv /\ ClearedIsDead

LEMMA InitDead == Init => DeadInv
  BY DEF Init, DeadInv, PublishedInv, ClearedIsDead

(* What an operation at the end of the queue leaves as it was.             *)
LEMMA AppendFacts ==
  ASSUME NEW S, NEW s \in Seq(S), NEW o
  PROVE  /\ DOMAIN Append(s, o) = 1 .. Len(s) + 1
         /\ \A i \in DOMAIN s : Append(s, o)[i] = s[i]
         /\ Append(s, o)[Len(s) + 1] = o
         /\ DOMAIN s = 1 .. Len(s) /\ Len(s) \in Nat
  OBVIOUS

LEMMA TailFacts ==
  ASSUME NEW S, NEW s \in Seq(S), s # <<>>
  PROVE  /\ DOMAIN s = 1 .. Len(s) /\ Len(s) \in Nat \ {0}
         /\ Head(s) = s[1] /\ Len(Tail(s)) = Len(s) - 1
         /\ DOMAIN Tail(s) = 1 .. Len(s) - 1
         /\ \A i \in DOMAIN Tail(s) : i + 1 \in DOMAIN s /\ Tail(s)[i] = s[i + 1]
  OBVIOUS

(* clearIfCurrent of a dead session.                                       *)
LEMMA ClearDead ==
  ASSUME TypeOK, DeadInv, NEW l \in Logins, ClearIfCurrent(l),
         UNCHANGED <<login, stored, expired>>,
         valid' \subseteq valid, l \notin valid' \/ l \in expired
  PROVE  DeadInv'
<1> USE DEF DeadInv, PublishedInv, ClearedIsDead, login
<1>1. CASE session # l
  BY <1>1 DEF ClearIfCurrent, controller
<1>2. CASE session = l
  <2>1. l # None
    BY LoginsFinite
  <2>2. queue' = Append(queue, [kind |-> "delete"])
    BY <1>2 DEF ClearIfCurrent, Enqueue
  <2>3. \A i \in DOMAIN queue' : queue'[i].kind = "write" =>
           i \in DOMAIN queue /\ queue'[i] = queue[i]
    BY <2>2, AppendFacts DEF TypeOK
  <2>4. \A i \in DOMAIN queue' :
           queue'[i].kind = "write" => pc'[queue'[i].login] = "storing"
    BY <2>3
  <2>5. \A i, j \in DOMAIN queue' :
           /\ queue'[i].kind = "write" /\ queue'[j].kind = "write"
           /\ queue'[i].login = queue'[j].login
           => i = j
    BY <2>3
  <2> QED  BY <1>2, <2>1, <2>4, <2>5 DEF ClearIfCurrent
<1> QED  BY <1>1, <1>2

LEMMA StepDead ==
  ASSUME TypeOK, DeadInv, NEW l \in Logins, LoginStep(l)
  PROVE  DeadInv'
<1> USE DEF DeadInv, PublishedInv, ClearedIsDead, controller, login, world, history, Goto
<1>0. l # None
  BY LoginsFinite
<1>1. CASE Submit(l)
  <2>1. \A m \in Logins : pc[m] \in {"active", "storing"} => pc'[m] = pc[m]
    BY <1>1 DEF Submit, TypeOK
  <2> QED  BY <1>1, <2>1, OperationFacts DEF Submit, TypeOK, Holding
<1>2. CASE Answer(l)
  <2>1. \A m \in Logins : pc[m] \in {"active", "storing"} => pc'[m] = pc[m]
    BY <1>2 DEF Answer, TypeOK
  <2>2. CASE UNCHANGED queue
    BY <1>2, <2>1, <2>2, OperationFacts DEF Answer, TypeOK, Holding
  <2>3. CASE queue' = Append(queue, [kind |-> "write", login |-> l]) /\ pc'[l] = "storing"
    <3>1. \A i \in DOMAIN queue : queue[i] \in Operations /\ queue'[i] = queue[i]
      BY <2>3, AppendFacts DEF TypeOK
    <3>2. \A i \in DOMAIN queue : queue[i].kind = "write" =>
             queue[i].login # l /\ pc'[queue[i].login] = "storing"
      BY <1>2, <2>1, <3>1, OperationFacts DEF Answer
    <3>3. DOMAIN queue' = 1 .. Len(queue) + 1 /\ DOMAIN queue = 1 .. Len(queue)
          /\ Len(queue) \in Nat
          /\ queue'[Len(queue) + 1] = [kind |-> "write", login |-> l]
      BY <2>3, AppendFacts DEF TypeOK
    <3>4. \A i \in DOMAIN queue' :
             queue'[i].kind = "write" => pc'[queue'[i].login] = "storing"
      BY <2>3, <3>1, <3>2, <3>3
    <3>5. \A i, j \in DOMAIN queue' :
             /\ queue'[i].kind = "write" /\ queue'[j].kind = "write"
             /\ queue'[i].login = queue'[j].login
             => i = j
      BY <3>1, <3>2, <3>3
    <3> QED  BY <1>2, <2>1, <3>4, <3>5 DEF Answer, TypeOK, Holding
  <2> QED  BY <1>2, <2>2, <2>3 DEF Answer, Enqueue, TypeOK
<1>3. ASSUME NEW issued \in BOOLEAN, LoginFails(l, issued) PROVE DeadInv'
  <2>1. \A m \in Logins : pc[m] \in {"active", "storing"} => pc'[m] = pc[m]
    BY <1>3 DEF LoginFails, TypeOK
  <2> QED  BY <1>3, <2>1, OperationFacts DEF LoginFails, TypeOK, Holding
<1>4. ASSUME NEW reply, Revoke(l, reply) \/ Unsave(l, reply) PROVE DeadInv'
  <2>1. \A m \in Logins : pc[m] \in {"active", "storing"} => pc'[m] = pc[m]
    BY <1>4 DEF Revoke, Unsave, TypeOK
  <2> QED  BY <1>4, <2>1, OperationFacts
           DEF Revoke, Unsave, PostLogout, TypeOK, Holding
<1>5. ASSUME NEW reply, FinishLogout(l, reply) PROVE DeadInv'
  <2>1. CASE reply = "done"
    BY <1>5, <2>1, ClearDead DEF FinishLogout, PostLogout
  <2>2. CASE reply # "done"
    BY <1>5, <2>2 DEF FinishLogout, PostLogout
  <2> QED  BY <2>1, <2>2
<1>6. CASE Rejected(l)
  BY <1>6, ClearDead DEF Rejected
<1>7. CASE Expire(l) \/ ServerRevokes(l)
  BY <1>7 DEF Expire, ServerRevokes
<1> QED  BY <1>1, <1>2, <1>3, <1>4, <1>5, <1>6, <1>7 DEF LoginStep

LEMMA NextDead == TypeOK /\ DeadInv /\ [Next]_vars => DeadInv'
<1> SUFFICES ASSUME TypeOK, DeadInv, [Next]_vars PROVE DeadInv'
  OBVIOUS
<1> USE DEF DeadInv, PublishedInv, ClearedIsDead, controller, login, world, history, Goto
<1>1. CASE Initialize
  BY <1>1 DEF Initialize, Alive
<1>2. CASE StartLogout
  <2>1. CASE LoggedIn
    BY <1>2, <2>1 DEF StartLogout
  <2>2. CASE ~LoggedIn
    <3>1. session \in Logins /\ session \in expired /\ ClearIfCurrent(session)
      BY <1>2, <2>2 DEF StartLogout, LoggedIn, Alive, TypeOK, Holding
    <3> QED  BY <1>2, <2>2, <3>1, ClearDead DEF StartLogout
  <2> QED  BY <2>1, <2>2
<1>3. CASE TimerFires
  BY <1>3, ClearDead DEF TimerFires, TypeOK, Holding
<1>4. CASE Death
  <2>1. \A m \in Logins : pc[m] = "active" => pc'[m] = "active"
    BY <1>4 DEF Death, InProgress, Running, TypeOK
  <2> QED  BY <1>4, <2>1 DEF Death, TypeOK, Holding
<1>5. ASSUME NEW ok \in BOOLEAN, StorageTurn(ok) PROVE DeadInv'
  <2>1. /\ queue # <<>> /\ queue' = Tail(queue) /\ queue \in Seq(Operations)
        /\ UNCHANGED <<expired, cleared, valid>>
    BY <1>5 DEF StorageTurn, TypeOK
  <2>2. /\ DOMAIN queue = 1 .. Len(queue) /\ Len(queue) \in Nat \ {0}
        /\ Head(queue) = queue[1] /\ DOMAIN queue' = 1 .. Len(queue) - 1
        /\ \A i \in DOMAIN queue' : i + 1 \in DOMAIN queue /\ queue'[i] = queue[i + 1]
    BY <2>1, TailFacts
  <2>3. \A i \in DOMAIN queue' : queue'[i] \in Operations
    BY <2>1, <2>2
  <2>4. \A i, j \in DOMAIN queue' :
           /\ queue'[i].kind = "write" /\ queue'[j].kind = "write"
           /\ queue'[i].login = queue'[j].login
           => i = j
    BY <2>2
  <2>5. CASE Head(queue).kind = "write"
    <3> DEFINE w == Head(queue).login
    <3>1. w \in Logins /\ pc[w] = "storing" /\ w # None
      BY <2>1, <2>2, <2>5, OperationFacts, LoginsFinite
    <3>2. \A i \in DOMAIN queue' :
             queue'[i].kind = "write" =>
                queue'[i].login # w /\ queue'[i].login \in Logins
                /\ pc[queue'[i].login] = "storing"
      <4> SUFFICES ASSUME NEW i \in DOMAIN queue', queue'[i].kind = "write"
                   PROVE  queue'[i].login # w /\ queue'[i].login \in Logins
                          /\ pc[queue'[i].login] = "storing"
        OBVIOUS
      <4>1. i + 1 \in DOMAIN queue /\ queue'[i] = queue[i + 1] /\ 1 \in DOMAIN queue
            /\ i + 1 # 1 /\ queue[1].kind = "write" /\ w = queue[1].login
        BY <2>2, <2>5
      <4>2. queue'[i].login # w
        BY <4>1
      <4>3. pc[queue'[i].login] = "storing"
        BY <4>1
      <4> QED  BY <2>3, <4>2, <4>3, OperationFacts
    <3>3. FinishWrite(w, ok)
      BY <1>5, <2>5 DEF StorageTurn
    <3> HIDE DEF w
    <3>4. \A m \in Logins : m # w => pc'[m] = pc[m]
      BY <3>3 DEF FinishWrite, Publish, TypeOK
    <3>5. \A i \in DOMAIN queue' :
             queue'[i].kind = "write" => pc'[queue'[i].login] = "storing"
      BY <3>2, <3>4
    <3>6. /\ timer' = session'
          /\ session' # None => pc'[session'] = "active"
          /\ stored' # None => pc'[stored'] = "active"
      BY <3>1, <3>3, <3>4 DEF FinishWrite, Publish, TypeOK, Holding
    <3>7. \A l \in cleared' \cup expired' : pc'[l] = "active"
      BY <2>1, <3>1, <3>4 DEF TypeOK
    <3>8. ClearedIsDead'
      BY <2>1
    <3> QED  BY <2>4, <3>5, <3>6, <3>7, <3>8
  <2>6. CASE Head(queue).kind # "write"
    <3>1. FinishDelete(ok)
      BY <1>5, <2>6 DEF StorageTurn
    <3>2. \A i \in DOMAIN queue' :
             queue'[i].kind = "write" => pc'[queue'[i].login] = "storing"
      BY <2>2, <3>1 DEF FinishDelete
    <3> QED  BY <2>1, <2>4, <3>1, <3>2 DEF FinishDelete
  <2> QED  BY <2>5, <2>6
<1>6. CASE UNCHANGED vars
  BY <1>6 DEF vars
<1> QED  BY <1>1, <1>2, <1>3, <1>4, <1>5, <1>6, NextCases, StepDead

(* A session is only ever dropped when its token is worth nothing any      *)
(* more, whatever fails and however late the timer is                      *)
(* (session_provider.dart:147-180).                                        *)
THEOREM SessionClearedIsDead == Spec => []ClearedIsDead
<1>1. Spec => []TypeOK
  BY SessionType
<1>2. DeadInv => ClearedIsDead
  BY DEF DeadInv
<1> QED  BY <1>1, <1>2, InitDead, NextDead, PTL DEF Spec

-----------------------------------------------------------------------------
(* The server accepts a token only once it has answered the login.         *)
AnsweredInv == \A l \in valid : pc[l] \notin {"idle", "sent"}

LEMMA NextAnswered == TypeOK /\ AnsweredInv /\ [Next]_vars => AnsweredInv'
<1> SUFFICES ASSUME TypeOK, AnsweredInv, [Next]_vars PROVE AnsweredInv'
  OBVIOUS
<1> USE DEF TypeOK, AnsweredInv, login, world, Goto
<1>1. ASSUME NEW l \in Logins, LoginStep(l) PROVE AnsweredInv'
  <2>1. CASE Submit(l) \/ Answer(l)
    BY <2>1 DEF Submit, Answer
  <2>2. ASSUME NEW issued \in BOOLEAN, LoginFails(l, issued) PROVE AnsweredInv'
    BY <2>2 DEF LoginFails
  <2>3. ASSUME NEW reply, \/ Revoke(l, reply) \/ Unsave(l, reply) \/ FinishLogout(l, reply)
        PROVE  AnsweredInv'
    BY <2>3 DEF Revoke, Unsave, FinishLogout, PostLogout
  <2>4. CASE Rejected(l) \/ Expire(l) \/ ServerRevokes(l)
    BY <2>4 DEF Rejected, Expire, ServerRevokes
  <2> QED  BY <1>1, <2>1, <2>2, <2>3, <2>4 DEF LoginStep
<1>2. CASE Initialize \/ StartLogout \/ TimerFires
  BY <1>2 DEF Initialize, StartLogout, TimerFires
<1>3. CASE Death
  BY <1>3 DEF Death, InProgress, Running
<1>4. ASSUME NEW ok \in BOOLEAN, StorageTurn(ok) PROVE AnsweredInv'
  BY <1>4 DEF StorageTurn, FinishWrite, Publish, FinishDelete
<1>5. CASE UNCHANGED vars
  BY <1>5 DEF vars
<1> QED  BY <1>1, <1>2, <1>3, <1>4, <1>5, NextCases

-----------------------------------------------------------------------------
(* From here on the expiry timer fires in time: an expired session is gone *)
(* before the login page is used.                                          *)
Punctual == "late" \notin Faults

(* At most one login is under way, and only while no session is; with a    *)
(* session the storage queue is empty and the device holds that session.   *)
AloneInv ==
  /\ \A l \in InProgress :
        session = None /\ initialized /\ startedIn[l] = generation /\ pc[l] # "revoking"
  /\ \A l, m \in InProgress : l = m
  /\ session # None => queue = <<>> /\ stored = session
  /\ \A i \in DOMAIN queue : queue[i].kind = "write" => i = Len(queue)
  /\ ~initialized => session = None /\ queue = <<>>

(* Every token the server accepts is accounted for.                        *)
KeptInv ==
  \A l \in valid :
    l \in InProgress \cup expired \cup abandoned
         \cup (IF initialized THEN {session} ELSE {stored})

OnTimeInv == DeadInv /\ AnsweredInv /\ AloneInv /\ KeptInv

LEMMA InitOnTime == Init => OnTimeInv
<1> SUFFICES ASSUME Init PROVE AnsweredInv /\ AloneInv /\ KeptInv
  BY InitDead DEF OnTimeInv
<1> QED  BY DEF Init, AnsweredInv, AloneInv, KeptInv, InProgress, Running

(* clearIfCurrent of a dead session, which no login is beside.             *)
LEMMA ClearOnTime ==
  ASSUME TypeOK, OnTimeInv, NEW l \in Logins, ClearIfCurrent(l),
         UNCHANGED <<login, stored, expired, abandoned>>,
         valid' \subseteq valid, l \notin valid' \/ l \in expired
  PROVE  AloneInv' /\ KeptInv'
<1> USE DEF OnTimeInv, AloneInv, KeptInv, InProgress, login
<1>1. CASE session # l
  BY <1>1 DEF ClearIfCurrent, controller
<1>2. CASE session = l
  <2>1. /\ l # None /\ queue = <<>> /\ InProgress = {} /\ initialized
        /\ InProgress' = {}
    BY <1>2, LoginsFinite
  <2>2. /\ queue' = Append(queue, [kind |-> "delete"]) /\ session' = None
        /\ UNCHANGED initialized
    BY <1>2 DEF ClearIfCurrent, Enqueue
  <2>3. queue' = <<[kind |-> "delete"]>>
    BY <2>1, <2>2
  <2>4. \A i \in DOMAIN queue' : queue'[i].kind # "write"
    BY <2>3
  <2>5. AloneInv'
    BY <2>1, <2>2, <2>4
  <2>6. KeptInv'
    BY <1>2, <2>1, <2>2
  <2> QED  BY <2>5, <2>6
<1> QED  BY <1>1, <1>2

LEMMA StepOnTime ==
  ASSUME TypeOK, OnTimeInv, Punctual, NEW l \in Logins, LoginStep(l)
  PROVE  AloneInv' /\ KeptInv'
<1> USE DEF OnTimeInv, AloneInv, KeptInv, InProgress, Running,
            controller, login, world, history, Goto
<1>1. CASE Submit(l)
  <2>1. session = None /\ InProgress = {} /\ initialized
    BY <1>1 DEF Submit, Punctual, Busy
  <2>2. InProgress' = {l} /\ startedIn'[l] = generation /\ pc'[l] = "sent"
    BY <1>1, <2>1 DEF Submit, TypeOK
  <2>3. UNCHANGED <<session, queue, stored, initialized, generation, valid, expired, abandoned>>
    BY <1>1 DEF Submit
  <2>4. AloneInv'
    BY <2>1, <2>2, <2>3
  <2> QED  BY <2>1, <2>2, <2>3, <2>4
<1>2. CASE Answer(l)
  <2>1. /\ l \in InProgress /\ startedIn[l] = generation /\ session = None /\ initialized
        /\ \A m \in InProgress : m = l
    BY <1>2 DEF Answer
  <2>2. /\ queue' = Append(queue, [kind |-> "write", login |-> l]) /\ pc'[l] = "storing"
        /\ valid' = valid \cup {l}
        /\ UNCHANGED <<session, stored, initialized, generation, startedIn, expired, abandoned>>
    BY <1>2, <2>1 DEF Answer, Enqueue, TypeOK
  <2>3. InProgress' = InProgress
    BY <1>2, <2>1, <2>2 DEF Answer, TypeOK
  <2>4. \A i \in DOMAIN queue : queue[i].kind # "write"
    <3> SUFFICES ASSUME NEW i \in DOMAIN queue, queue[i].kind = "write" PROVE FALSE
      OBVIOUS
    <3>1. queue[i].login \in Logins /\ pc[queue[i].login] = "storing"
      BY OperationFacts DEF TypeOK, DeadInv, PublishedInv
    <3> QED  BY <1>2, <2>1, <3>1 DEF Answer
  <2>5. \A i \in DOMAIN queue' : queue'[i].kind = "write" => i = Len(queue')
    BY <2>2, <2>4, AppendFacts DEF TypeOK
  <2>6. AloneInv'
    BY <2>1, <2>2, <2>3, <2>5
  <2>7. KeptInv'
    BY <2>1, <2>2, <2>3
  <2> QED  BY <2>6, <2>7
<1>3. ASSUME InProgress' = InProgress \ {l},
             \A m \in Logins \ {l} : pc'[m] = pc[m],
             pc'[l] = "over",
             valid' \subseteq valid \cup {l},
             l \in valid' => l \in abandoned',
             abandoned \subseteq abandoned',
             UNCHANGED <<controller, stored, startedIn, expired>>
      PROVE  AloneInv' /\ KeptInv'
  BY <1>3
<1>4. ASSUME NEW issued \in BOOLEAN, LoginFails(l, issued) PROVE AloneInv' /\ KeptInv'
  <2>1. CASE issued
    BY <1>3, <1>4, <2>1 DEF LoginFails, TypeOK
  <2>2. CASE ~issued
    <3>1. UNCHANGED <<controller, stored, startedIn, valid, expired, abandoned>>
          /\ l \notin valid
      BY <1>4, <2>2 DEF LoginFails, AnsweredInv
    <3>2. InProgress' = InProgress \ {l} /\ \A m \in Logins \ {l} : pc'[m] = pc[m]
          /\ pc'[l] = "over"
      BY <1>4, <2>2 DEF LoginFails, TypeOK
    <3> QED  BY <1>3, <3>1, <3>2
  <2> QED  BY <2>1, <2>2
<1>5. ASSUME NEW reply, Revoke(l, reply) \/ Unsave(l, reply) PROVE AloneInv' /\ KeptInv'
  <2>1. InProgress' = InProgress \ {l} /\ \A m \in Logins \ {l} : pc'[m] = pc[m]
        /\ pc'[l] = "over"
    BY <1>5 DEF Revoke, Unsave, TypeOK
  <2>2. /\ valid' \subseteq valid /\ (l \in valid' => l \in abandoned')
        /\ abandoned \subseteq abandoned'
        /\ UNCHANGED <<controller, stored, startedIn, expired>>
    BY <1>5 DEF Revoke, Unsave, PostLogout, Unrevoked
  <2> QED  BY <1>3, <2>1, <2>2
<1>6. ASSUME NEW reply, FinishLogout(l, reply) PROVE AloneInv' /\ KeptInv'
  <2>1. CASE reply = "done"
    BY <1>6, <2>1, ClearOnTime DEF FinishLogout, PostLogout
  <2>2. CASE reply # "done"
    BY <1>6, <2>2 DEF FinishLogout, PostLogout
  <2> QED  BY <2>1, <2>2
<1>7. CASE Rejected(l)
  BY <1>7, ClearOnTime DEF Rejected
<1>8. CASE Expire(l) \/ ServerRevokes(l)
  BY <1>8 DEF Expire, ServerRevokes
<1> QED  BY <1>1, <1>2, <1>4, <1>5, <1>6, <1>7, <1>8 DEF LoginStep

LEMMA NextOnTime == TypeOK /\ OnTimeInv /\ Punctual /\ [Next]_vars => OnTimeInv'
<1> SUFFICES ASSUME TypeOK, OnTimeInv, Punctual, [Next]_vars PROVE AloneInv' /\ KeptInv'
  BY NextDead, NextAnswered DEF OnTimeInv
<1> USE DEF OnTimeInv, AloneInv, KeptInv, InProgress, Running,
            controller, login, world, history, Goto
<1>1. CASE Initialize
  <2>1. InProgress = {} /\ InProgress' = {} /\ queue = <<>> /\ session = None
    BY <1>1 DEF Initialize
  <2>2. AloneInv'
    BY <1>1, <2>1 DEF Initialize
  <2>3. KeptInv'
    BY <1>1, <2>1, LoginsFinite DEF Initialize, Alive, TypeOK
  <2> QED  BY <2>2, <2>3
<1>2. CASE StartLogout
  <2>1. CASE LoggedIn
    BY <1>2, <2>1 DEF StartLogout
  <2>2. CASE ~LoggedIn
    <3>1. session \in Logins /\ session \in expired /\ ClearIfCurrent(session)
      BY <1>2, <2>2 DEF StartLogout, LoggedIn, Alive, TypeOK, Holding
    <3> QED  BY <1>2, <2>2, <3>1, ClearOnTime DEF StartLogout
  <2> QED  BY <2>1, <2>2
<1>3. CASE TimerFires
  BY <1>3, ClearOnTime DEF TimerFires, TypeOK, Holding
<1>4. CASE Death
  <2>1. InProgress' = {}
    BY <1>4 DEF Death, TypeOK
  <2>2. AloneInv'
    BY <1>4, <2>1 DEF Death
  <2>3. KeptInv'
    <3> SUFFICES ASSUME NEW l \in valid, l \notin InProgress \cup expired \cup abandoned
                 PROVE  l = stored
      BY <1>4 DEF Death
    <3>1. l # None
      BY LoginsFinite DEF TypeOK
    <3> QED  BY <3>1
  <2> QED  BY <2>2, <2>3
<1>5. ASSUME NEW ok \in BOOLEAN, StorageTurn(ok) PROVE AloneInv' /\ KeptInv'
  <2>1. /\ queue # <<>> /\ queue' = Tail(queue) /\ queue \in Seq(Operations)
        /\ UNCHANGED <<initialized, startedIn, valid, expired, abandoned>>
    BY <1>5 DEF StorageTurn, TypeOK
  <2>2. /\ DOMAIN queue = 1 .. Len(queue) /\ Len(queue) \in Nat \ {0}
        /\ Head(queue) = queue[1] /\ DOMAIN queue' = 1 .. Len(queue) - 1
        /\ Len(queue') = Len(queue) - 1
        /\ \A i \in DOMAIN queue' : i + 1 \in DOMAIN queue /\ queue'[i] = queue[i + 1]
    BY <2>1, TailFacts
  <2>3. session = None /\ initialized
    BY <2>1
  <2>4. \A i \in DOMAIN queue' : queue'[i].kind = "write" => i = Len(queue')
    <3> SUFFICES ASSUME NEW i \in DOMAIN queue', queue'[i].kind = "write"
                 PROVE  i = Len(queue')
      OBVIOUS
    <3>1. queue[i + 1].kind = "write" /\ i + 1 \in DOMAIN queue
      BY <2>2
    <3>2. i + 1 = Len(queue)
      BY <3>1
    <3> QED  BY <2>2, <3>2
  <2>5. CASE Head(queue).kind = "write"
    <3> DEFINE w == Head(queue).login
    <3>1. w \in Logins /\ pc[w] = "storing" /\ w # None
      BY <2>1, <2>2, <2>5, OperationFacts, LoginsFinite DEF DeadInv, PublishedInv
    <3>2. Len(queue) = 1
      BY <2>2, <2>5
    <3>3. FinishWrite(w, ok)
      BY <1>5, <2>5 DEF StorageTurn
    <3> HIDE DEF w
    <3>4. InProgress = {w} /\ queue' = <<>>
      BY <2>1, <2>2, <3>1, <3>2
    <3>5. CASE ok
      <4>1. InProgress' = {} /\ session' = w /\ stored' = w
        BY <3>1, <3>3, <3>4, <3>5 DEF FinishWrite, Publish, TypeOK
      <4>2. AloneInv'
        BY <2>1, <2>3, <3>4, <4>1
      <4>3. KeptInv'
        BY <2>1, <2>3, <3>1, <3>4, <4>1, LoginsFinite DEF TypeOK
      <4> QED  BY <4>2, <4>3
    <3>6. CASE ~ok
      <4>1. /\ InProgress' = InProgress /\ pc'[w] = "unsaving"
            /\ UNCHANGED <<session, stored, generation>>
        BY <3>1, <3>3, <3>4, <3>6 DEF FinishWrite, TypeOK
      <4>2. AloneInv'
        BY <2>1, <2>3, <3>4, <4>1
      <4>3. KeptInv'
        BY <2>1, <4>1
      <4> QED  BY <4>2, <4>3
    <3> QED  BY <3>5, <3>6
  <2>6. CASE Head(queue).kind # "write"
    <3>1. UNCHANGED <<pc, session, generation>>
      BY <1>5, <2>6 DEF StorageTurn, FinishDelete
    <3>2. AloneInv'
      BY <2>1, <2>3, <2>4, <3>1
    <3>3. KeptInv'
      BY <2>1, <2>3, <3>1
    <3> QED  BY <3>2, <3>3
  <2> QED  BY <2>5, <2>6
<1>6. CASE UNCHANGED vars
  BY <1>6 DEF vars
<1> QED  BY <1>1, <1>2, <1>3, <1>4, <1>5, <1>6, NextCases, StepOnTime

LEMMA SpecOnTime == ASSUME Punctual PROVE Spec => [](TypeOK /\ OnTimeInv)
<1>1. Init => TypeOK /\ OnTimeInv
  BY InitType, InitOnTime
<1>2. TypeOK /\ OnTimeInv /\ [Next]_vars => (TypeOK /\ OnTimeInv)'
  BY NextType, NextOnTime
<1> QED  BY <1>1, <1>2, PTL DEF Spec

(* With a timer in time the device stores the session in memory whenever   *)
(* its storage is idle, so that a restart finds it                         *)
(* (session_provider.dart:70-133, 166-180).                                *)
THEOREM SessionStoredIsCurrent == ASSUME Punctual PROVE Spec => []StoredIsCurrent
<1>1. OnTimeInv => StoredIsCurrent
  BY DEF OnTimeInv, AloneInv, StoredIsCurrent
<1> QED  BY <1>1, SpecOnTime, PTL

(* No token the server accepts is forgotten: it is in memory, in storage   *)
(* or on its way there, unless a call or the process failed.               *)
THEOREM SessionNoOrphan == ASSUME Punctual PROVE Spec => []NoOrphan
<1>1. OnTimeInv => NoOrphan
  BY DEF OnTimeInv, KeptInv, NoOrphan
<1> QED  BY <1>1, SpecOnTime, PTL

(* No step drops or replaces a session that is alive here and on the       *)
(* server, but the end of the process.                                     *)
LEMMA LiveStep ==
  ASSUME TypeOK, OnTimeInv, [Next]_vars,
         session \in valid, Alive(session), initialized'
  PROVE  session' = session \/ session \notin valid'
<1>0. session # None /\ queue = <<>> /\ InProgress = {} /\ initialized /\ timer = session
  BY LoginsFinite DEF OnTimeInv, AloneInv, TypeOK, InProgress, DeadInv, PublishedInv
<1>1. ASSUME NEW l \in Logins, LoginStep(l)
      PROVE  session' = session \/ session \notin valid'
  BY <1>1 DEF LoginStep, Submit, Answer, LoginFails, Revoke, Unsave, FinishLogout,
              PostLogout, Rejected, Expire, ServerRevokes, ClearIfCurrent, controller, Alive
<1>2. CASE Next
  <2>1. CASE Initialize \/ Death
    BY <1>0, <2>1 DEF Initialize, Death
  <2>2. CASE StartLogout \/ TimerFires
    BY <1>0, <2>2 DEF StartLogout, TimerFires, LoggedIn, Alive, controller
  <2>3. ASSUME NEW ok \in BOOLEAN, StorageTurn(ok) PROVE FALSE
    BY <1>0, <2>3 DEF StorageTurn
  <2> QED  BY <1>1, <1>2, <2>1, <2>2, <2>3, NextCases
<1> QED  BY <1>2 DEF vars, controller

(* A session alive on both sides is neither dropped by a late answer nor   *)
(* replaced by another login.                                              *)
THEOREM SessionLiveKept == ASSUME Punctual PROVE Spec => LiveSessionKept
<1> DEFINE Kept == (session \in valid /\ Alive(session) /\ initialized')
                     => (session' = session \/ session \notin valid')
<1>1. TypeOK /\ OnTimeInv /\ [Next]_vars => [Kept]_session
  BY LiveStep
<1> QED  BY <1>1, SpecOnTime, PTL DEF Spec, LiveSessionKept
=============================================================================
