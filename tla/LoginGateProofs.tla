---------------------------- MODULE LoginGateProofs ----------------------------
(***************************************************************************)
(* Proofs about LoginGate, for any number of attempts and addresses, any   *)
(* limits and any faults: first the password check and the sessions, then  *)
(* the windows of attempts.                                                *)
(***************************************************************************)
EXTENDS LoginGate, FiniteSetTheorems, TLAPS

(* A step of the attempt counters.                                         *)
GateStep(a) ==
    \/ BeginAllow(a)
    \/ \E k \in Keys : Sweep(a, k)
    \/ EndSweep(a)
    \/ Count(a)
    \/ \E reply \in BOOLEAN : CommitAllow(a, reply)
    \/ AbortAllow(a)

(* A step of the password check and of the session it creates.             *)
SlotStep(a) ==
    \/ TakeSlot(a)
    \/ \E right \in BOOLEAN : Verify(a, right)
    \/ LoseUser(a)
    \/ InsertSession(a)
    \/ \E effect, reply \in BOOLEAN : CommitSession(a, effect, reply)

AccountStep ==
    \/ \E a \in Attempts : Logout(a)
    \/ Disable
    \/ Enable
    \/ ChangePassword

LEMMA NextCases ==
  ASSUME Next
  PROVE  \/ \E a \in Attempts : GateStep(a)
         \/ \E a \in Attempts : SlotStep(a)
         \/ AccountStep
         \/ Tick
<1>1. ASSUME NEW a \in Attempts, Proceed(a) PROVE GateStep(a) \/ SlotStep(a)
  BY <1>1, Zenon DEF Proceed, GateStep, SlotStep, ResolveDeadlock
<1>2. ASSUME NEW a \in Attempts, Fail(a) PROVE GateStep(a) \/ SlotStep(a)
  BY <1>2, Zenon DEF Fail, GateStep, SlotStep, LoseAllow
<1>3. \A a \in Attempts : BeginAllow(a) => GateStep(a)
  BY Zenon DEF GateStep
<1> QED  BY <1>1, <1>2, <1>3, Zenon DEF Next, AccountStep

LEMMA RowFacts ==
  /\ \A n \in Nat \ {0}, e \in Nat : [attempts |-> n, end |-> e] \in Row \ {Gone}
  /\ Gone \in Row
  /\ \A r \in Row : r.attempts \in Nat /\ r.end \in Nat
  /\ \A r \in Row : r = [attempts |-> r.attempts, end |-> r.end]
  BY DEF Row, Gone

LEMMA WindowFacts ==
  /\ Window \in Nat /\ Window >= 2
  /\ LastTick \in Nat /\ LastHash \in Nat /\ LastPeriod \in Nat
  BY WindowOfTicks, BoundsAreNaturals

(* The row after one attempt more.                                         *)
LEMMA CountedFacts ==
  ASSUME NEW row \in Row, NEW now \in Nat
  PROVE  /\ Counted(row, now) \in Row \ {Gone}
         /\ row = Gone => Counted(row, now) = [attempts |-> 1, end |-> now + Window]
         /\ row # Gone => Counted(row, now) = [attempts |-> row.attempts + 1, end |-> row.end]
<1>1. CASE row = Gone
  BY <1>1, WindowFacts DEF Counted, Row, Gone
<1>2. CASE row # Gone
  <2>1. Counted(row, now) = [attempts |-> row.attempts + 1, end |-> row.end]
    BY <1>2 DEF Counted, Row
  <2>2. row.attempts + 1 \in Nat \ {0} /\ row.end \in Nat
    BY RowFacts
  <2>3. [attempts |-> row.attempts + 1, end |-> row.end] \in Row \ {Gone}
    BY <2>2, RowFacts
  <2> QED  BY <1>2, <2>1, <2>3
<1> QED  BY <1>1, <1>2

LEMMA WithFacts ==
  ASSUME NEW f, NEW x, NEW v
  PROVE  /\ DOMAIN With(f, x, v) = DOMAIN f \cup {x}
         /\ With(f, x, v)[x] = v
         /\ \A y \in DOMAIN f : y # x => With(f, x, v)[y] = f[y]
  BY DEF With

LEMMA AfterFacts ==
  ASSUME NEW old, NEW done
  PROVE  /\ \A k : k \in DOMAIN After(old, done) <=>
               \/ k \in DOMAIN done /\ done[k] # Gone
               \/ k \in DOMAIN old \ DOMAIN done /\ old[k] # Gone
         /\ \A k \in DOMAIN After(old, done) :
               After(old, done)[k] = IF k \in DOMAIN done THEN done[k] ELSE old[k]
  BY DEF After

-----------------------------------------------------------------------------
(* Types.                                                                  *)
LEMMA InitType == Init => GateType /\ SessionType /\ slots = 0
<1> SUFFICES ASSUME Init PROVE GateType /\ SessionType
  BY DEF Init
<1>1. account \in User
  BY WindowFacts DEF Init, User
<1>2. GateType
  BY WindowFacts DEF Init, GateType
<1>3. SessionType
  <2>1. account.active = TRUE /\ period = 0 /\ 0 \in 0 .. LastPeriod
    BY WindowFacts DEF Init
  <2>2. DOMAIN sessions = {} /\ DOMAIN pending = {}
    BY DEF Init
  <2>3. read \in [Attempts -> User] /\ \A a \in Attempts : pc[a] # "inserted"
    BY <1>1 DEF Init
  <2> QED  BY <1>1, <2>1, <2>2, <2>3 DEF SessionType
<1> QED  BY <1>2, <1>3

LEMMA GateStepType ==
  ASSUME GateType, NEW a \in Attempts, GateStep(a)
  PROVE  GateType'
<1> USE DEF GateType, Goto, InGate, Answers
<1>1. CASE BeginAllow(a)
  BY <1>1 DEF BeginAllow
<1>2. ASSUME NEW k \in Keys, Sweep(a, k) PROVE GateType'
  <2>1. CASE k \in DOMAIN rows /\ Over(rows[k], stamp[a])
    <3>1. change' = [change EXCEPT ![a] = With(change[a], k, Gone)]
      BY <1>2, <2>1 DEF Sweep
    <3>2. DOMAIN change'[a] \subseteq Keys /\ \A x \in DOMAIN change'[a] : change'[a][x] \in Row
      BY <3>1, RowFacts DEF With
    <3>3. \A b \in Attempts : b # a => change'[b] = change[b]
      BY <3>1
    <3> QED  BY <1>2, <3>1, <3>2, <3>3 DEF Sweep
  <2>2. CASE ~(k \in DOMAIN rows /\ Over(rows[k], stamp[a]))
    BY <1>2, <2>2 DEF Sweep
  <2> QED  BY <2>1, <2>2
<1>3. CASE EndSweep(a)
  BY <1>3 DEF EndSweep, gate
<1>4. CASE Count(a)
  <2> DEFINE k == NextKey(a)
             row == Counted(Seen(a, k), stamp[a])
  <2>1. k \in Keys
    BY DEF NextKey, Keys
  <2>2. Seen(a, k) \in Row
    BY RowFacts DEF Seen
  <2>3. row \in Row \ {Gone}
    BY <2>2, CountedFacts, WindowFacts
  <2>4. /\ change' = [change EXCEPT ![a] = With(change[a], k, row)]
        /\ counts' = [counts EXCEPT ![a] = With(counts[a], k, row)]
        /\ pc' = [pc EXCEPT ![a] = IF k = Name THEN "counted" ELSE "counting"]
        /\ UNCHANGED <<clock, rows, victims, stamp, from>>
    BY <1>4 DEF Count
  <2> HIDE DEF k, row
  <2>5. /\ DOMAIN change'[a] \subseteq Keys /\ \A x \in DOMAIN change'[a] : change'[a][x] \in Row
        /\ DOMAIN counts'[a] \subseteq Keys
        /\ \A x \in DOMAIN counts'[a] : counts'[a][x] \in Row \ {Gone}
    BY <2>1, <2>3, <2>4 DEF With
  <2>6. \A b \in Attempts : b # a => change'[b] = change[b] /\ counts'[b] = counts[b]
    BY <2>4
  <2> QED  BY <2>4, <2>5, <2>6
<1>5. ASSUME NEW reply \in BOOLEAN, CommitAllow(a, reply) PROVE GateType'
  <2>1. DOMAIN rows' \subseteq Keys /\ \A k \in DOMAIN rows' : rows'[k] \in Row \ {Gone}
    BY <1>5, AfterFacts DEF CommitAllow
  <2> QED  BY <1>5, <2>1 DEF CommitAllow
<1>6. CASE AbortAllow(a)
  BY <1>6 DEF AbortAllow
<1> QED  BY <1>1, <1>2, <1>3, <1>4, <1>5, <1>6 DEF GateStep

(* What a step of the counters leaves to the rest of the login.            *)
LEMMA GateStepLeaves ==
  ASSUME GateType, NEW a \in Attempts, GateStep(a)
  PROVE  /\ UNCHANGED <<clock, slots, session>>
         /\ pc[a] \notin InSlot \cup Answers
         /\ pc'[a] \notin InSlot /\ pc'[a] # "idle"
         /\ \A b \in Attempts : b # a => pc'[b] = pc[b]
  BY DEF GateStep, BeginAllow, Sweep, EndSweep, Count, CommitAllow, AbortAllow, Goto,
         GateType, InGate, InSlot, Answers

(* And what a step of the rest leaves to the counters.                     *)
LEMMA SlotStepLeaves ==
  ASSUME GateType, NEW a \in Attempts, SlotStep(a)
  PROVE  /\ UNCHANGED <<clock, gate>>
         /\ pc[a] \in {"allowed"} \cup InSlot /\ pc'[a] \in InSlot \cup Answers
         /\ pc' = [pc EXCEPT ![a] = pc'[a]]
         /\ \A b \in Attempts : b # a => pc'[b] = pc[b]
  BY DEF SlotStep, TakeSlot, Verify, LoseUser, InsertSession, CommitSession, Goto, Leave,
         GateType, InGate, InSlot, Answers

LEMMA AccountStepLeaves ==
  ASSUME AccountStep
  PROVE  UNCHANGED <<clock, gate, pc, slots, read>>
  BY DEF AccountStep, Logout, Disable, Enable, ChangePassword

LEMMA NextGateType == GateType /\ [Next]_vars => GateType'
<1> SUFFICES ASSUME GateType, [Next]_vars PROVE GateType'
  OBVIOUS
<1>1. ASSUME NEW a \in Attempts, SlotStep(a) PROVE GateType'
  <2>1. pc' \in [Attempts -> {"idle", "allowed"} \cup InGate \cup InSlot \cup Answers]
    BY <1>1, SlotStepLeaves DEF GateType
  <2>2. UNCHANGED <<clock, gate>>
    BY <1>1, SlotStepLeaves
  <2> QED  BY <2>1, <2>2 DEF GateType, gate
<1>2. CASE AccountStep
  BY <1>2, AccountStepLeaves DEF GateType, gate
<1>3. CASE Tick
  <2>1. clock' \in 0 .. LastTick
    BY <1>3, WindowFacts DEF Tick, GateType
  <2>2. UNCHANGED <<rows, change, victims, stamp, from, counts, pc>>
    BY <1>3 DEF Tick, gate
  <2> QED  BY <2>1, <2>2 DEF GateType
<1>4. CASE UNCHANGED vars
  BY <1>4 DEF vars, GateType, gate
<1> QED  BY <1>1, <1>2, <1>3, <1>4, GateStepType, NextCases

-----------------------------------------------------------------------------
(* Sessions.                                                               *)
(* Where a session comes from: its login is over, the hash it carries is   *)
(* the one that login verified, and unless a disabling overtook its commit it was inserted in *)
(* the present period, which has not ended: the INSERT requires an active  *)
(* account, and a disabling marks or deletes every row.                    *)
Genuine(row, user) ==
    /\ row \in Session
    /\ row.hash = user.hash
    /\ row.overtaken \/ (row.since = period /\ account.active)

VerifiedInv ==
    /\ \A a \in DOMAIN pending : Genuine(pending[a], read[a])
    /\ \A a \in DOMAIN sessions : pc[a] \in Answers /\ Genuine(sessions[a], read[a])

LEMMA SessionFacts ==
  /\ \A h \in 0 .. LastHash, p \in 0 .. LastPeriod, o \in BOOLEAN :
        LET row == [hash |-> h, since |-> p, overtaken |-> o] IN
        row \in Session /\ row.hash = h /\ row.since = p /\ row.overtaken = o
  /\ \A row \in Session :
        LET late == [row EXCEPT !.overtaken = TRUE] IN
        late \in Session /\ late.hash = row.hash /\ late.overtaken
  BY DEF Session

LEMMA SessionStep ==
  ASSUME GateType, SessionType, VerifiedInv, [Next]_vars
  PROVE  SessionType' /\ VerifiedInv'
<1> USE DEF SessionType, VerifiedInv, Genuine
<1>1. ASSUME NEW a \in Attempts, GateStep(a) PROVE SessionType' /\ VerifiedInv'
  <2>1. /\ UNCHANGED session
        /\ \A b \in Attempts : (pc'[b] = "inserted" <=> pc[b] = "inserted")
                               /\ (pc[b] \in Answers => pc'[b] \in Answers)
    BY <1>1, GateStepLeaves DEF InSlot
  <2> QED  BY <2>1 DEF session
<1>2. ASSUME NEW a \in Attempts, SlotStep(a) PROVE SessionType' /\ VerifiedInv'
  <2>0. pc \in [Attempts -> {"idle", "allowed"} \cup InGate \cup InSlot \cup Answers]
    BY DEF GateType
  <2>1. CASE TakeSlot(a)
    BY <2>0, <2>1 DEF TakeSlot, Goto, session, Answers, InSlot
  <2>2. ASSUME NEW right \in BOOLEAN, Verify(a, right) PROVE SessionType' /\ VerifiedInv'
    <3>1. /\ pc[a] = "looking" /\ pc'[a] # "inserted"
          /\ \A b \in Attempts : b # a => pc'[b] = pc[b]
          /\ read' = read \/ read' = [read EXCEPT ![a] = account]
          /\ UNCHANGED <<account, period, sessions, pending>>
      BY <2>0, <2>2 DEF Verify, Goto, Leave, Answers
    <3>2. a \notin DOMAIN pending /\ a \notin DOMAIN sessions
      BY <3>1 DEF Answers
    <3> QED  BY <3>1, <3>2
  <2>3. CASE LoseUser(a)
    BY <2>0, <2>3 DEF LoseUser, Goto, Leave, session, Answers, InSlot
  <2>4. CASE InsertSession(a)
    <3>1. CASE Credential(read[a])
      <4> DEFINE row == [hash |-> account.hash, since |-> period, overtaken |-> FALSE]
      <4>1. /\ pc[a] = "creating" /\ pending' = With(pending, a, row)
            /\ pc' = [pc EXCEPT ![a] = "inserted"]
            /\ UNCHANGED <<account, period, read, sessions>>
            /\ account.active /\ account.hash = read[a].hash
        BY <2>4, <3>1 DEF InsertSession, Goto, Credential
      <4>2. row \in Session /\ row.hash = account.hash /\ row.since = period
        BY SessionFacts DEF User
      <4> HIDE DEF row
      <4>3. DOMAIN pending' = {b \in Attempts : pc'[b] = "inserted"}
        BY <2>0, <4>1 DEF With
      <4>4. \A b \in DOMAIN pending' : Genuine(pending'[b], read[b])
        BY <4>1, <4>2 DEF With
      <4> QED  BY <2>0, <4>1, <4>3, <4>4 DEF Answers
    <3>2. CASE ~Credential(read[a])
      BY <2>0, <2>4, <3>2 DEF InsertSession, Goto, Leave, Answers, InSlot
    <3> QED  BY <3>1, <3>2
  <2>5. ASSUME NEW effect \in BOOLEAN, NEW reply \in BOOLEAN, CommitSession(a, effect, reply)
        PROVE  SessionType' /\ VerifiedInv'
    <3>1. /\ pc[a] = "inserted" /\ pc'[a] \in Answers \ {"inserted"}
          /\ \A b \in Attempts : b # a => pc'[b] = pc[b]
          /\ UNCHANGED <<account, period, read>>
          /\ sessions' = sessions \/ sessions' = With(sessions, a, pending[a])
          /\ pending' = Restrict(pending, DOMAIN pending \ {a})
      BY <2>0, <2>5 DEF CommitSession, Leave, Goto, Answers
    <3>2. a \in DOMAIN pending
      BY <3>1
    <3>3. DOMAIN pending' = {b \in Attempts : pc'[b] = "inserted"}
      BY <3>1 DEF Restrict
    <3>4. \A b \in DOMAIN pending' : b \in DOMAIN pending /\ pending'[b] = pending[b]
      BY <3>1 DEF Restrict
    <3>5. /\ DOMAIN sessions' \subseteq Attempts
          /\ \A b \in DOMAIN sessions' : Genuine(sessions'[b], read[b])
          /\ \A b \in DOMAIN sessions' : b = a \/ b \in DOMAIN sessions
      BY <3>1, <3>2 DEF With
    <3> QED  BY <3>1, <3>3, <3>4, <3>5
  <2> QED  BY <1>2, <2>1, <2>2, <2>3, <2>4, <2>5 DEF SlotStep
<1>3. CASE AccountStep
  <2>1. UNCHANGED <<pc, read>>
    BY <1>3, AccountStepLeaves
  <2>2. /\ account.active \in BOOLEAN /\ account.hash \in 0 .. LastHash
        /\ account = [active |-> account.active, hash |-> account.hash]
    BY DEF User
  <2>3. CASE Disable
    <3>1. account' = [active |-> FALSE, hash |-> account.hash]
      BY <2>2, <2>3 DEF Disable
    <3>2. /\ account' = [active |-> FALSE, hash |-> account.hash] /\ period' = period
          /\ period < LastPeriod
          /\ pending' = [b \in DOMAIN pending |-> [pending[b] EXCEPT !.overtaken = TRUE]]
      BY <2>3, <3>1 DEF Disable
    <3>3. DOMAIN sessions' = {}
      BY <2>3 DEF Disable
    <3>4. /\ DOMAIN pending' = DOMAIN pending
          /\ \A b \in DOMAIN pending' : /\ pending'[b] \in Session /\ pending'[b].overtaken
                                        /\ pending'[b].hash = pending[b].hash
      BY <3>2, SessionFacts
    <3>5. account' \in User /\ account'.active = FALSE
      BY <2>2, <3>2 DEF User
    <3>6. SessionType'
      BY <2>1, <3>2, <3>4, <3>3, <3>5
    <3>7. VerifiedInv'
      BY <2>1, <3>2, <3>4, <3>3
    <3> QED  BY <3>6, <3>7
  <2>4. CASE Enable
    <3>1. /\ ~account.active /\ account' = [active |-> TRUE, hash |-> account.hash]
          /\ period' = period + 1 /\ UNCHANGED <<sessions, pending>>
      BY <2>2, <2>4 DEF Enable
    <3>2. period' \in 0 .. LastPeriod /\ account' \in User
      BY <2>2, <3>1, WindowFacts DEF User
    <3> QED  BY <2>1, <3>1, <3>2
  <2>5. CASE ChangePassword
    <3>1. /\ account' = [active |-> account.active, hash |-> account.hash + 1]
          /\ account.hash < LastHash /\ UNCHANGED <<period, sessions, pending>>
      BY <2>2, <2>5 DEF ChangePassword
    <3>2. account' \in User /\ account'.active = account.active
      BY <2>2, <3>1, WindowFacts DEF User
    <3> QED  BY <2>1, <3>1, <3>2
  <2>6. ASSUME NEW a \in Attempts, Logout(a) PROVE SessionType' /\ VerifiedInv'
    <3>1. /\ UNCHANGED <<account, period, pending>>
          /\ \A b \in DOMAIN sessions' : b \in DOMAIN sessions /\ sessions'[b] = sessions[b]
      BY <2>6 DEF Logout, Restrict
    <3> QED  BY <2>1, <3>1
  <2> QED  BY <1>3, <2>3, <2>4, <2>5, <2>6 DEF AccountStep
<1>4. CASE Tick
  BY <1>4 DEF Tick, session
<1>5. CASE UNCHANGED vars
  BY <1>5 DEF vars, session
<1> QED  BY <1>1, <1>2, <1>3, <1>4, <1>5, NextCases

(* A session that is accepted carries the hash the account has now and its *)
(* login verified, and was inserted since the account was last enabled,    *)
(* unless a disabling overtook its commit.                                 *)
THEOREM LoginUsableWasVerified == Spec => []UsableWasVerified
<1>1. Init => GateType /\ SessionType /\ VerifiedInv
  BY InitType DEF Init, VerifiedInv
<1>2. GateType /\ SessionType /\ VerifiedInv /\ [Next]_vars
        => (GateType /\ SessionType /\ VerifiedInv)'
  BY NextGateType, SessionStep
<1>3. VerifiedInv => UsableWasVerified
  BY DEF VerifiedInv, Genuine, UsableWasVerified, Usable
<1> QED  BY <1>1, <1>2, <1>3, PTL DEF Spec

-----------------------------------------------------------------------------
(* Slots.                                                                  *)
Using == {a \in Attempts : pc[a] \in InSlot}

LEMMA UsingFinite == IsFiniteSet(Using) /\ Cardinality(Using) \in Nat
<1>1. Using \in SUBSET Attempts
  BY DEF Using
<1> QED  BY <1>1, AttemptsFinite, FS_Subset, FS_CardinalityType

LEMMA SlotsStep ==
  ASSUME GateType, slots \in 0 .. Slots, slots = Cardinality(Using), [Next]_vars
  PROVE  slots' \in 0 .. Slots /\ slots' = Cardinality(Using')
<1>0. Slots \in Nat /\ pc \in [Attempts -> {"idle", "allowed"} \cup InGate \cup InSlot \cup Answers]
  BY LimitsPositive DEF GateType
<1>1. ASSUME slots' = slots, \A b \in Attempts : pc'[b] \in InSlot <=> pc[b] \in InSlot
      PROVE  slots' \in 0 .. Slots /\ slots' = Cardinality(Using')
  <2>1. Using' = Using
    BY <1>1 DEF Using
  <2> QED  BY <1>1, <2>1
<1>2. ASSUME NEW a \in Attempts, GateStep(a) PROVE slots' \in 0 .. Slots /\ slots' = Cardinality(Using')
  BY <1>1, <1>2, GateStepLeaves
<1>3. ASSUME NEW a \in Attempts, SlotStep(a) PROVE slots' \in 0 .. Slots /\ slots' = Cardinality(Using')
  <2>1. \/ slots' = slots /\ (pc'[a] \in InSlot <=> pc[a] \in InSlot)
        \/ slots < Slots /\ slots' = slots + 1 /\ pc[a] \notin InSlot /\ pc'[a] \in InSlot
        \/ slots' = slots - 1 /\ pc[a] \in InSlot /\ pc'[a] \notin InSlot
    BY <1>0, <1>3 DEF SlotStep, TakeSlot, Verify, LoseUser, InsertSession, CommitSession, Goto, Leave, InSlot, session
  <2>2. \A b \in Attempts : b # a => pc'[b] = pc[b]
    BY <1>3, SlotStepLeaves
  <2>3. CASE slots' = slots /\ (pc'[a] \in InSlot <=> pc[a] \in InSlot)
    BY <1>1, <2>2, <2>3
  <2>4. CASE slots < Slots /\ slots' = slots + 1 /\ pc[a] \notin InSlot /\ pc'[a] \in InSlot
    <3>1. a \notin Using /\ Using' = Using \cup {a}
      BY <2>2, <2>4 DEF Using
    <3>2. Cardinality(Using') = Cardinality(Using) + 1
      BY <3>1, UsingFinite, FS_AddElement
    <3> QED  BY <1>0, <2>4, <3>2
  <2>5. CASE slots' = slots - 1 /\ pc[a] \in InSlot /\ pc'[a] \notin InSlot
    <3>1. a \in Using /\ Using' = Using \ {a}
      BY <2>2, <2>5 DEF Using
    <3>2. Cardinality(Using') = Cardinality(Using) - 1
      BY <3>1, UsingFinite, FS_RemoveElement
    <3>3. Cardinality(Using) # 0
      BY <3>1, UsingFinite, FS_EmptySet
    <3> QED  BY <1>0, <2>5, <3>2, <3>3, UsingFinite
  <2> QED  BY <2>1, <2>3, <2>4, <2>5
<1>4. CASE AccountStep
  BY <1>1, <1>4, AccountStepLeaves
<1>5. CASE Tick
  BY <1>1, <1>5 DEF Tick
<1>6. CASE UNCHANGED vars
  BY <1>1, <1>6 DEF vars
<1> QED  BY <1>2, <1>3, <1>4, <1>5, <1>6, NextCases

LEMMA SlotsInductive == Spec => [](GateType /\ slots \in 0 .. Slots /\ slots = Cardinality(Using))
<1>1. Init => GateType /\ slots \in 0 .. Slots /\ slots = Cardinality(Using)
  <2> SUFFICES ASSUME Init PROVE slots \in 0 .. Slots /\ slots = Cardinality(Using)
    BY InitType
  <2>1. Using = {}
    BY DEF Init, Using, InSlot
  <2>2. slots = 0 /\ Slots \in Nat
    BY LimitsPositive DEF Init
  <2> QED  BY <2>1, <2>2, FS_EmptySet
<1>2. GateType /\ slots \in 0 .. Slots /\ slots = Cardinality(Using) /\ [Next]_vars
        => (GateType /\ slots \in 0 .. Slots /\ slots = Cardinality(Using))'
  BY NextGateType, SlotsStep
<1> QED  BY <1>1, <1>2, PTL DEF Spec

(* Every way out of the password check gives its slot back, and no more    *)
(* than that: the count never leaves its bounds.                           *)
THEOREM LoginSlotsReturned == Spec => []SlotsReturned
<1>1. slots = Cardinality(Using) => SlotsReturned
  BY DEF SlotsReturned, Using
<1> QED  BY <1>1, SlotsInductive, PTL

(* The variables keep their types; the slots stay within the channel.      *)
THEOREM LoginType == Spec => []TypeOK
<1>1. Init => GateType /\ SessionType /\ VerifiedInv
  BY InitType DEF Init, VerifiedInv
<1>2. GateType /\ SessionType /\ VerifiedInv /\ [Next]_vars
        => (GateType /\ SessionType /\ VerifiedInv)'
  BY NextGateType, SessionStep
<1>3. GateType /\ SessionType /\ slots \in 0 .. Slots => TypeOK
  BY DEF TypeOK
<1> QED  BY <1>1, <1>2, <1>3, SlotsInductive, PTL DEF Spec

-----------------------------------------------------------------------------
Open(a) == pc[a] \in InGate

(* The attempts counted under a key, and those whose count is committed.   *)
CountedUnder(k) == {a \in Attempts : k \in DOMAIN counts[a]}
Done(k) == {a \in CountedUnder(k) : ~Open(a)}

(* What the position of an attempt says about its transaction.             *)
StepInv ==
    \A a \in Attempts :
        /\ stamp[a] <= clock
        /\ Open(a) => clock <= stamp[a] + 1
        /\ ~Open(a) => DOMAIN change[a] = {}
        /\ pc[a] \in {"idle", "sweeping"} => DOMAIN counts[a] = {}
        /\ pc[a] = "counting" => Name \notin DOMAIN counts[a]
        /\ pc[a] \in {"counting", "counted"} => victims[a] = {}

(* A row is locked by at most one transaction.                             *)
LockInv ==
    \A a, b \in Attempts : \A k \in DOMAIN change[a] : k \in DOMAIN change[b] => a = b

(* An open transaction has either counted a row it changed or removed one  *)
(* that was over; and the rows that were over when it began are removed,   *)
(* or still to be looked at.                                               *)
ChangeInv ==
    \A a \in Attempts : Open(a) =>
        /\ \A k \in DOMAIN counts[a] : k \in DOMAIN change[a] /\ change[a][k] = counts[a][k]
        /\ \A k \in DOMAIN change[a] \ DOMAIN counts[a] :
              /\ change[a][k] = Gone
              /\ k \in DOMAIN rows => rows[k].end <= stamp[a]
        /\ \A k \in DOMAIN rows :
              rows[k].end <= stamp[a] => k \in victims[a] \/ k \in DOMAIN change[a]

(* What an open transaction counted is one more than the row that is       *)
(* committed, or the first of a new window.                                *)
CountInv ==
    \A a \in Attempts : Open(a) => \A k \in DOMAIN counts[a] :
        \/ /\ k \in DOMAIN rows /\ rows[k].end > stamp[a]
           /\ counts[a][k] = [attempts |-> rows[k].attempts + 1, end |-> rows[k].end]
        \/ /\ k \in DOMAIN rows => rows[k].end <= stamp[a]
           /\ counts[a][k] = [attempts |-> 1, end |-> stamp[a] + Window]

(* A row and the committed attempts: those of its window took the numbers  *)
(* up to its count, and every other window is over.                        *)
RowInv ==
    \A k \in Keys :
        IF k \in DOMAIN rows
        THEN /\ rows[k].end <= clock + Window
             /\ rows[k].attempts >= 1
             /\ \A a \in Done(k) :
                   /\ counts[a][k].end <= rows[k].end
                   /\ counts[a][k].end = rows[k].end \/ counts[a][k].end <= clock
                   /\ counts[a][k].end = rows[k].end => counts[a][k].attempts <= rows[k].attempts
             /\ \A n \in 1 .. rows[k].attempts : \E a \in Done(k) :
                   counts[a][k] = [attempts |-> n, end |-> rows[k].end]
        ELSE \A a \in Done(k) : counts[a][k].end <= clock

(* The windows of a key: an attempt is counted before the end of its       *)
(* window; a later window ends almost a window later, and its attempts     *)
(* began at most a transaction before the end of the earlier one; within a *)
(* window no number is given twice, and the ones below a number are given. *)
Numbered(a, k) ==
    /\ stamp[a] < counts[a][k].end
    /\ counts[a][k].end <= stamp[a] + Window + 1
    /\ counts[a][k].attempts >= 1
    /\ \A n \in 1 .. counts[a][k].attempts - 1 : \E b \in Done(k) :
          counts[b][k] = [attempts |-> n, end |-> counts[a][k].end]

Apart(a, b, k) ==
    /\ counts[a][k].end < counts[b][k].end =>
          /\ counts[a][k].end + Window - 1 <= counts[b][k].end
          /\ counts[a][k].end <= stamp[b] + 1
    /\ counts[a][k] = counts[b][k] => a = b

WindowInv ==
    \A k \in Keys : \A a \in CountedUnder(k) :
        Numbered(a, k) /\ \A b \in CountedUnder(k) : Apart(a, b, k)

GateInv == StepInv /\ LockInv /\ ChangeInv /\ CountInv /\ RowInv /\ WindowInv

LEMMA InitGate == Init => GateInv
<1> SUFFICES ASSUME Init PROVE GateInv
  OBVIOUS
<1>1. \A a \in Attempts : pc[a] = "idle" /\ ~Open(a) /\ DOMAIN counts[a] = {} /\ DOMAIN change[a] = {}
                          /\ stamp[a] = 0
  BY DEF Init, Open, InGate
<1>2. clock = 0 /\ DOMAIN rows = {} /\ \A k : CountedUnder(k) = {} /\ Done(k) = {}
  BY <1>1 DEF Init, CountedUnder, Done
<1> QED  BY <1>1, <1>2 DEF GateInv, StepInv, LockInv, ChangeInv, CountInv, RowInv, WindowInv, Numbered, Apart

(* The numbers the invariants are about.                                   *)
LEMMA Numbers ==
  ASSUME GateType
  PROVE  /\ clock \in Nat /\ Window \in Nat /\ Window >= 2
         /\ \A a \in Attempts : stamp[a] \in Nat
         /\ \A k \in DOMAIN rows :
               /\ k \in Keys /\ rows[k] # Gone
               /\ rows[k].end \in Nat /\ rows[k].attempts \in Nat
               /\ rows[k] = [attempts |-> rows[k].attempts, end |-> rows[k].end]
         /\ \A a \in Attempts : \A k \in DOMAIN counts[a] :
               /\ k \in Keys /\ counts[a][k] # Gone
               /\ counts[a][k].end \in Nat /\ counts[a][k].attempts \in Nat
               /\ counts[a][k] = [attempts |-> counts[a][k].attempts, end |-> counts[a][k].end]
<1>1. \A r \in Row \ {Gone} : r # Gone /\ r.end \in Nat /\ r.attempts \in Nat
                             /\ r = [attempts |-> r.attempts, end |-> r.end]
  BY RowFacts
<1>2. clock \in Nat /\ \A a \in Attempts : stamp[a] \in Nat
  BY WindowFacts DEF GateType
<1> QED  BY <1>1, <1>2, WindowFacts DEF GateType

(* Steps that leave the counts, the rows and the locks alone.              *)
Frame ==
    /\ UNCHANGED <<rows, change, counts, victims>>
    /\ clock' \in Nat /\ clock' >= clock
    /\ \A a \in Attempts :
          /\ Open(a)' <=> Open(a)
          /\ stamp'[a] = stamp[a]
          /\ Open(a) => clock' <= stamp[a] + 1
          /\ pc'[a] \in {"idle", "sweeping", "counting", "counted"} => pc'[a] = pc[a]

LEMMA FrameStep ==
  ASSUME GateType, GateInv, Frame
  PROVE  GateInv'
<1> USE DEF GateInv, Frame
<1>1. StepInv'
  BY Numbers DEF StepInv
<1>2. LockInv'
  BY DEF LockInv
<1>3. ChangeInv'
  BY DEF ChangeInv
<1>4. CountInv'
  BY DEF CountInv
<1>5. \A k : CountedUnder(k)' = CountedUnder(k) /\ Done(k)' = Done(k)
  BY DEF CountedUnder, Done
<1>6. \A k : \A a \in CountedUnder(k) : stamp'[a] = stamp[a]
  BY DEF CountedUnder
<1>7. \A k : \A a \in Done(k) : counts[a][k].end \in Nat
  BY Numbers DEF Done, CountedUnder
<1>8. RowInv'
  BY <1>5, <1>7, Numbers DEF RowInv
<1>9. WindowInv'
  BY <1>5, <1>6 DEF WindowInv, Numbered, Apart
<1> QED  BY <1>1, <1>2, <1>3, <1>4, <1>8, <1>9

LEMMA FrameCases ==
  ASSUME GateType, StepInv, [Next]_vars
  PROVE  Frame \/ \E a \in Attempts : GateStep(a)
<1>1. ASSUME NEW a \in Attempts, SlotStep(a) PROVE Frame
  <2>1. UNCHANGED <<clock, gate>> /\ \A b \in Attempts : b # a => pc'[b] = pc[b]
    BY <1>1, SlotStepLeaves
  <2>2. ~Open(a) /\ ~Open(a)' /\ pc'[a] \notin {"idle", "sweeping", "counting", "counted"}
    BY <1>1, SlotStepLeaves DEF Open, InGate, InSlot, Answers
  <2> QED  BY <2>1, <2>2, Numbers DEF Frame, gate, StepInv, Open
<1>2. CASE AccountStep
  BY <1>2, AccountStepLeaves, Numbers DEF Frame, gate, StepInv, Open
<1>3. CASE Tick
  <2>1. /\ clock' = clock + 1 /\ UNCHANGED <<rows, change, victims, stamp, counts, pc>>
        /\ \A a \in Attempts : Open(a) => stamp[a] = clock
    BY <1>3 DEF Tick, gate, Open
  <2> QED  BY <2>1, Numbers DEF Frame, Open
<1>4. CASE UNCHANGED vars
  BY <1>4, Numbers DEF vars, Frame, gate, StepInv, Open
<1> QED  BY <1>1, <1>2, <1>3, <1>4, NextCases

(* Rows and windows move only when a count is made, committed or undone.   *)
LEMMA QuietWindows ==
  ASSUME RowInv, WindowInv, rows' = rows, counts' = counts, clock' = clock,
         \A a \in Attempts : DOMAIN counts[a] # {} =>
            stamp'[a] = stamp[a] /\ (Open(a)' <=> Open(a))
  PROVE  RowInv' /\ WindowInv'
<1>1. \A k : CountedUnder(k)' = CountedUnder(k) /\ Done(k)' = Done(k)
  BY DEF CountedUnder, Done
<1>2. \A k : \A a \in CountedUnder(k) : stamp'[a] = stamp[a]
  BY DEF CountedUnder
<1> QED  BY <1>1, <1>2 DEF RowInv, WindowInv, Numbered, Apart

LEMMA BeginStep ==
  ASSUME GateType, GateInv, NEW a \in Attempts, BeginAllow(a)
  PROVE  GateInv'
<1> USE DEF GateInv
<1>1. /\ pc[a] = "idle" /\ ~Open(a) /\ pc'[a] = "sweeping" /\ Open(a)'
      /\ stamp'[a] = clock
      /\ victims'[a] = {k \in DOMAIN rows : rows[k].end <= clock}
      /\ UNCHANGED <<clock, rows, change, counts>>
      /\ \A b \in Attempts : b # a =>
            pc'[b] = pc[b] /\ stamp'[b] = stamp[b] /\ victims'[b] = victims[b] /\ (Open(b)' <=> Open(b))
  BY DEF BeginAllow, Goto, GateType, Open, InGate, Over
<1>2. DOMAIN change[a] = {} /\ DOMAIN counts[a] = {}
  BY <1>1 DEF StepInv
<1>3. StepInv'
  BY <1>1, <1>2, Numbers DEF StepInv
<1>4. LockInv'
  BY <1>1 DEF LockInv
<1>5. ChangeInv'
  BY <1>1, <1>2 DEF ChangeInv
<1>6. CountInv'
  BY <1>1, <1>2 DEF CountInv
<1>7. RowInv' /\ WindowInv'
  BY <1>1, <1>2, QuietWindows
<1> QED  BY <1>3, <1>4, <1>5, <1>6, <1>7

LEMMA EndSweepStep ==
  ASSUME GateType, GateInv, NEW a \in Attempts, EndSweep(a)
  PROVE  GateInv'
<1> USE DEF GateInv
<1>1. /\ pc[a] = "sweeping" /\ Open(a) /\ pc'[a] = "counting" /\ Open(a)'
      /\ victims[a] = {}
      /\ UNCHANGED <<clock, rows, change, counts, stamp, victims>>
      /\ \A b \in Attempts : b # a => pc'[b] = pc[b] /\ (Open(b)' <=> Open(b))
  BY DEF EndSweep, Goto, GateType, Open, InGate, gate
<1>2. DOMAIN counts[a] = {}
  BY <1>1 DEF StepInv
<1>3. StepInv'
  BY <1>1, <1>2 DEF StepInv
<1>4. LockInv'
  BY <1>1 DEF LockInv
<1>5. ChangeInv'
  BY <1>1, <1>2 DEF ChangeInv
<1>6. CountInv'
  BY <1>1, <1>2 DEF CountInv
<1>7. RowInv' /\ WindowInv'
  BY <1>1, <1>2, QuietWindows
<1> QED  BY <1>3, <1>4, <1>5, <1>6, <1>7

LEMMA SweepStep ==
  ASSUME GateType, GateInv, NEW a \in Attempts, NEW k \in Keys, Sweep(a, k)
  PROVE  GateInv'
<1> USE DEF GateInv
<1>1. /\ pc[a] = "sweeping" /\ Open(a) /\ pc' = pc
      /\ victims'[a] = victims[a] \ {k}
      /\ UNCHANGED <<clock, rows, counts, stamp>>
      /\ \A b \in Attempts : b # a => change'[b] = change[b] /\ victims'[b] = victims[b]
      /\ \A b \in Attempts : b # a => k \notin DOMAIN change[b]
      /\ \A b \in Attempts : Open(b)' <=> Open(b)
  BY DEF Sweep, GateType, Open, InGate, LockedByOther
<1>2. DOMAIN counts[a] = {}
  BY <1>1 DEF StepInv
<1>3. \/ k \in DOMAIN rows /\ rows[k].end <= stamp[a] /\ change'[a] = With(change[a], k, Gone)
      \/ ~(k \in DOMAIN rows /\ rows[k].end <= stamp[a]) /\ change'[a] = change[a]
  BY DEF Sweep, GateType, Over
<1>4. /\ DOMAIN change[a] \subseteq DOMAIN change'[a] /\ DOMAIN change'[a] \subseteq DOMAIN change[a] \cup {k}
      /\ \A x \in DOMAIN change'[a] : change'[a][x] = Gone
                                     /\ (x \in DOMAIN rows => rows[x].end <= stamp[a])
      /\ k \in DOMAIN rows /\ rows[k].end <= stamp[a] => k \in DOMAIN change'[a]
  BY <1>1, <1>2, <1>3 DEF With, ChangeInv
<1>5. StepInv'
  BY <1>1, <1>2 DEF StepInv
<1>6. LockInv'
  BY <1>1, <1>4 DEF LockInv
<1>7. ChangeInv'
  BY <1>1, <1>2, <1>4 DEF ChangeInv
<1>8. CountInv'
  BY <1>1, <1>2 DEF CountInv
<1>9. RowInv' /\ WindowInv'
  BY <1>1, <1>2, QuietWindows
<1> QED  BY <1>5, <1>6, <1>7, <1>8, <1>9

(* The row a count finds: one of a window that is not over, or none that   *)
(* still holds.                                                            *)
LEMMA CountFinds ==
  ASSUME GateType, GateInv, NEW a \in Attempts, Count(a)
  PROVE  LET k   == NextKey(a)
             row == Counted(Seen(a, k), stamp[a])
         IN  /\ k \in Keys /\ k \notin DOMAIN counts[a]
             /\ \/ /\ k \in DOMAIN rows /\ rows[k].end > stamp[a]
                   /\ row = [attempts |-> rows[k].attempts + 1, end |-> rows[k].end]
                \/ /\ k \in DOMAIN rows => rows[k].end <= stamp[a]
                   /\ row = [attempts |-> 1, end |-> stamp[a] + Window]
<1> USE DEF GateInv
<1> DEFINE k == NextKey(a)
<1>1. /\ pc[a] = "counting" /\ Open(a)
      /\ Name \notin DOMAIN counts[a] /\ victims[a] = {}
  BY DEF Count, Open, InGate, StepInv
<1>2. k \in Keys /\ k \notin DOMAIN counts[a]
  BY <1>1 DEF NextKey, Keys, GateType
<1>3. stamp[a] \in Nat
  BY Numbers
<1> HIDE DEF k
<1>4. CASE k \in DOMAIN change[a]
  <2>1. change[a][k] = Gone /\ (k \in DOMAIN rows => rows[k].end <= stamp[a])
    BY <1>1, <1>2, <1>4 DEF ChangeInv
  <2>2. Seen(a, k) = Gone
    BY <1>4, <2>1 DEF Seen
  <2>3. Counted(Seen(a, k), stamp[a]) = [attempts |-> 1, end |-> stamp[a] + Window]
    BY <1>3, <2>2, RowFacts, CountedFacts
  <2> QED  BY <1>2, <2>1, <2>3 DEF k
<1>5. CASE k \notin DOMAIN change[a] /\ k \in DOMAIN rows
  <2>1. Seen(a, k) = rows[k] /\ rows[k] # Gone /\ rows[k] \in Row /\ rows[k].end \in Nat
    BY <1>5, Numbers DEF Seen, GateType
  <2>2. Counted(Seen(a, k), stamp[a]) = [attempts |-> rows[k].attempts + 1, end |-> rows[k].end]
    BY <1>3, <2>1, CountedFacts
  <2>3. rows[k].end > stamp[a]
    BY <1>1, <1>3, <1>5, <2>1 DEF ChangeInv
  <2> QED  BY <1>2, <1>5, <2>2, <2>3 DEF k
<1>6. CASE k \notin DOMAIN change[a] /\ k \notin DOMAIN rows
  <2>1. Seen(a, k) = Gone
    BY <1>6 DEF Seen
  <2>2. Counted(Seen(a, k), stamp[a]) = [attempts |-> 1, end |-> stamp[a] + Window]
    BY <1>3, <2>1, RowFacts, CountedFacts
  <2> QED  BY <1>2, <1>6, <2>2 DEF k
<1> QED  BY <1>4, <1>5, <1>6

LEMMA CountStep ==
  ASSUME GateType, GateInv, NEW a \in Attempts, Count(a)
  PROVE  GateInv'
<1> USE DEF GateInv
<1>0. PICK k, row : k = NextKey(a) /\ row = Counted(Seen(a, k), stamp[a])
  OBVIOUS
<1>1. /\ pc[a] = "counting" /\ Open(a)
      /\ Name \notin DOMAIN counts[a] /\ victims[a] = {}
      /\ stamp[a] <= clock /\ clock <= stamp[a] + 1
  BY DEF Count, Open, InGate, StepInv
<1>2. /\ UNCHANGED <<clock, rows, victims, stamp>>
      /\ change'[a] = With(change[a], k, row) /\ counts'[a] = With(counts[a], k, row)
      /\ \A b \in Attempts : b # a =>
            /\ change'[b] = change[b] /\ counts'[b] = counts[b] /\ pc'[b] = pc[b]
            /\ k \notin DOMAIN change[b]
      /\ \/ pc'[a] = "counted"
         \/ pc'[a] = "counting" /\ k # Name
  BY <1>0 DEF Count, Goto, GateType, LockedByOther
<1>3. /\ k \in Keys /\ k \notin DOMAIN counts[a]
      /\ \/ /\ k \in DOMAIN rows /\ rows[k].end > stamp[a]
            /\ row = [attempts |-> rows[k].attempts + 1, end |-> rows[k].end]
         \/ /\ k \in DOMAIN rows => rows[k].end <= stamp[a]
            /\ row = [attempts |-> 1, end |-> stamp[a] + Window]
  BY <1>0, CountFinds
<1>4. /\ DOMAIN change'[a] = DOMAIN change[a] \cup {k} /\ change'[a][k] = row
      /\ \A x \in DOMAIN change[a] : x # k => change'[a][x] = change[a][x]
      /\ DOMAIN counts'[a] = DOMAIN counts[a] \cup {k} /\ counts'[a][k] = row
      /\ \A x \in DOMAIN counts[a] : x # k => counts'[a][x] = counts[a][x]
  BY <1>2, Zenon DEF With
<1>5. \A b \in Attempts : Open(b)' <=> Open(b)
  BY <1>1, <1>2 DEF Open, InGate
<1>6. StepInv'
  BY <1>1, <1>2, <1>4, <1>5 DEF StepInv
<1>7. LockInv'
  BY <1>2, <1>4 DEF LockInv
<1>8. ChangeInv'
  BY <1>1, <1>2, <1>3, <1>4, <1>5 DEF ChangeInv
<1>9. CountInv'
  BY <1>1, <1>2, <1>3, <1>4, <1>5 DEF CountInv
<1>10. /\ \A x : x # k => CountedUnder(x)' = CountedUnder(x)
       /\ CountedUnder(k)' = CountedUnder(k) \cup {a}
       /\ \A x : Done(x)' = Done(x) /\ a \notin Done(x)
       /\ \A x : Done(x) \subseteq CountedUnder(x) /\ CountedUnder(x) \subseteq Attempts
  <2>1. \A x : x # k => CountedUnder(x)' = CountedUnder(x)
    BY <1>2, <1>4 DEF CountedUnder
  <2>2. CountedUnder(k)' = CountedUnder(k) \cup {a}
    BY <1>2, <1>4 DEF CountedUnder
  <2>3. Open(a) /\ Open(a)'
    BY <1>1, <1>5
  <2>4. \A x : Done(x)' = Done(x)
    BY <1>2, <1>4, <1>5, <2>3 DEF CountedUnder, Done
  <2> QED  BY <2>1, <2>2, <2>3, <2>4 DEF CountedUnder, Done
<1>11. \A x : \A b \in CountedUnder(x) : counts'[b][x] = counts[b][x]
  BY <1>2, <1>3, <1>4 DEF CountedUnder
<1>12. RowInv'
  BY <1>2, <1>10, <1>11 DEF RowInv
<1>13. CountedUnder(k) = Done(k) /\ a \notin CountedUnder(k)
  BY <1>1, <1>2, <1>3 DEF CountedUnder, Done, ChangeInv
<1>14. /\ stamp[a] \in Nat /\ clock \in Nat /\ Window \in Nat /\ Window >= 2
       /\ k \in DOMAIN rows => rows[k].end \in Nat /\ rows[k].attempts \in Nat
       /\ \A b \in CountedUnder(k) :
             /\ stamp[b] \in Nat /\ counts[b][k].end \in Nat /\ counts[b][k].attempts \in Nat
             /\ counts[b][k] = [attempts |-> counts[b][k].attempts, end |-> counts[b][k].end]
  BY Numbers DEF CountedUnder
<1>15. ASSUME NEW x \in Keys, x # k, NEW c \in CountedUnder(x)'
       PROVE  Numbered(c, x)' /\ \A b \in CountedUnder(x)' : Apart(c, b, x)'
  BY <1>2, <1>10, <1>11, <1>15 DEF WindowInv, Numbered, Apart
<1>16. \A c \in CountedUnder(k) : Numbered(c, k)' /\ \A b \in CountedUnder(k) : Apart(c, b, k)'
  BY <1>2, <1>3, <1>10, <1>11 DEF WindowInv, Numbered, Apart
<1>17. /\ Numbered(a, k)' /\ Apart(a, a, k)'
       /\ \A b \in CountedUnder(k) : Apart(a, b, k)' /\ Apart(b, a, k)'
  <2>1. CASE /\ k \in DOMAIN rows /\ rows[k].end > stamp[a]
             /\ row = [attempts |-> rows[k].attempts + 1, end |-> rows[k].end]
    <3>0. PICK w, m : w = rows[k].end /\ m = rows[k].attempts
      OBVIOUS
    <3>1. /\ w \in Nat /\ m \in Nat /\ m >= 1 /\ stamp[a] < w /\ w <= clock + Window
          /\ row.end = w /\ row.attempts = m + 1
      BY <1>3, <1>14, <2>1, <3>0 DEF RowInv
    <3>2. /\ \A b \in CountedUnder(k) :
                /\ counts[b][k].end <= w
                /\ counts[b][k].end = w \/ counts[b][k].end <= clock
                /\ counts[b][k].end = w => counts[b][k].attempts <= m
          /\ \A n \in 1 .. m : \E b \in CountedUnder(k) : counts[b][k] = [attempts |-> n, end |-> w]
      BY <1>3, <1>13, <2>1, <3>0 DEF RowInv
    <3>3. \A b \in CountedUnder(k) : counts[b][k].end < w => counts[b][k].end + Window - 1 <= w
      <4>1. PICK d \in CountedUnder(k) : counts[d][k] = [attempts |-> 1, end |-> w]
        BY <3>1, <3>2
      <4>2. counts[d][k].end = w
        BY <4>1
      <4> QED  BY <1>3, <4>2 DEF WindowInv, Apart
    <3>4. Numbered(a, k)'
      BY <1>1, <1>2, <1>4, <1>10, <1>11, <1>13, <1>14, <3>1, <3>2 DEF Numbered
    <3>5. \A b \in CountedUnder(k) :
             /\ ~(w < counts[b][k].end) /\ row # counts[b][k]
             /\ counts[b][k].end < w => /\ counts[b][k].end + Window - 1 <= w
                                        /\ counts[b][k].end <= stamp[a] + 1
      <4> TAKE b \in CountedUnder(k)
      <4>1. PICK e, n : e = counts[b][k].end /\ n = counts[b][k].attempts
        OBVIOUS
      <4>2. /\ e \in Nat /\ n \in Nat /\ e <= w /\ (e = w => n <= m) /\ (e = w \/ e <= clock)
            /\ e < w => e + Window - 1 <= w
        BY <1>14, <3>2, <3>3, <4>1
      <4>3. row # counts[b][k]
        BY <3>1, <4>1, <4>2
      <4>4. ~(w < e) /\ (e < w => e <= stamp[a] + 1)
        BY <1>1, <1>14, <3>1, <4>2
      <4> QED  BY <4>1, <4>2, <4>3, <4>4
    <3> QED  BY <1>2, <1>4, <1>11, <3>1, <3>4, <3>5 DEF Apart
  <2>2. CASE /\ k \in DOMAIN rows => rows[k].end <= stamp[a]
             /\ row = [attempts |-> 1, end |-> stamp[a] + Window]
    <3>1. \A b \in CountedUnder(k) : counts[b][k].end <= clock
      BY <1>1, <1>3, <1>13, <1>14, <2>2 DEF RowInv
    <3>2. row.end = stamp[a] + Window /\ row.attempts = 1
      BY <2>2
    <3>3. Numbered(a, k)'
      BY <1>1, <1>2, <1>4, <1>14, <3>2 DEF Numbered
    <3>4. \A b \in CountedUnder(k) :
             /\ ~(row.end < counts[b][k].end) /\ row # counts[b][k]
             /\ counts[b][k].end + Window - 1 <= row.end
             /\ counts[b][k].end <= stamp[a] + 1
      <4> TAKE b \in CountedUnder(k)
      <4>1. PICK e : e = counts[b][k].end
        OBVIOUS
      <4>2. e \in Nat /\ e <= clock
        BY <1>14, <3>1, <4>1
      <4>3. ~(row.end < e) /\ row.end # e /\ e + Window - 1 <= row.end /\ e <= stamp[a] + 1
        BY <1>1, <1>14, <3>2, <4>2
      <4> QED  BY <4>1, <4>3
    <3>5. row.end \in Nat
      BY <1>14, <3>2
    <3> QED  BY <1>2, <1>4, <1>11, <3>3, <3>4, <3>5 DEF Apart
  <2> QED  BY <1>3, <2>1, <2>2
<1>18. WindowInv'
  BY <1>10, <1>15, <1>16, <1>17 DEF WindowInv
<1> QED  BY <1>6, <1>7, <1>8, <1>9, <1>12, <1>18

LEMMA AbortStep ==
  ASSUME GateType, GateInv, NEW a \in Attempts, AbortAllow(a)
  PROVE  GateInv'
<1> USE DEF GateInv
<1>1. /\ Open(a) /\ ~Open(a)' /\ pc'[a] = "unavailable"
      /\ DOMAIN change'[a] = {} /\ DOMAIN counts'[a] = {}
      /\ UNCHANGED <<clock, rows, stamp>>
      /\ \A b \in Attempts : b # a =>
            /\ change'[b] = change[b] /\ counts'[b] = counts[b] /\ pc'[b] = pc[b]
            /\ victims'[b] = victims[b] /\ (Open(b)' <=> Open(b))
  BY DEF AbortAllow, Goto, GateType, Open, InGate
<1>2. StepInv'
  BY <1>1 DEF StepInv
<1>3. LockInv'
  BY <1>1 DEF LockInv
<1>4. ChangeInv'
  BY <1>1 DEF ChangeInv
<1>5. CountInv'
  BY <1>1 DEF CountInv
<1>6. /\ \A k : CountedUnder(k)' = CountedUnder(k) \ {a}
      /\ \A k : Done(k)' = Done(k) /\ a \notin Done(k)
      /\ \A k : CountedUnder(k) \subseteq Attempts /\ Done(k) \subseteq Attempts
  BY <1>1 DEF CountedUnder, Done
<1>7. RowInv'
  BY <1>1, <1>6 DEF RowInv
<1>8. \A b \in Attempts : b # a => counts'[b] = counts[b] /\ stamp'[b] = stamp[b]
  BY <1>1
<1>9. WindowInv'
  BY <1>6, <1>8 DEF WindowInv, Numbered, Apart
<1> QED  BY <1>2, <1>3, <1>4, <1>5, <1>7, <1>9

(* The rows after a commit, key by key.                                    *)
LEMMA CommitLeaves ==
  ASSUME GateType, GateInv, NEW a \in Attempts, Open(a), rows' = After(rows, change[a])
  PROVE  /\ \A k \in DOMAIN counts[a] :
               /\ k \in DOMAIN rows' /\ rows'[k] = counts[a][k]
               /\ k \in DOMAIN change[a]
         /\ \A k \in DOMAIN change[a] \ DOMAIN counts[a] :
               /\ k \notin DOMAIN rows'
               /\ k \in DOMAIN rows => rows[k].end <= stamp[a]
         /\ \A k : k \notin DOMAIN change[a] =>
               /\ k \in DOMAIN rows' <=> k \in DOMAIN rows
               /\ k \in DOMAIN rows => rows'[k] = rows[k]
<1> USE DEF GateInv
<1>1. /\ \A k : k \in DOMAIN rows' <=>
            \/ k \in DOMAIN change[a] /\ change[a][k] # Gone
            \/ k \in DOMAIN rows \ DOMAIN change[a] /\ rows[k] # Gone
      /\ \A k \in DOMAIN rows' :
            rows'[k] = IF k \in DOMAIN change[a] THEN change[a][k] ELSE rows[k]
  <2>1. PICK done : done = change[a]
    OBVIOUS
  <2>2. rows' = After(rows, done)
    BY <2>1
  <2>3. /\ \A k : k \in DOMAIN rows' <=>
              \/ k \in DOMAIN done /\ done[k] # Gone
              \/ k \in DOMAIN rows \ DOMAIN done /\ rows[k] # Gone
        /\ \A k \in DOMAIN rows' : rows'[k] = IF k \in DOMAIN done THEN done[k] ELSE rows[k]
    BY <2>2 DEF After
  <2> QED  BY <2>1, <2>3
<1>2. \A k \in DOMAIN counts[a] : k \in DOMAIN change[a] /\ change[a][k] = counts[a][k] /\ counts[a][k] # Gone
  BY Numbers DEF ChangeInv
<1>3. \A k \in DOMAIN change[a] \ DOMAIN counts[a] :
         change[a][k] = Gone /\ (k \in DOMAIN rows => rows[k].end <= stamp[a])
  BY DEF ChangeInv
<1>4. \A k \in DOMAIN rows : rows[k] # Gone
  BY Numbers
<1> QED  BY <1>1, <1>2, <1>3, <1>4

LEMMA CommitStep ==
  ASSUME GateType, GateInv, NEW a \in Attempts, NEW reply \in BOOLEAN, CommitAllow(a, reply)
  PROVE  GateInv'
<1> USE DEF GateInv
<1>1. /\ Open(a) /\ ~Open(a)' /\ pc'[a] \in {"unavailable", "allowed", "limited"}
      /\ DOMAIN change'[a] = {} /\ rows' = After(rows, change[a])
      /\ stamp[a] <= clock /\ clock <= stamp[a] + 1
      /\ UNCHANGED <<clock, counts, stamp, victims>>
      /\ \A b \in Attempts : b # a =>
            change'[b] = change[b] /\ pc'[b] = pc[b] /\ (Open(b)' <=> Open(b))
  <2>1. /\ pc[a] = "counted" /\ rows' = After(rows, change[a])
        /\ UNCHANGED <<clock, counts, stamp, victims>>
        /\ DOMAIN change'[a] = {} /\ pc'[a] \in {"unavailable", "allowed", "limited"}
        /\ \A b \in Attempts : b # a => change'[b] = change[b] /\ pc'[b] = pc[b]
    BY DEF CommitAllow, Goto, GateType
  <2> QED  BY <2>1 DEF Open, InGate, StepInv
<1>2. /\ \A k \in DOMAIN counts[a] :
            k \in DOMAIN rows' /\ rows'[k] = counts[a][k] /\ k \in DOMAIN change[a]
      /\ \A k \in DOMAIN change[a] \ DOMAIN counts[a] :
            k \notin DOMAIN rows' /\ (k \in DOMAIN rows => rows[k].end <= stamp[a])
      /\ \A k : k \notin DOMAIN change[a] =>
            (k \in DOMAIN rows' <=> k \in DOMAIN rows) /\ (k \in DOMAIN rows => rows'[k] = rows[k])
  BY <1>1, CommitLeaves
<1>3. StepInv'
  BY <1>1 DEF StepInv
<1>4. LockInv'
  BY <1>1 DEF LockInv
<1>5. \A b \in Attempts : b # a => \A k \in DOMAIN change[b] : k \notin DOMAIN change[a]
  BY DEF LockInv
<1>6. \A k \in DOMAIN counts[a] :
         \/ /\ k \in DOMAIN rows /\ rows[k].end > stamp[a]
            /\ counts[a][k] = [attempts |-> rows[k].attempts + 1, end |-> rows[k].end]
         \/ /\ k \in DOMAIN rows => rows[k].end <= stamp[a]
            /\ counts[a][k] = [attempts |-> 1, end |-> stamp[a] + Window]
  BY <1>1 DEF CountInv
<1>7. ChangeInv'
  <2> SUFFICES ASSUME NEW b \in Attempts, b # a, Open(b)
               PROVE  /\ \A k \in DOMAIN counts[b] : k \in DOMAIN change[b] /\ change[b][k] = counts[b][k]
                      /\ \A k \in DOMAIN change[b] \ DOMAIN counts[b] :
                            change[b][k] = Gone /\ (k \in DOMAIN rows' => rows'[k].end <= stamp[b])
                      /\ \A k \in DOMAIN rows' :
                            rows'[k].end <= stamp[b] => k \in victims[b] \/ k \in DOMAIN change[b]
    BY <1>1 DEF ChangeInv
  <2>1. \A k \in DOMAIN counts[b] : k \in DOMAIN change[b] /\ change[b][k] = counts[b][k]
    BY DEF ChangeInv
  <2>2. \A k \in DOMAIN change[b] \ DOMAIN counts[b] :
           change[b][k] = Gone /\ (k \in DOMAIN rows' => rows'[k].end <= stamp[b])
    BY <1>2, <1>5 DEF ChangeInv
  <2>3. ASSUME NEW k \in DOMAIN rows', rows'[k].end <= stamp[b]
        PROVE  k \in victims[b] \/ k \in DOMAIN change[b]
    <3>1. CASE k \notin DOMAIN change[a]
      BY <1>2, <2>3, <3>1 DEF ChangeInv
    <3>2. CASE k \in DOMAIN change[a]
      <4>1. k \in DOMAIN counts[a] /\ rows'[k] = counts[a][k]
        BY <1>2, <3>2
      <4>2. counts[a][k].end # stamp[a] + Window
        <5>1. stamp[b] <= clock
          BY DEF StepInv
        <5> QED  BY <1>1, <2>3, <4>1, <5>1, Numbers
      <4>3. k \in DOMAIN rows /\ counts[a][k].end = rows[k].end
        <5>1. CASE counts[a][k] = [attempts |-> 1, end |-> stamp[a] + Window]
          BY <4>2, <5>1
        <5>2. CASE k \in DOMAIN rows /\ counts[a][k] = [attempts |-> rows[k].attempts + 1, end |-> rows[k].end]
          BY <5>2
        <5> QED  BY <1>6, <4>1, <5>1, <5>2
      <4> QED  BY <2>3, <4>1, <4>3 DEF ChangeInv
    <3> QED  BY <3>1, <3>2
  <2> QED  BY <2>1, <2>2, <2>3
<1>8. CountInv'
  <2> SUFFICES ASSUME NEW b \in Attempts, b # a, Open(b), NEW k \in DOMAIN counts[b]
               PROVE  \/ /\ k \in DOMAIN rows' /\ rows'[k].end > stamp[b]
                         /\ counts[b][k] = [attempts |-> rows'[k].attempts + 1, end |-> rows'[k].end]
                      \/ /\ k \in DOMAIN rows' => rows'[k].end <= stamp[b]
                         /\ counts[b][k] = [attempts |-> 1, end |-> stamp[b] + Window]
    BY <1>1 DEF CountInv
  <2>1. k \notin DOMAIN change[a]
    BY <1>5 DEF ChangeInv
  <2> QED  BY <1>2, <2>1 DEF CountInv
<1>9. /\ \A k : CountedUnder(k)' = CountedUnder(k) /\ CountedUnder(k) \subseteq Attempts
      /\ \A k : Done(k) \subseteq CountedUnder(k) /\ Done(k) \subseteq Done(k)'
      /\ \A k : k \notin DOMAIN counts[a] => Done(k)' = Done(k)
      /\ \A k \in DOMAIN counts[a] : Done(k)' = Done(k) \cup {a}
  BY <1>1 DEF CountedUnder, Done
<1>10. /\ clock \in Nat /\ Window \in Nat /\ Window >= 2 /\ stamp[a] \in Nat
       /\ \A k \in DOMAIN rows : rows[k].end \in Nat /\ rows[k].attempts \in Nat
       /\ \A k : \A b \in Done(k) : counts[b][k].end \in Nat /\ counts[b][k].attempts \in Nat
  BY Numbers DEF Done, CountedUnder
<1>11. ASSUME NEW k \in Keys, k \in DOMAIN rows => rows[k].end <= stamp[a]
       PROVE  \A b \in Done(k) : counts[b][k].end <= clock
  BY <1>1, <1>10, <1>11 DEF RowInv
<1>12. RowInv'
  <2> SUFFICES ASSUME NEW k \in Keys
               PROVE  IF k \in DOMAIN rows'
                      THEN /\ rows'[k].end <= clock + Window
                           /\ rows'[k].attempts >= 1
                           /\ \A b \in Done(k)' :
                                 /\ counts[b][k].end <= rows'[k].end
                                 /\ counts[b][k].end = rows'[k].end \/ counts[b][k].end <= clock
                                 /\ counts[b][k].end = rows'[k].end => counts[b][k].attempts <= rows'[k].attempts
                           /\ \A n \in 1 .. rows'[k].attempts : \E b \in Done(k)' :
                                 counts[b][k] = [attempts |-> n, end |-> rows'[k].end]
                      ELSE \A b \in Done(k)' : counts[b][k].end <= clock
    BY <1>1 DEF RowInv
  <2>1. CASE k \notin DOMAIN change[a]
    <3>1. Done(k)' = Done(k)
      BY <1>2, <1>9, <2>1
    <3> QED  BY <1>2, <2>1, <3>1 DEF RowInv
  <2>2. CASE k \in DOMAIN change[a] /\ k \notin DOMAIN counts[a]
    BY <1>2, <1>9, <1>11, <2>2
  <2>3. CASE /\ k \in DOMAIN counts[a] /\ k \in DOMAIN rows /\ rows[k].end > stamp[a]
             /\ counts[a][k] = [attempts |-> rows[k].attempts + 1, end |-> rows[k].end]
    <3>1. PICK w, m : w = rows[k].end /\ m = rows[k].attempts
      OBVIOUS
    <3>2. /\ w \in Nat /\ m \in Nat /\ m >= 1 /\ w <= clock + Window
          /\ \A b \in Done(k) :
                /\ counts[b][k].end <= w
                /\ counts[b][k].end = w \/ counts[b][k].end <= clock
                /\ counts[b][k].end = w => counts[b][k].attempts <= m
          /\ \A n \in 1 .. m : \E b \in Done(k) : counts[b][k] = [attempts |-> n, end |-> w]
      BY <1>10, <2>3, <3>1 DEF RowInv
    <3>3. /\ k \in DOMAIN rows' /\ rows'[k].end = w /\ rows'[k].attempts = m + 1
          /\ counts[a][k] = [attempts |-> m + 1, end |-> w] /\ Done(k)' = Done(k) \cup {a}
      BY <1>2, <1>9, <2>3, <3>1
    <3>4. \A b \in Done(k) : counts[b][k].end = w => counts[b][k].attempts <= m + 1
      BY <1>10, <3>2
    <3>5. ASSUME NEW n \in 1 .. m + 1
          PROVE  \E b \in Done(k) \cup {a} : counts[b][k] = [attempts |-> n, end |-> w]
      <4>1. CASE n = m + 1
        BY <3>3, <4>1
      <4>2. CASE n # m + 1
        <5>1. n \in 1 .. m
          BY <3>2, <4>2
        <5> QED  BY <3>2, <5>1
      <4> QED  BY <4>1, <4>2
    <3> QED  BY <3>2, <3>3, <3>4, <3>5
  <2>4. CASE /\ k \in DOMAIN counts[a] /\ (k \in DOMAIN rows => rows[k].end <= stamp[a])
             /\ counts[a][k] = [attempts |-> 1, end |-> stamp[a] + Window]
    <3>1. /\ k \in DOMAIN rows' /\ rows'[k].end = stamp[a] + Window /\ rows'[k].attempts = 1
          /\ counts[a][k].end = stamp[a] + Window /\ counts[a][k].attempts = 1
          /\ Done(k)' = Done(k) \cup {a}
      BY <1>2, <1>9, <2>4
    <3>2. \A b \in Done(k) : counts[b][k].end <= clock
      BY <1>11, <2>4
    <3>3. clock < stamp[a] + Window /\ stamp[a] + Window <= clock + Window /\ stamp[a] + Window \in Nat
      BY <1>1, <1>10
    <3>4. \A b \in Done(k) : counts[b][k].end < stamp[a] + Window
      BY <1>10, <3>2, <3>3
    <3>5. \A n \in 1 .. 1 : counts[a][k] = [attempts |-> n, end |-> stamp[a] + Window]
      BY <2>4
    <3>6. PICK w : w = stamp[a] + Window
      OBVIOUS
    <3> QED  BY <1>10, <3>1, <3>2, <3>3, <3>4, <3>5, <3>6
  <2> QED  BY <1>6, <2>1, <2>2, <2>3, <2>4
<1>13. WindowInv'
  BY <1>1, <1>9 DEF WindowInv, Numbered, Apart
<1> QED  BY <1>3, <1>4, <1>7, <1>8, <1>12, <1>13

LEMMA GateInductive == Spec => [](GateType /\ GateInv)
<1>1. Init => GateType /\ GateInv
  BY InitType, InitGate
<1>2. GateType /\ GateInv /\ [Next]_vars => (GateType /\ GateInv)'
  <2> SUFFICES ASSUME GateType, GateInv, [Next]_vars PROVE GateInv'
    BY NextGateType
  <2>1. CASE Frame
    BY <2>1, FrameStep
  <2>2. ASSUME NEW a \in Attempts, GateStep(a) PROVE GateInv'
    BY <2>2, BeginStep, SweepStep, EndSweepStep, CountStep, CommitStep, AbortStep, Zenon DEF GateStep
  <2>3. StepInv
    BY DEF GateInv
  <2> QED  BY <2>1, <2>2, <2>3, FrameCases
<1> QED  BY <1>1, <1>2, PTL DEF Spec

LEMMA LimitFacts == \A k \in Keys : Limit(k) \in Nat \ {0}
  BY LimitsPositive DEF Limit

(* No more than the limit is admitted in one window.                       *)
LEMMA OneWindow ==
  ASSUME GateType, GateInv, NEW k \in Keys, NEW w,
         NEW S \in SUBSET {a \in Attempts : Within(a, k) /\ counts[a][k].end = w}
  PROVE  IsFiniteSet(S) /\ Cardinality(S) <= Limit(k)
<1> DEFINE f == [a \in S |-> counts[a][k].attempts]
<1>1. \A a \in S : a \in CountedUnder(k) /\ counts[a][k].end = w /\ counts[a][k].attempts <= Limit(k)
  BY DEF Within, CountedUnder
<1>2. \A a \in S : counts[a][k].attempts \in 1 .. Limit(k)
  <2> TAKE a \in S
  <2>1. counts[a][k].attempts \in Nat
    BY <1>1, Numbers DEF CountedUnder
  <2>2. counts[a][k].attempts >= 1
    BY <1>1 DEF GateInv, WindowInv, Numbered
  <2>3. Limit(k) \in Nat
    BY LimitFacts
  <2> QED  BY <1>1, <2>1, <2>2, <2>3
<1>3. \A a, b \in S : counts[a][k].attempts = counts[b][k].attempts => a = b
  <2>0. \A c \in S : counts[c][k] = [attempts |-> counts[c][k].attempts, end |-> w]
    <3> SUFFICES ASSUME NEW c \in S
                 PROVE  counts[c][k] = [attempts |-> counts[c][k].attempts, end |-> w]
      OBVIOUS
    <3>1. c \in Attempts /\ k \in DOMAIN counts[c]
      BY <1>1 DEF CountedUnder
    <3>2. counts[c][k] = [attempts |-> counts[c][k].attempts, end |-> counts[c][k].end]
      BY <3>1, Numbers
    <3> QED  BY <1>1, <3>2
  <2> SUFFICES ASSUME NEW a \in S, NEW b \in S, counts[a][k].attempts = counts[b][k].attempts
               PROVE  a = b
    OBVIOUS
  <2>1. counts[a][k] = counts[b][k]
    BY <2>0
  <2> QED  BY <1>1, <2>1 DEF GateInv, WindowInv, Apart
<1>4. f \in [S -> 1 .. Limit(k)]
  BY <1>2
<1>5. \A a, b \in S : f[a] = f[b] => a = b
  BY <1>3
<1>6. f \in Injection(S, 1 .. Limit(k))
  BY <1>4, <1>5 DEF Injection, IsInjective
<1>7. IsFiniteSet(1 .. Limit(k)) /\ Cardinality(1 .. Limit(k)) = Limit(k)
  BY LimitFacts, FS_Interval
<1> QED  BY <1>6, <1>7, FS_Injection

(* In a span shorter than a window by one transaction there are attempts   *)
(* of two windows at most.                                                 *)
LEMMA TwoWindows ==
  ASSUME GateType, GateInv, NEW k \in Keys, NEW t \in Nat,
         NEW a \in CountedUnder(k), NEW b \in CountedUnder(k), NEW c \in CountedUnder(k),
         \A x \in {a, b, c} : stamp[x] \in t .. t + Window - 2
  PROVE  \/ counts[a][k].end = counts[b][k].end
         \/ counts[a][k].end = counts[c][k].end
         \/ counts[b][k].end = counts[c][k].end
<1>1. ASSUME NEW x \in {a, b, c}, NEW y \in {a, b, c}, NEW z \in {a, b, c},
             counts[x][k].end < counts[y][k].end, counts[y][k].end < counts[z][k].end
      PROVE  FALSE
  <2>1. /\ counts[x][k].end + Window - 1 <= counts[y][k].end
        /\ counts[y][k].end <= stamp[z] + 1
        /\ stamp[x] < counts[x][k].end
    BY <1>1 DEF GateInv, WindowInv, Numbered, Apart
  <2>2. /\ counts[x][k].end \in Nat /\ counts[y][k].end \in Nat
        /\ stamp[x] \in Nat /\ stamp[z] \in Nat /\ Window \in Nat
    BY Numbers DEF CountedUnder
  <2>3. stamp[x] >= t /\ stamp[z] <= t + Window - 2
    BY <2>2
  <2> QED  BY <2>1, <2>2, <2>3
<1>2. \A x \in {a, b, c} : counts[x][k].end \in Nat
  BY Numbers DEF CountedUnder
<1> QED  BY <1>1, <1>2

(* At most twice the limit in any span shorter than a window by one        *)
(* transaction, whatever order transactions lock, sweep and commit in.     *)
THEOREM LoginTwiceTheLimit == Spec => []TwiceTheLimit
<1>1. GateType /\ GateInv => TwiceTheLimit
  <2> SUFFICES ASSUME GateType, GateInv, NEW k \in Keys, NEW t \in 0 .. LastTick
               PROVE  Cardinality({a \in Attempts : Within(a, k) /\ stamp[a] \in t .. t + Window - 2})
                        <= 2 * Limit(k)
    BY DEF TwiceTheLimit
  <2> DEFINE S == {a \in Attempts : Within(a, k) /\ stamp[a] \in t .. t + Window - 2}
             In(w) == {a \in S : counts[a][k].end = w}
  <2>1. \A a \in S : a \in CountedUnder(k) /\ stamp[a] \in t .. t + Window - 2
    BY DEF Within, CountedUnder
  <2>2. \A w : IsFiniteSet(In(w)) /\ Cardinality(In(w)) \in Nat /\ Cardinality(In(w)) <= Limit(k)
    BY OneWindow, FS_CardinalityType
  <2>3. \E v, w : S \subseteq In(v) \cup In(w)
    <3>1. CASE S = {}
      BY <3>1
    <3>2. ASSUME NEW a \in S, \A b \in S : counts[a][k].end = counts[b][k].end
          PROVE  S \subseteq In(counts[a][k].end)
      BY <3>2
    <3>3. ASSUME NEW a \in S, NEW b \in S, counts[a][k].end # counts[b][k].end
          PROVE  S \subseteq In(counts[a][k].end) \cup In(counts[b][k].end)
      <4> SUFFICES ASSUME NEW c \in S
                   PROVE  counts[c][k].end = counts[a][k].end \/ counts[c][k].end = counts[b][k].end
        OBVIOUS
      <4>1. t \in Nat
        OBVIOUS
      <4> QED  BY <2>1, <3>3, <4>1, TwoWindows
    <3>4. CASE S # {}
      <4>1. PICK a : a \in S
        BY <3>4
      <4> HIDE DEF S, In
      <4>2. CASE \A b \in S : counts[a][k].end = counts[b][k].end
        BY <3>2, <4>1, <4>2
      <4>3. ASSUME NEW b \in S, counts[a][k].end # counts[b][k].end
            PROVE  \E v, w : S \subseteq In(v) \cup In(w)
        BY <3>3, <4>1, <4>3
      <4> QED  BY <4>2, <4>3
    <3> QED  BY <3>1, <3>4
  <2>4. PICK v, w : S \subseteq In(v) \cup In(w)
    BY <2>3
  <2> HIDE DEF S, In
  <2>5. Limit(k) \in Nat
    BY LimitFacts
  <2>6. /\ IsFiniteSet(In(v) \cup In(w)) /\ Cardinality(In(v) \cap In(w)) \in Nat
        /\ Cardinality(In(v) \cup In(w)) = Cardinality(In(v)) + Cardinality(In(w)) - Cardinality(In(v) \cap In(w))
    BY <2>2, FS_Union, FS_Intersection, FS_CardinalityType
  <2>7. Cardinality(S) <= Cardinality(In(v) \cup In(w)) /\ Cardinality(S) \in Nat
    BY <2>4, <2>6, FS_Subset, FS_CardinalityType
  <2>8. Cardinality(S) <= 2 * Limit(k)
    BY <2>2, <2>5, <2>6, <2>7
  <2> QED  BY <2>8 DEF S
<1> QED  BY <1>1, GateInductive, PTL

(* Whoever is refused has a limit's worth of admitted attempts before it,  *)
(* in the window it was counted in.                                        *)
THEOREM LoginRefusedAfterLimit == Spec => []RefusedAfterLimit
<1>1. GateType /\ GateInv => RefusedAfterLimit
  <2> SUFFICES ASSUME GateType, GateInv, NEW a \in Attempts, NEW k \in Keys,
                      k \in DOMAIN counts[a], ~Within(a, k)
               PROVE  Cardinality({b \in Attempts : Within(b, k) /\ stamp[b] + Window >= stamp[a]})
                        >= Limit(k)
    BY DEF RefusedAfterLimit
  <2> DEFINE T == {b \in Attempts : Within(b, k) /\ stamp[b] + Window >= stamp[a]}
             e == counts[a][k].end
  <2>1. Limit(k) \in Nat /\ counts[a][k].attempts \in Nat /\ counts[a][k].attempts > Limit(k)
    <3>1. Limit(k) \in Nat
      BY LimitFacts
    <3>2. counts[a][k].attempts \in Nat
      BY Numbers
    <3>3. ~(counts[a][k].attempts <= Limit(k))
      BY DEF Within
    <3> QED  BY <3>1, <3>2, <3>3
  <2>2. /\ stamp[a] < e
        /\ \A n \in 1 .. Limit(k) : \E b \in Done(k) : counts[b][k] = [attempts |-> n, end |-> e]
    BY <2>1 DEF GateInv, WindowInv, Numbered, CountedUnder
  <2>3. \A n \in 1 .. Limit(k) : \E b \in T : counts[b][k] = [attempts |-> n, end |-> e]
    <3> SUFFICES ASSUME NEW n \in 1 .. Limit(k)
                 PROVE  \E b \in T : counts[b][k] = [attempts |-> n, end |-> e]
      OBVIOUS
    <3>1. PICK b \in Done(k) : counts[b][k] = [attempts |-> n, end |-> e]
      BY <2>2
    <3>2. b \in Attempts /\ k \in DOMAIN counts[b] /\ b \in CountedUnder(k)
      BY DEF Done, CountedUnder
    <3>3. counts[b][k].end = e /\ counts[b][k].attempts = n
      BY <3>1
    <3>4. e <= stamp[b] + Window + 1
      BY <3>2, <3>3 DEF GateInv, WindowInv, Numbered
    <3>5. stamp[b] + Window >= stamp[a]
      <4>1. e \in Nat /\ stamp[b] \in Nat /\ stamp[a] \in Nat /\ Window \in Nat
        BY <3>2, Numbers
      <4> QED  BY <2>2, <3>4, <4>1
    <3>6. Within(b, k)
      BY <2>1, <3>2, <3>3 DEF Within
    <3> QED  BY <3>1, <3>2, <3>5, <3>6
  <2>4. IsFiniteSet(T) /\ Cardinality(T) \in Nat
    BY AttemptsFinite, FS_Subset, FS_CardinalityType
  <2> HIDE DEF T
  <2> DEFINE f == [n \in 1 .. Limit(k) |-> CHOOSE b \in T : counts[b][k] = [attempts |-> n, end |-> e]]
  <2>5. \A n \in 1 .. Limit(k) : f[n] \in T /\ counts[f[n]][k] = [attempts |-> n, end |-> e]
    BY <2>3
  <2>6. f \in [1 .. Limit(k) -> T]
    BY <2>5
  <2>7. \A m, n \in 1 .. Limit(k) : f[m] = f[n] => m = n
    <3> SUFFICES ASSUME NEW m \in 1 .. Limit(k), NEW n \in 1 .. Limit(k), f[m] = f[n]
                 PROVE  m = n
      OBVIOUS
    <3>1. [attempts |-> m, end |-> e] = [attempts |-> n, end |-> e]
      BY <2>5
    <3> QED  BY <3>1
  <2> HIDE DEF f
  <2>8. f \in Injection(1 .. Limit(k), T)
    BY <2>6, <2>7 DEF Injection, IsInjective
  <2>9. Cardinality(1 .. Limit(k)) = Limit(k)
    BY <2>1, FS_Interval
  <2>10. Cardinality(T) >= Limit(k)
    BY <2>1, <2>4, <2>8, <2>9, FS_Injection
  <2> QED  BY <2>10 DEF T
<1> QED  BY <1>1, GateInductive, PTL

=============================================================================
