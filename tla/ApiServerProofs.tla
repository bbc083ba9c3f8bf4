-------------------------- MODULE ApiServerProofs --------------------------
(* Proofs about ApiServer, for any requests, users, limits and faults: the    *)
(* requests leave the processes of Startup alone, every token is accounted   *)
(* for, and a request sent late reaches no external model.                   *)
EXTENDS ApiServer, StartupProofs

(* Steps that neither start, settle nor record a call of the model, nor       *)
(* touch a reservation.                                                      *)
Plain(q) ==
  \/ Authenticate(q) \/ Logout(q) \/ Decode(q) \/ Validate(q) \/ Read(q)
  \/ ReadUsage(q) \/ EndRun(q) \/ Learn(q) \/ Write(q)
  \/ KeepPreview(q) \/ TakePreview(q)

LEMMA ApiCases ==
  ASSUME Next
  PROVE  \/ StartupNext /\ UNCHANGED <<requestVars, rowVars>>
         \/ \E q \in Requests : \/ Arrive(q) \/ Cancel(q) \/ Reserve(q) \/ Release(q)
                                \/ CallModel(q) \/ RecordUsage(q) \/ Plain(q)
  BY Zenon DEF Next, RequestNext, Plain

LEMMA StartupKeepsGiven == [StartupNext]_startupVars => given' = given
  BY DEF StartupNext, startupVars, Start, Open, TakeLock, Migrate, CommitMigrations,
         Die, Stop, Register, CheckUserLimit, EndRegistration, Disable, SetUserLimit

LEMMA PlainKeepsStartup ==
  ASSUME NEW q, Plain(q) PROVE UNCHANGED startupVars
  BY DEF Plain, Authenticate, Logout, Decode, Validate, Read, ReadUsage, EndRun,
         Learn, Write, KeepPreview, TakePreview, serviceUnchanged

LEMMA RequestKeepsStartup ==
  ASSUME NEW q, \/ Arrive(q) \/ Cancel(q) \/ Reserve(q) \/ Release(q)
                \/ CallModel(q) \/ RecordUsage(q)
  PROVE  UNCHANGED startupVars
  BY DEF Arrive, Cancel, Reserve, Release, CallModel, RecordUsage, serviceUnchanged

(* Serving requests is invisible to the processes and the registrations, so   *)
(* what Startup promises holds beside any requests (main.go:36-51).          *)
THEOREM ServerKeepsStartup == Spec => StartupSpec
<1>1. ApiInit => Init
  BY DEF ApiInit
<1>2. [Next]_vars => [StartupNext]_startupVars
  <2>1. CASE Next
    BY <2>1, ApiCases, PlainKeepsStartup, RequestKeepsStartup
  <2>2. CASE UNCHANGED vars
    BY <2>2 DEF vars
  <2> QED  BY <2>1, <2>2
<1> QED  BY <1>1, <1>2, PTL DEF Spec, StartupSpec

-----------------------------------------------------------------------------
(* What the programs of the handlers are made of.                             *)
Steps == {"resolve", "decode", "find", "validate", "reserve", "context", "agent",
          "create", "usage", "advise", "result", "review", "latest", "list",
          "profile", "category", "transaction", "rule", "keep", "take", "import",
          "addMemory", "setMemory", "dropMemory", "logout", "route", "release",
          "learn"}

CountersType ==
  /\ given \in Scenarios
  /\ todo \in [Requests -> Seq(Steps)]
  /\ code \in [Requests -> Nat]
  /\ tier \in [Requests -> {"none", "local", "external"}]
  /\ calls \in [Requests -> Nat]
  /\ due \in [Requests -> BOOLEAN]
  /\ left \in [Requests -> SUBSET Steps]
  /\ metered \in [Requests -> Nat]
  /\ unrecorded \in [Requests -> Nat]
  /\ llmUsage \in [Users -> [Requests -> Nat]]
  /\ count \in [Users -> Int]
  /\ late \subseteq Requests

(* Only requests that are made have anything to do.                           *)
MadeInv == \A q \in Requests : todo[q] # <<>> \/ code[q] # 0 => q \in DOMAIN given.requests

(* An answer waits to be recorded only while its run goes on.                 *)
UsageInv ==
  /\ \A q \in DOMAIN given.requests :
       /\ metered[q] = llmUsage[User(q)][q] + unrecorded[q] + (IF due[q] THEN 1 ELSE 0)
       /\ unrecorded[q] > 0 => q \in cancelled \/ "failed" \in given.faults
       /\ \A u \in Users \ {User(q)} : llmUsage[u][q] = 0
  /\ \A q \in Requests : due[q] => todo[q] # <<>> /\ Head(todo[q]) = "agent"

(* What a plain step can do: it answers, or goes on to what is left to do,    *)
(* and has one effect at most.                                               *)
PlainEffect(q) ==
  /\ todo[q] # <<>> /\ Head(todo[q]) \notin {"reserve", "release"}
  /\ ~due[q] \/ Head(todo[q]) # "agent"
  /\ \/ Advance(q)
     \/ \E status \in 400 .. 599 : Refuse(q, status)
     \/ todo' = [todo EXCEPT ![q] = <<"learn">>] /\ Head(todo[q]) = "agent" /\ UNCHANGED code
  /\ \/ UNCHANGED left
     \/ /\ Head(todo[q]) \in Writes \cup {"learn"}
        /\ left' = [left EXCEPT ![q] = @ \cup {Head(todo[q])}]
  /\ \/ UNCHANGED tier
     \/ tier' = [tier EXCEPT ![q] = "local"]
     \/ Room(User(q)) /\ tier' = [tier EXCEPT ![q] = "external"]
  /\ UNCHANGED <<given, calls, due, metered, unrecorded, llmUsage, count, late, cancelled>>

LEMMA PlainEffects ==
  ASSUME NEW q \in Requests, CountersType, Plain(q)
  PROVE  PlainEffect(q)
<1> USE DEF PlainEffect, Due, Running, serviceUnchanged, startupVars
<1>1. CASE Authenticate(q)
  BY <1>1 DEF Authenticate, rowVars
<1>2. CASE Logout(q)
  BY <1>2 DEF Logout
<1>3. CASE Decode(q)
  BY <1>3 DEF Decode, rowVars
<1>4. CASE Validate(q)
  <2>1. Rejected(Input(q)) \in 400 .. 599
    BY DEF Rejected
  <2>2. Advance(q) \/ Refuse(q, Rejected(Input(q)))
    BY <1>4 DEF Validate
  <2> QED  BY <1>4, <2>1, <2>2 DEF Validate, rowVars
<1>5. CASE Read(q)
  BY <1>5 DEF Read, NotFound, rowVars
<1>6. CASE ReadUsage(q)
  BY <1>6 DEF ReadUsage, Choose, rowVars
<1>7. CASE EndRun(q)
  <2>1. /\ Due(q, {"agent"}) /\ ~due[q]
        /\ \/ Refuse(q, 500)
           \/ todo' = [todo EXCEPT ![q] = <<"learn">>] /\ UNCHANGED code
           \/ Advance(q)
        /\ UNCHANGED <<serviceUnchanged, tier, calls, due, left, rowVars>>
    BY <1>7, Zenon DEF EndRun
  <2> QED  BY <2>1 DEF rowVars
<1>8. CASE Learn(q)
  BY <1>8 DEF Learn, rowVars
<1>9. CASE Write(q)
  <2> DEFINE step == Head(todo[q])
  <2>1. NotFound(step) \in 400 .. 599 /\ 500 \in 400 .. 599
    BY DEF NotFound
  <2>2. /\ step \in Writes /\ todo[q] # <<>>
        /\ UNCHANGED <<serviceUnchanged, tier, calls, due, llmUsage, count, sessions, previews>>
    BY <1>9 DEF Write
  <2>3. \/ Refuse(q, 500) \/ Refuse(q, NotFound(step)) \/ Advance(q)
    BY <1>9, Zenon DEF Write
  <2>4. UNCHANGED left \/ left' = [left EXCEPT ![q] = @ \cup {step}]
    BY <1>9, Zenon DEF Write
  <2>5. step \notin {"reserve", "release", "agent"}
    BY <2>2 DEF Writes
  <2> HIDE DEF step
  <2>6. Advance(q) \/ \E status \in 400 .. 599 : Refuse(q, status)
    BY <2>1, <2>3
  <2> QED  BY <2>2, <2>4, <2>5, <2>6 DEF step
<1>10. CASE KeepPreview(q)
  BY <1>10 DEF KeepPreview
<1>11. CASE TakePreview(q)
  BY <1>11 DEF TakePreview
<1> QED  BY <1>1, <1>2, <1>3, <1>4, <1>5, <1>6, <1>7, <1>8, <1>9, <1>10, <1>11 DEF Plain

-----------------------------------------------------------------------------
(* A program reserves once at most, creates only after it has reserved, and   *)
(* never releases by itself; l is what a request has done already.            *)
Ordered(s, l) ==
  /\ \A i \in DOMAIN s : s[i] = "create" =>
       "reserve" \in l \/ \E j \in DOMAIN s : j < i /\ s[j] = "reserve"
  /\ \A i, j \in DOMAIN s : s[i] = "reserve" /\ s[j] = "reserve" => i = j
  /\ \A i \in DOMAIN s : s[i] = "reserve" => "reserve" \notin l

Harmless(s) == \A i \in DOMAIN s : s[i] \notin {"reserve", "release", "create"}

LEMMA HarmlessOrdered == ASSUME NEW s, NEW l, Harmless(s) PROVE Ordered(s, l)
  BY DEF Harmless, Ordered

LEMMA Services ==
  ASSUME NEW op \in DOMAIN Service
  PROVE  /\ Service[op] \in Seq(Steps)
         /\ op # "start" => Harmless(Service[op])
         /\ op = "start" =>
              Service[op] = <<"decode", "validate", "reserve", "context", "agent", "create">>
<1> DEFINE Fine(name) == Service[name] \in Seq(Steps) /\ Harmless(Service[name])
<1> USE DEF Service, Harmless, Steps
<1>0. /\ Service["start"] \in Seq(Steps)
      /\ Service["start"] = <<"decode", "validate", "reserve", "context", "agent", "create">>
  OBVIOUS
<1>1. Fine("continue")  OBVIOUS
<1>2. Fine("result")  OBVIOUS
<1>3. Fine("review")  OBVIOUS
<1>4. Fine("latestReview")  OBVIOUS
<1>5. Fine("consultation")  OBVIOUS
<1>6. Fine("consultations")  OBVIOUS
<1>7. Fine("profile")  OBVIOUS
<1>8. Fine("putProfile")  OBVIOUS
<1>9. Fine("dashboard")  OBVIOUS
<1>10. Fine("transactions")  OBVIOUS
<1>11. Fine("recategorize")  OBVIOUS
<1>12. Fine("remember")  OBVIOUS
<1>13. Fine("preview")  OBVIOUS
<1>14. Fine("commit")  OBVIOUS
<1>15. Fine("memories")  OBVIOUS
<1>16. Fine("createMemory")  OBVIOUS
<1>17. Fine("updateMemory")  OBVIOUS
<1>18. Fine("deleteMemory")  OBVIOUS
<1>19. Fine("logout")  OBVIOUS
<1>20. Fine("me")  OBVIOUS
<1>21. Fine("unknown")  OBVIOUS
<1> HIDE DEF Fine
<1>90. DOMAIN Service \ {"start"} = {"continue", "result", "review", "latestReview", "consultation", "consultations", "profile", "putProfile", "dashboard", "transactions", "recategorize", "remember", "preview", "commit", "memories", "createMemory", "updateMemory", "deleteMemory", "logout", "me", "unknown"}
  OBVIOUS
<1> HIDE DEF Service, Harmless, Steps
<1>91. \A name \in DOMAIN Service \ {"start"} : Fine(name)
  BY <1>90, <1>1, <1>2, <1>3, <1>4, <1>5, <1>6, <1>7, <1>8, <1>9, <1>10, <1>11, <1>12, <1>13, <1>14, <1>15, <1>16, <1>17, <1>18, <1>19, <1>20, <1>21
<1> QED  BY <1>0, <1>91 DEF Fine

LEMMA Preceded ==
  ASSUME NEW S, NEW x \in S, NEW s \in Seq(S)
  PROVE  /\ <<x>> \o s \in Seq(S) /\ Len(<<x>> \o s) = Len(s) + 1
         /\ \A i \in 1 .. Len(s) + 1 : (<<x>> \o s)[i] = IF i = 1 THEN x ELSE s[i - 1]
<1>1. <<x>> \in Seq(S) /\ Len(<<x>>) = 1 /\ <<x>>[1] = x
  OBVIOUS
<1> QED  BY <1>1

LEMMA Programs ==
  ASSUME NEW op \in DOMAIN Service
  PROVE  /\ Program(op) \in Seq(Steps) /\ Program(op) # <<>>
         /\ Ordered(Program(op), {})
         /\ \A i \in DOMAIN Program(op) : Program(op)[i] # "release"
<1> DEFINE s == Service[op]
           p == Program(op)
<1>1. s \in Seq(Steps)
  BY Services
<1>2. /\ p \in Seq(Steps) /\ Len(p) = Len(s) + 1 /\ p # <<>>
      /\ \A i \in DOMAIN p : i \in Nat /\ p[i] = IF i = 1 THEN "resolve" ELSE s[i - 1]
      /\ \A i \in DOMAIN p : i # 1 => i - 1 \in DOMAIN s
  <2>1. "resolve" \in Steps
    BY DEF Steps
  <2>2. p = <<"resolve">> \o s
    BY DEF Program
  <2>3. /\ p \in Seq(Steps) /\ Len(p) = Len(s) + 1
        /\ \A i \in 1 .. Len(s) + 1 : p[i] = IF i = 1 THEN "resolve" ELSE s[i - 1]
    <3> HIDE DEF p, s
    <3> QED  BY <1>1, <2>1, <2>2, Preceded
  <2>4. DOMAIN p = 1 .. Len(s) + 1 /\ DOMAIN s = 1 .. Len(s) /\ Len(s) \in Nat /\ p # <<>>
    <3> HIDE DEF p, s
    <3> QED  BY <1>1, <2>3
  <2> HIDE DEF p, s
  <2> QED  BY <2>3, <2>4
<1> HIDE DEF p
<1>3. CASE op = "start"
  <2>1. s = <<"decode", "validate", "reserve", "context", "agent", "create">>
    BY <1>3, Services
  <2>2. /\ Len(s) = 6
        /\ \A i \in DOMAIN s : s[i] = "reserve" <=> i = 3
        /\ \A i \in DOMAIN s : s[i] = "create" => i = 6
        /\ \A i \in DOMAIN s : s[i] # "release"
    BY <2>1
  <2> HIDE DEF s
  <2>3. DOMAIN p = 1 .. 7 /\ p[4] = "reserve"
    BY <1>1, <1>2, <2>2
  <2>4. \A i \in DOMAIN p : p[i] = "reserve" => i = 4
    BY <1>2, <2>2
  <2>5. \A i \in DOMAIN p : p[i] = "create" => i = 7
    BY <1>2, <2>2
  <2>6. \A i \in DOMAIN p : p[i] # "release"
    BY <1>2, <2>2
  <2> QED  BY <1>2, <2>3, <2>4, <2>5, <2>6 DEF Ordered, p
<1>4. CASE op # "start"
  <2>1. Harmless(s)
    BY <1>4, Services
  <2>2. Harmless(p)
    BY <1>2, <2>1 DEF Harmless
  <2> QED  BY <1>2, <2>2, HarmlessOrdered DEF Harmless, p
<1> QED  BY <1>3, <1>4

LEMMA OrderedTail ==
  ASSUME NEW s \in Seq(Steps), s # <<>>, NEW l \in SUBSET Steps, Ordered(s, l),
         NEW m \in SUBSET Steps, l \subseteq m,
         "reserve" \in m => "reserve" \in l \/ Head(s) = "reserve",
         Head(s) = "reserve" => "reserve" \in m
  PROVE  Tail(s) \in Seq(Steps) /\ Ordered(Tail(s), m)
<1> DEFINE t == Tail(s)
<1>1. /\ t \in Seq(Steps) /\ Len(t) = Len(s) - 1
      /\ \A i \in DOMAIN t : i + 1 \in DOMAIN s /\ t[i] = s[i + 1]
      /\ Head(s) = s[1] /\ 1 \in DOMAIN s
  OBVIOUS
<1>2. DOMAIN t = 1 .. Len(s) - 1 /\ DOMAIN s = 1 .. Len(s) /\ Len(s) \in Nat
  BY <1>1
<1> HIDE DEF t
<1>3. ASSUME NEW i \in DOMAIN t, t[i] = "create"
      PROVE  "reserve" \in m \/ \E j \in DOMAIN t : j < i /\ t[j] = "reserve"
  <2>1. CASE "reserve" \in l
    BY <2>1
  <2>2. CASE "reserve" \notin l
    <3>1. PICK j \in DOMAIN s : j < i + 1 /\ s[j] = "reserve"
      BY <1>1, <1>3, <2>2 DEF Ordered
    <3>2. CASE j = 1
      BY <1>1, <3>1, <3>2
    <3>3. CASE j # 1
      <4>1. j - 1 \in DOMAIN t /\ j - 1 < i
        BY <1>2, <3>1, <3>3
      <4>2. t[j - 1] = s[j]
        BY <1>1, <1>2, <4>1
      <4> QED  BY <3>1, <4>1, <4>2
    <3> QED  BY <3>2, <3>3
  <2> QED  BY <2>1, <2>2
<1>4. ASSUME NEW i \in DOMAIN t, NEW j \in DOMAIN t, t[i] = "reserve", t[j] = "reserve"
      PROVE  i = j
  <2>1. i + 1 = j + 1
    BY <1>1, <1>4 DEF Ordered
  <2> QED  BY <1>2, <2>1
<1>5. ASSUME NEW i \in DOMAIN t, t[i] = "reserve"
      PROVE  "reserve" \notin m
  <2>1. "reserve" \notin l
    BY <1>1, <1>5 DEF Ordered
  <2>2. CASE Head(s) = "reserve"
    <3>1. i + 1 = 1
      BY <1>1, <1>5, <2>2 DEF Ordered
    <3> QED  BY <1>2, <3>1
  <2>3. CASE Head(s) # "reserve"
    BY <2>1, <2>3
  <2> QED  BY <2>2, <2>3
<1> QED  BY <1>1, <1>3, <1>4, <1>5 DEF Ordered, t

-----------------------------------------------------------------------------
(* The types and the requests made, over every step.                          *)
LEMMA TypedInit == ASSUME ApiInit PROVE CountersType /\ MadeInv
  BY DEF ApiInit, Init, CountersType, MadeInv

(* What a request that has something to do is made of.                        *)
LEMMA AtWork ==
  ASSUME CountersType, MadeInv, NEW q \in Requests, todo[q] # <<>>
  PROVE  /\ q \in DOMAIN given.requests /\ User(q) \in Users
         /\ todo[q] \in Seq(Steps) /\ Head(todo[q]) \in Steps /\ Tail(todo[q]) \in Seq(Steps)
<1>1. given \in Scenarios /\ todo[q] \in Seq(Steps) /\ q \in DOMAIN given.requests
  BY DEF CountersType, MadeInv
<1>2. User(q) \in Users
  BY <1>1, ApiAssumption DEF User
<1>3. Head(todo[q]) \in Steps /\ Tail(todo[q]) \in Seq(Steps)
  BY <1>1
<1> QED  BY <1>1, <1>2, <1>3

LEMMA Typed ==
  ASSUME CountersType, MadeInv, Next PROVE CountersType' /\ MadeInv'
<1>0. CASE StartupNext /\ UNCHANGED <<requestVars, rowVars>>
  <2>1. given' = given
    BY <1>0, StartupKeepsGiven
  <2> QED  BY <1>0, <2>1 DEF CountersType, MadeInv, requestVars, rowVars
<1>1. ASSUME NEW q \in Requests, Arrive(q) PROVE CountersType' /\ MadeInv'
  <2>1. Op(q) \in DOMAIN Service /\ q \in DOMAIN given.requests
    BY <1>1, ApiAssumption DEF Arrive, Op, CountersType
  <2>2. Program(Op(q)) \in Seq(Steps)
    BY <2>1, Programs
  <2>3. /\ todo' = [todo EXCEPT ![q] = Program(Op(q))]
        /\ late' = late \/ late' = late \cup {q}
        /\ UNCHANGED <<given, code, tier, calls, due, left, metered, unrecorded, llmUsage, count>>
    BY <1>1, Zenon DEF Arrive, startupVars, rowVars
  <2> HIDE DEF Program
  <2>4. todo' \in [Requests -> Seq(Steps)] /\ late' \subseteq Requests
    <3>1. q \in Requests /\ todo \in [Requests -> Seq(Steps)] /\ late \subseteq Requests
      BY DEF CountersType
    <3>2. [todo EXCEPT ![q] = Program(Op(q))] \in [Requests -> Seq(Steps)]
      BY <2>2, <3>1
    <3> QED  BY <2>3, <3>1, <3>2
  <2>5. \A r \in Requests \ {q} : todo'[r] = todo[r]
    BY <2>3 DEF CountersType
  <2>6. MadeInv'
    BY <2>1, <2>3, <2>5 DEF MadeInv
  <2> QED  BY <2>3, <2>4, <2>6 DEF CountersType
<1>2. ASSUME NEW q \in Requests, Cancel(q) PROVE CountersType' /\ MadeInv'
  BY <1>2 DEF Cancel, CountersType, MadeInv, startupVars, rowVars
<1>3. ASSUME NEW q \in Requests, todo[q] # <<>>,
             Advance(q) \/ (\E status \in 400 .. 599 : Refuse(q, status)
                                                    \/ RefuseUnreleased(q, status))
                        \/ (todo' = [todo EXCEPT ![q] = <<"learn">>] /\ UNCHANGED code),
             given' = given
      PROVE  todo' \in [Requests -> Seq(Steps)] /\ code' \in [Requests -> Nat] /\ MadeInv'
  <2>1. /\ Tail(todo[q]) \in Seq(Steps) /\ Succeeded(Op(q)) \in Nat
        /\ <<"release">> \in Seq(Steps) /\ <<"learn">> \in Seq(Steps) /\ <<>> \in Seq(Steps)
        /\ q \in DOMAIN given.requests
    BY <1>3, AtWork DEF Succeeded, Steps
  <2>2. todo \in [Requests -> Seq(Steps)] /\ code \in [Requests -> Nat]
    BY DEF CountersType
  <2>3. \E rest \in Seq(Steps) : todo' = [todo EXCEPT ![q] = rest]
    <3>1. CASE Advance(q)
      BY <2>1, <3>1 DEF Advance
    <3>2. ASSUME NEW status \in 400 .. 599, Refuse(q, status)
          PROVE  \E rest \in Seq(Steps) : todo' = [todo EXCEPT ![q] = rest]
      <4>1. CASE "reserve" \in left[q]
        BY <2>1, <3>2, <4>1 DEF Refuse
      <4>2. CASE "reserve" \notin left[q]
        BY <2>1, <3>2, <4>2 DEF Refuse
      <4> QED  BY <4>1, <4>2
    <3>3. ASSUME NEW status \in 400 .. 599, RefuseUnreleased(q, status)
          PROVE  \E rest \in Seq(Steps) : todo' = [todo EXCEPT ![q] = rest]
      BY <2>1, <3>3 DEF RefuseUnreleased
    <3>4. CASE todo' = [todo EXCEPT ![q] = <<"learn">>]
      BY <2>1, <3>4
    <3> QED  BY <1>3, <3>1, <3>2, <3>3, <3>4
  <2>4. code' = code \/ \E status \in Nat : code' = [code EXCEPT ![q] = status]
    <3>1. \A status \in 400 .. 599 : status \in Nat
      OBVIOUS
    <3> QED  BY <1>3, <2>1, <3>1 DEF Advance, Refuse, RefuseUnreleased
  <2>5. todo' \in [Requests -> Seq(Steps)] /\ code' \in [Requests -> Nat]
    BY <2>2, <2>3, <2>4
  <2>6. \A r \in Requests \ {q} : todo'[r] = todo[r] /\ code'[r] = code[r]
    BY <2>2, <2>3, <2>4
  <2> QED  BY <1>3, <2>1, <2>5, <2>6 DEF MadeInv
<1>4. ASSUME NEW q \in Requests, Reserve(q) PROVE CountersType' /\ MadeInv'
  <2>1. todo[q] # <<>> /\ given' = given
    BY <1>4 DEF Reserve, Due, Running, serviceUnchanged, startupVars
  <2>2. Advance(q) \/ RefuseUnreleased(q, 500)
    BY <1>4 DEF Reserve
  <2>3. 500 \in 400 .. 599
    OBVIOUS
  <2>4. todo' \in [Requests -> Seq(Steps)] /\ code' \in [Requests -> Nat] /\ MadeInv'
    BY <1>3, <2>1, <2>2, <2>3
  <2>5. User(q) \in Users /\ "reserve" \in Steps
    BY <2>1, AtWork DEF Steps
  <2>6. \/ UNCHANGED <<left, count>>
        \/ /\ left' = [left EXCEPT ![q] = @ \cup {"reserve"}]
           /\ count' = [count EXCEPT ![User(q)] = @ + 1]
    BY <1>4, Zenon DEF Reserve
  <2>7. UNCHANGED tier \/ tier' = [tier EXCEPT ![q] = "external"]
                       \/ tier' = [tier EXCEPT ![q] = "local"]
    BY <1>4 DEF Reserve, Choose
  <2>8. UNCHANGED <<given, late, metered, unrecorded, calls, due, llmUsage>>
    BY <1>4 DEF Reserve, serviceUnchanged, startupVars
  <2>9. left' \in [Requests -> SUBSET Steps] /\ count' \in [Users -> Int]
    <3>1. left[q] \cup {"reserve"} \in SUBSET Steps /\ count[User(q)] + 1 \in Int
      BY <2>5 DEF CountersType
    <3> QED  BY <2>6, <3>1 DEF CountersType
  <2>10. tier' \in [Requests -> {"none", "local", "external"}]
    BY <2>7 DEF CountersType
  <2> QED  BY <2>4, <2>8, <2>9, <2>10 DEF CountersType
<1>5. ASSUME NEW q \in Requests, Release(q) PROVE CountersType' /\ MadeInv'
  <2>1. todo[q] # <<>> /\ given' = given /\ Advance(q)
    BY <1>5 DEF Release, Due, Running, startupVars
  <2>2. todo' \in [Requests -> Seq(Steps)] /\ code' \in [Requests -> Nat] /\ MadeInv'
    BY <1>3, <2>1
  <2>3. User(q) \in Users
    BY <2>1, AtWork
  <2>4. \/ UNCHANGED <<left, count>>
        \/ /\ left' = [left EXCEPT ![q] = @ \ {"reserve"}]
           /\ count' = [count EXCEPT ![User(q)] = @ - 1]
    BY <1>5, Zenon DEF Release
  <2>5. UNCHANGED <<given, late, metered, unrecorded, tier, calls, due, llmUsage>>
    BY <1>5 DEF Release, startupVars
  <2>6. left' \in [Requests -> SUBSET Steps] /\ count' \in [Users -> Int]
    <3>1. left[q] \ {"reserve"} \in SUBSET Steps /\ count[User(q)] - 1 \in Int
      BY <2>3 DEF CountersType
    <3> QED  BY <2>4, <3>1 DEF CountersType
  <2> QED  BY <2>2, <2>5, <2>6 DEF CountersType
<1>6. ASSUME NEW q \in Requests, CallModel(q) PROVE CountersType' /\ MadeInv'
  BY <1>6 DEF CallModel, Answers, Billed, CountersType, MadeInv, startupVars, rowVars
<1>7. ASSUME NEW q \in Requests, RecordUsage(q) PROVE CountersType' /\ MadeInv'
  <2>1. User(q) \in Users
    BY <1>7, AtWork DEF RecordUsage, Running
  <2>2. \/ llmUsage' = [llmUsage EXCEPT ![User(q)][q] = @ + 1] /\ UNCHANGED unrecorded
        \/ unrecorded' = [unrecorded EXCEPT ![q] = @ + 1] /\ UNCHANGED llmUsage
    BY <1>7, Zenon DEF RecordUsage
  <2>3. /\ due' = [due EXCEPT ![q] = FALSE]
        /\ UNCHANGED <<given, todo, code, tier, calls, left, late, metered, count>>
    BY <1>7 DEF RecordUsage, startupVars
  <2>4. unrecorded' \in [Requests -> Nat]
    <3>1. unrecorded[q] + 1 \in Nat
      BY DEF CountersType
    <3> QED  BY <2>2, <3>1 DEF CountersType
  <2>5. llmUsage' \in [Users -> [Requests -> Nat]]
    <3>1. llmUsage[User(q)] \in [Requests -> Nat]
      BY <2>1 DEF CountersType
    <3>2. [llmUsage[User(q)] EXCEPT ![q] = @ + 1] \in [Requests -> Nat]
      BY <3>1
    <3> QED  BY <2>1, <2>2, <3>2 DEF CountersType
  <2>6. due' \in [Requests -> BOOLEAN]
    BY <2>3 DEF CountersType
  <2> QED  BY <2>3, <2>4, <2>5, <2>6 DEF CountersType, MadeInv
<1>8. ASSUME NEW q \in Requests, Plain(q) PROVE CountersType' /\ MadeInv'
  <2>1. PlainEffect(q)
    BY <1>8, PlainEffects
  <2>2. todo[q] # <<>> /\ given' = given
    BY <2>1 DEF PlainEffect
  <2>3. todo' \in [Requests -> Seq(Steps)] /\ code' \in [Requests -> Nat] /\ MadeInv'
    BY <1>3, <2>1, <2>2 DEF PlainEffect
  <2>4. Head(todo[q]) \in Steps
    BY <2>2, AtWork
  <2>5. left' \in [Requests -> SUBSET Steps]
    <3>1. left[q] \cup {Head(todo[q])} \in SUBSET Steps
      BY <2>4 DEF CountersType
    <3>2. left' = left \/ left' = [left EXCEPT ![q] = left[q] \cup {Head(todo[q])}]
      BY <2>1 DEF PlainEffect
    <3> DEFINE l == left[q] \cup {Head(todo[q])}
    <3> HIDE DEF l
    <3>3. [left EXCEPT ![q] = l] \in [Requests -> SUBSET Steps]
      BY <3>1 DEF CountersType, l
    <3> QED  BY <3>2, <3>3 DEF CountersType, l
  <2>6. tier' \in [Requests -> {"none", "local", "external"}]
    BY <2>1 DEF PlainEffect, CountersType
  <2> QED  BY <2>1, <2>3, <2>5, <2>6 DEF PlainEffect, CountersType
<1> QED  BY <1>0, <1>1, <1>2, <1>4, <1>5, <1>6, <1>7, <1>8, ApiCases

-----------------------------------------------------------------------------
(* The tokens of every answer.                                                *)
LEMMA UsageInit == ASSUME ApiInit PROVE UsageInv
<1>1. given \in Scenarios
  BY DEF ApiInit, Init
<1>2. \A q \in DOMAIN given.requests : q \in Requests /\ User(q) \in Users
  BY <1>1, ApiAssumption DEF User
<1> QED  BY <1>2 DEF ApiInit, UsageInv

(* The books of the requests that a step does not change stay as they are.    *)
Waiting(q) == IF due[q] THEN 1 ELSE 0
Booked(q) ==
  /\ metered[q] = llmUsage[User(q)][q] + unrecorded[q] + Waiting(q)
  /\ unrecorded[q] > 0 => q \in cancelled \/ "failed" \in given.faults
  /\ \A u \in Users \ {User(q)} : llmUsage[u][q] = 0

LEMMA UsageStep ==
  ASSUME CountersType, MadeInv, UsageInv, Next PROVE UsageInv'
<1> DEFINE Calling(q) == due[q] => todo[q] # <<>> /\ Head(todo[q]) = "agent"
<1>a. UsageInv <=> (\A q \in DOMAIN given.requests : Booked(q))
                   /\ \A q \in Requests : Calling(q)
  BY DEF UsageInv, Booked, Waiting
<1>b. UsageInv' <=> (\A q \in DOMAIN given'.requests : Booked(q)')
                    /\ \A q \in Requests : Calling(q)'
  BY DEF UsageInv, Booked, Waiting
<1>c. given' = given => \A q : User(q)' = User(q)
  BY DEF User
<1>d. given \in Scenarios /\ DOMAIN given.requests \subseteq Requests
      /\ \A q \in DOMAIN given.requests : User(q) \in Users
  BY ApiAssumption DEF CountersType, User
<1> DEFINE Still == /\ given' = given /\ UNCHANGED <<metered, unrecorded, llmUsage, due>>
                    /\ cancelled \subseteq cancelled'
<1>e. Still => \A q \in DOMAIN given.requests : Booked(q) => Booked(q)'
  BY <1>c DEF Booked, Waiting
<1>0. CASE StartupNext /\ UNCHANGED <<requestVars, rowVars>>
  <2>1. given' = given
    BY <1>0, StartupKeepsGiven
  <2>2. Still /\ \A q \in Requests : Calling(q) => Calling(q)'
    BY <1>0, <2>1 DEF requestVars, rowVars
  <2> QED  BY <1>a, <1>b, <1>e, <2>1, <2>2
<1>1. ASSUME NEW q \in Requests, Arrive(q) PROVE UsageInv'
  <2>1. Still /\ todo[q] = <<>> /\ todo' = [todo EXCEPT ![q] = Program(Op(q))]
    BY <1>1, Zenon DEF Arrive, startupVars, rowVars
  <2>2. \A r \in Requests : Calling(r) => Calling(r)'
    BY <2>1 DEF CountersType
  <2> QED  BY <1>a, <1>b, <1>e, <2>1, <2>2
<1>2. ASSUME NEW q \in Requests, Cancel(q) PROVE UsageInv'
  <2>1. Still /\ UNCHANGED todo
    BY <1>2 DEF Cancel, startupVars, rowVars
  <2> QED  BY <1>a, <1>b, <1>e, <2>1
<1>3. ASSUME NEW q \in Requests, Reserve(q) \/ Release(q) PROVE UsageInv'
  <2>1. Still /\ todo[q] # <<>> /\ Head(todo[q]) # "agent"
    BY <1>3 DEF Reserve, Release, Due, Running, serviceUnchanged, startupVars
  <2>2. Advance(q) \/ RefuseUnreleased(q, 500)
    BY <1>3 DEF Reserve, Release
  <2>3. \A r \in Requests : Calling(r)'
    <3>1. \A r \in Requests \ {q} : todo'[r] = todo[r]
      BY <2>2 DEF Advance, RefuseUnreleased, CountersType
    <3> QED  BY <1>a, <2>1, <3>1
  <2> QED  BY <1>a, <1>b, <1>e, <2>1, <2>3
<1>4. ASSUME NEW q \in Requests, CallModel(q) PROVE UsageInv'
  <2>1. /\ ~due[q] /\ todo[q] # <<>> /\ Head(todo[q]) = "agent"
        /\ UNCHANGED <<given, todo, unrecorded, llmUsage, cancelled>>
    BY <1>4 DEF CallModel, Due, Running, startupVars, rowVars
  <2>2. \/ metered' = [metered EXCEPT ![q] = @ + 1] /\ due' = [due EXCEPT ![q] = TRUE]
        \/ metered' = metered /\ due' = [due EXCEPT ![q] = FALSE]
    BY <1>4 DEF CallModel, Answers, Billed, CountersType
  <2>3. \A r \in Requests : Calling(r)'
    BY <1>a, <2>1, <2>2 DEF CountersType
  <2>4. /\ \A r \in Requests \ {q} : metered'[r] = metered[r] /\ Waiting(r)' = Waiting(r)
        /\ Waiting(q) = 0
        /\ \/ metered'[q] = metered[q] + 1 /\ Waiting(q)' = 1
           \/ metered'[q] = metered[q] /\ Waiting(q)' = 0
    BY <2>1, <2>2 DEF CountersType, Waiting
  <2>5. ASSUME NEW r \in DOMAIN given.requests PROVE Booked(r)'
    <3>1. Booked(r) /\ r \in Requests /\ User(r) \in Users /\ User(r)' = User(r)
      BY <1>a, <1>c, <1>d, <2>1
    <3>2. metered[r] \in Nat /\ unrecorded[r] \in Nat /\ llmUsage[User(r)][r] \in Nat
      BY <3>1 DEF CountersType
    <3>3. metered'[r] = llmUsage[User(r)][r] + unrecorded[r] + Waiting(r)'
      BY <2>4, <3>1, <3>2 DEF Booked
    <3> QED  BY <2>1, <3>1, <3>3 DEF Booked
  <2> QED  BY <1>b, <2>1, <2>3, <2>5
<1>5. ASSUME NEW q \in Requests, RecordUsage(q) PROVE UsageInv'
  <2>1. /\ due[q] /\ due' = [due EXCEPT ![q] = FALSE]
        /\ UNCHANGED <<given, todo, metered, cancelled>>
    BY <1>5 DEF RecordUsage, startupVars
  <2>2. q \in DOMAIN given.requests /\ User(q) \in Users
    BY <1>5, AtWork DEF RecordUsage, Running
  <2>3. \A r \in Requests : Calling(r)'
    BY <1>a, <2>1 DEF CountersType
  <2>4. /\ \A r \in Requests \ {q} : Waiting(r)' = Waiting(r)
        /\ Waiting(q) = 1 /\ Waiting(q)' = 0
    BY <2>1 DEF CountersType, Waiting
  <2>5. CASE llmUsage' = [llmUsage EXCEPT ![User(q)][q] = @ + 1] /\ UNCHANGED unrecorded
    <3>1. \A u \in Users, r \in Requests :
            llmUsage'[u][r] = IF u = User(q) /\ r = q THEN llmUsage[u][r] + 1 ELSE llmUsage[u][r]
      BY <2>2, <2>5 DEF CountersType
    <3>2. ASSUME NEW r \in DOMAIN given.requests PROVE Booked(r)'
      <4>1. Booked(r) /\ r \in Requests /\ User(r) \in Users /\ User(r)' = User(r)
        BY <1>a, <1>c, <1>d, <2>1
      <4>2. unrecorded[r] \in Nat /\ llmUsage[User(r)][r] \in Nat
        BY <4>1 DEF CountersType
      <4>4. metered'[r] = llmUsage'[User(r)][r] + unrecorded'[r] + Waiting(r)'
        BY <2>1, <2>4, <2>5, <3>1, <4>1, <4>2 DEF Booked
      <4>3. \A u \in Users \ {User(r)} : llmUsage'[u][r] = 0
        BY <3>1, <4>1 DEF Booked
      <4> QED  BY <2>1, <2>5, <4>1, <4>3, <4>4 DEF Booked
    <3> QED  BY <1>b, <2>1, <2>3, <3>2
  <2>6. CASE unrecorded' = [unrecorded EXCEPT ![q] = @ + 1] /\ UNCHANGED llmUsage
    <3>1. q \in cancelled \/ "failed" \in given.faults
      <4>1. unrecorded' # unrecorded
        BY <2>6, <2>2 DEF CountersType
      <4>2. PICK reply \in Replies(q) : reply = "failed" \/ UNCHANGED unrecorded
        BY <1>5, Zenon DEF RecordUsage
      <4> QED  BY <4>1, <4>2 DEF Replies
    <3>2. ASSUME NEW r \in DOMAIN given.requests PROVE Booked(r)'
      <4>1. Booked(r) /\ r \in Requests /\ User(r) \in Users /\ User(r)' = User(r)
        BY <1>a, <1>c, <1>d, <2>1
      <4>2. unrecorded'[r] = IF r = q THEN unrecorded[r] + 1 ELSE unrecorded[r]
        BY <2>6, <4>1 DEF CountersType
      <4>3. unrecorded[r] \in Nat /\ llmUsage[User(r)][r] \in Nat
        BY <4>1 DEF CountersType
      <4>5. metered'[r] = llmUsage'[User(r)][r] + unrecorded'[r] + Waiting(r)'
        BY <2>1, <2>4, <2>6, <4>1, <4>2, <4>3 DEF Booked
      <4>4. unrecorded'[r] > 0 => r \in cancelled' \/ "failed" \in given'.faults
        BY <2>1, <3>1, <4>1, <4>2 DEF Booked
      <4> QED  BY <2>6, <4>1, <4>4, <4>5 DEF Booked
    <3> QED  BY <1>b, <2>1, <2>3, <3>2
  <2> QED  BY <1>5, <2>5, <2>6 DEF RecordUsage
<1>6. ASSUME NEW q \in Requests, Plain(q) PROVE UsageInv'
  <2>1. PlainEffect(q)
    BY <1>6, PlainEffects
  <2>2. Still /\ (~due[q] \/ Head(todo[q]) # "agent")
    BY <2>1, Zenon DEF PlainEffect
  <2>3. \A r \in Requests \ {q} : todo'[r] = todo[r]
    BY <2>1 DEF PlainEffect, Advance, Refuse, CountersType
  <2>4. ~due[q]
    BY <1>a, <2>2
  <2>5. \A r \in Requests : Calling(r)'
    BY <1>a, <2>2, <2>3, <2>4
  <2> QED  BY <1>a, <1>b, <1>e, <2>2, <2>5
<1> QED  BY <1>0, <1>1, <1>2, <1>3, <1>4, <1>5, <1>6, ApiCases

LEMMA UsageInductive == Spec => [](CountersType /\ MadeInv /\ UsageInv)
<1> DEFINE Inv == CountersType /\ MadeInv /\ UsageInv
<1>1. ApiInit => Inv
  BY TypedInit, UsageInit
<1>2. Inv /\ [Next]_vars => Inv'
  <2>1. ASSUME Inv, Next PROVE Inv'
    BY <2>1, Typed, UsageStep
  <2>2. ASSUME Inv, UNCHANGED vars PROVE Inv'
    BY <2>2 DEF vars, startupVars, requestVars, rowVars, CountersType, MadeInv, UsageInv, User
  <2> QED  BY <2>1, <2>2
<1> QED  BY <1>1, <1>2, PTL DEF Spec

(* No answer that counted tokens is recorded twice or put on another user's   *)
(* account, and none goes unrecorded but by a failing statement or a death    *)
(* before its record, for any number of requests and calls                   *)
(* (client.go:195-217, app.go:59-70).                                        *)
THEOREM ServerUsageAccounted == Spec => []UsageAccounted
<1>1. CountersType /\ MadeInv /\ UsageInv => UsageAccounted
  <2> SUFFICES ASSUME CountersType, MadeInv, UsageInv, NEW q \in DOMAIN given.requests
               PROVE  /\ metered[q] = llmUsage[User(q)][q] + unrecorded[q]
                                       + (IF due[q] THEN 1 ELSE 0)
                      /\ unrecorded[q] > 0 => q \in cancelled \/ "failed" \in given.faults
                      /\ Answered(q) => ~due[q]
                      /\ \A u \in Users \ {User(q)} : llmUsage[u][q] = 0
    BY DEF UsageAccounted
  <2>1. q \in Requests
    BY ApiAssumption DEF CountersType
  <2> QED  BY <2>1 DEF UsageInv, Answered
<1> QED  BY <1>1, UsageInductive, PTL

-----------------------------------------------------------------------------
(* The way of a request: what it has still to do fits what it has done, and a *)
(* deferred release is all that can follow the settling of its answer.       *)
Flow(q) ==
  /\ Ordered(todo[q], left[q])
  /\ "create" \in left[q] /\ code[q] \in {0, 201} => "reserve" \in left[q]
  /\ todo[q] # <<>> /\ code[q] # 0 =>
       todo[q] = <<"release">> /\ code[q] # 201 /\ "reserve" \in left[q]
  /\ code[q] = 0 => \A i \in DOMAIN todo[q] : todo[q][i] # "release"
  /\ todo[q] = <<>> /\ code[q] = 0 => tier[q] = "none" /\ calls[q] = 0 /\ left[q] = {}

(* Adds at most a row that is no reservation, and a consultation only in its  *)
(* turn.                                                                     *)
Adds(q) ==
  /\ left[q] \subseteq left'[q] /\ left'[q] \subseteq Steps
  /\ "reserve" \in left'[q] => "reserve" \in left[q] \/ Head(todo[q]) = "reserve"
  /\ "create" \in left'[q] => "create" \in left[q] \/ Head(todo[q]) = "create"

LEMMA FlowAdvance ==
  ASSUME CountersType, MadeInv, NEW q \in Requests, Flow(q), todo[q] # <<>>,
         Head(todo[q]) # "release", Advance(q), Adds(q),
         Head(todo[q]) = "reserve" => "reserve" \in left'[q]
  PROVE  Flow(q)'
<1> DEFINE s == todo[q]
           t == Tail(s)
<1>1. s \in Seq(Steps) /\ t \in Seq(Steps) /\ q \in DOMAIN given.requests
  BY AtWork
<1>2. /\ Len(t) = Len(s) - 1 /\ DOMAIN s = 1 .. Len(s) /\ DOMAIN t = 1 .. Len(t)
      /\ \A i \in DOMAIN t : i + 1 \in DOMAIN s /\ t[i] = s[i + 1]
      /\ Head(s) = s[1] /\ 1 \in DOMAIN s
  BY <1>1
<1>3. code[q] = 0
  BY <1>2 DEF Flow
<1>4. /\ todo'[q] = t /\ code'[q] = IF t = <<>> THEN Succeeded(Op(q)) ELSE 0
      /\ Succeeded(Op(q)) # 0
  BY <1>3 DEF Advance, CountersType, Succeeded
<1>5. left[q] \in SUBSET Steps /\ left'[q] \in SUBSET Steps /\ Ordered(s, left[q])
  BY DEF CountersType, Adds, Flow
<1>6. Ordered(t, left'[q])
  <2> HIDE DEF s
  <2>1. s # <<>> /\ Head(s) = Head(todo[q])
    BY DEF s
  <2>2. t = Tail(s)
    OBVIOUS
  <2> QED  BY <1>1, <1>5, <2>1, <2>2, OrderedTail DEF Adds
<1>7. "create" \in left'[q] => "reserve" \in left'[q]
  <2>1. CASE "create" \in left[q]
    BY <1>3, <2>1 DEF Flow, Adds
  <2>2. CASE Head(s) = "create"
    <3>1. \A j \in DOMAIN s : ~(j < 1)
      BY <1>1, <1>2
    <3>2. "reserve" \in left[q]
      BY <1>2, <1>5, <2>2, <3>1 DEF Ordered
    <3> QED  BY <3>2 DEF Adds
  <2> QED  BY <2>1, <2>2 DEF Adds
<1>8. \A i \in DOMAIN t : t[i] # "release"
  BY <1>2, <1>3 DEF Flow
<1> HIDE DEF s, t
<1> QED  BY <1>4, <1>6, <1>7, <1>8 DEF Flow

LEMMA FlowRefuse ==
  ASSUME CountersType, NEW q \in Requests, NEW status \in 400 .. 599,
         Refuse(q, status) \/ RefuseUnreleased(q, status), left[q] \subseteq left'[q]
  PROVE  Flow(q)'
<1>1. code'[q] = status /\ status # 0 /\ status # 201
  <2>1. code' = [code EXCEPT ![q] = status]
    BY DEF Refuse, RefuseUnreleased
  <2>2. status # 0 /\ status # 201
    OBVIOUS
  <2> QED  BY <2>1, <2>2 DEF CountersType
<1>2. todo'[q] = <<>> \/ (todo'[q] = <<"release">> /\ "reserve" \in left[q])
  BY DEF Refuse, RefuseUnreleased, CountersType
<1>3. Ordered(todo'[q], left'[q])
  <2>1. Ordered(<<>>, left'[q])
    BY DEF Ordered
  <2>2. Ordered(<<"release">>, left'[q])
    BY DEF Ordered
  <2> QED  BY <1>2, <2>1, <2>2
<1> QED  BY <1>1, <1>2, <1>3 DEF Flow

(* A step of one request, as the others and the usage see it.                 *)
Untouched(r) ==
  /\ todo'[r] = todo[r] /\ code'[r] = code[r] /\ left'[r] = left[r]
  /\ tier'[r] = tier[r] /\ calls'[r] = calls[r]

Held(q) == "reserve" \in left[q]

StepOf(q) ==
  /\ given' = given
  /\ \A r \in Requests \ {q} : Untouched(r)
  /\ code[q] # 0 => code'[q] = code[q]
  /\ "create" \in left[q] => "create" \in left'[q]
  /\ \/ (Held(q) <=> Held(q)') /\ count' = count
     \/ ~Held(q) /\ Held(q)' /\ count' = [count EXCEPT ![User(q)] = @ + 1]
     \/ Held(q) /\ ~Held(q)' /\ count' = [count EXCEPT ![User(q)] = @ - 1]
  /\ late' = late \/ (late' = late \cup {q} /\ tier'[q] = "none" /\ calls'[q] = 0
                      /\ q \in DOMAIN given.requests
                      /\ Cardinality(Stored(User(q))) >= Limit)
  /\ calls'[q] # calls[q] => tier[q] = "external"
  /\ tier'[q] = "external" => tier[q] = "external" \/ Room(User(q))
  /\ Flow(q)'

LEMMA ArriveStep ==
  ASSUME CountersType, NEW q \in Requests, Flow(q), Arrive(q) PROVE StepOf(q)
<1>1. /\ q \in DOMAIN given.requests /\ todo[q] = <<>> /\ code[q] = 0
      /\ todo' = [todo EXCEPT ![q] = Program(Op(q))]
      /\ late' = late \/ (late' = late \cup {q} /\ Cardinality(Stored(User(q))) >= Limit)
      /\ UNCHANGED <<given, code, tier, calls, left, count>>
  BY Zenon DEF Arrive, startupVars, rowVars
<1>2. tier[q] = "none" /\ calls[q] = 0 /\ left[q] = {}
  BY <1>1 DEF Flow
<1>3. Op(q) \in DOMAIN Service
  BY <1>1, ApiAssumption DEF Op, CountersType
<1> DEFINE p == Program(Op(q))
<1>4. p # <<>> /\ Ordered(p, {}) /\ \A i \in DOMAIN p : p[i] # "release"
  BY <1>3, Programs
<1> HIDE DEF p
<1>5. todo'[q] = p /\ \A r \in Requests \ {q} : todo'[r] = todo[r]
  BY <1>1 DEF CountersType, p
<1>6. Flow(q)'
  BY <1>1, <1>2, <1>4, <1>5 DEF Flow
<1> QED  BY <1>1, <1>2, <1>5, <1>6 DEF StepOf, Untouched, Held

LEMMA ReserveStep ==
  ASSUME CountersType, MadeInv, NEW q \in Requests, Flow(q), Reserve(q) PROVE StepOf(q)
<1>1. /\ todo[q] # <<>> /\ Head(todo[q]) = "reserve"
      /\ UNCHANGED <<given, calls, late>>
  BY DEF Reserve, Due, Running, serviceUnchanged, startupVars
<1>2. PICK reply \in Replies(q) :
        /\ IF reply = "ok" THEN Advance(q) ELSE RefuseUnreleased(q, 500)
        /\ IF reply = "ok" THEN Choose(q, Room(User(q))) ELSE UNCHANGED tier
        /\ IF reply = "failed" THEN UNCHANGED <<left, count>>
           ELSE /\ left' = [left EXCEPT ![q] = @ \cup {"reserve"}]
                /\ count' = [count EXCEPT ![User(q)] = @ + 1]
  BY Zenon DEF Reserve
<1>3. todo[q] \in Seq(Steps) /\ 1 \in DOMAIN todo[q] /\ todo[q][1] = "reserve"
  <2>1. todo[q] \in Seq(Steps)
    BY DEF CountersType
  <2> QED  BY <1>1, <2>1
<1>4. ~Held(q)
  BY <1>3 DEF Flow, Ordered, Held
<1>5. code[q] = 0
  BY <1>1, <1>3 DEF Flow
<1>6. /\ left[q] \subseteq left'[q] /\ left'[q] \subseteq Steps
      /\ "create" \in left'[q] => "create" \in left[q]
      /\ reply = "ok" => "reserve" \in left'[q]
      /\ \A r \in Requests \ {q} : left'[r] = left[r]
  BY <1>2 DEF CountersType, Steps
<1>7. Flow(q)'
  <2>1. CASE reply = "ok"
    BY <1>1, <1>2, <1>6, <2>1, FlowAdvance DEF Adds
  <2>2. CASE reply # "ok"
    <3>1. 500 \in 400 .. 599
      OBVIOUS
    <3> QED  BY <1>2, <1>6, <2>2, <3>1, FlowRefuse
  <2> QED  BY <2>1, <2>2
<1>8. \A r \in Requests \ {q} : Untouched(r)
  BY <1>1, <1>2, <1>6 DEF Untouched, Advance, RefuseUnreleased, Choose, CountersType
<1>9. \/ (Held(q) <=> Held(q)') /\ count' = count
      \/ ~Held(q) /\ Held(q)' /\ count' = [count EXCEPT ![User(q)] = @ + 1]
  BY <1>2, <1>4 DEF Held, CountersType
<1>10. tier'[q] = "external" => tier[q] = "external" \/ Room(User(q))
  BY <1>2 DEF Choose, CountersType
<1> QED  BY <1>1, <1>5, <1>6, <1>7, <1>8, <1>9, <1>10 DEF StepOf

LEMMA ReleaseStep ==
  ASSUME CountersType, MadeInv, NEW q \in Requests, Flow(q), Release(q) PROVE StepOf(q)
<1>1. /\ todo[q] # <<>> /\ Head(todo[q]) = "release" /\ Advance(q)
      /\ UNCHANGED <<given, calls, late, tier>>
  BY DEF Release, Due, Running, startupVars
<1>2. \/ UNCHANGED <<left, count>>
      \/ /\ left' = [left EXCEPT ![q] = @ \ {"reserve"}]
         /\ count' = [count EXCEPT ![User(q)] = @ - 1]
  BY Zenon DEF Release
<1>3. todo[q] \in Seq(Steps) /\ 1 \in DOMAIN todo[q] /\ todo[q][1] = "release"
  <2>1. todo[q] \in Seq(Steps)
    BY DEF CountersType
  <2> QED  BY <1>1, <2>1
<1>4. code[q] # 0 /\ code[q] # 201 /\ todo[q] = <<"release">> /\ Held(q)
  BY <1>1, <1>3 DEF Flow, Held
<1>5. todo'[q] = <<>> /\ code' = code
  BY <1>1, <1>4 DEF Advance, CountersType
<1>6. /\ "create" \in left'[q] <=> "create" \in left[q]
      /\ \A r \in Requests \ {q} : left'[r] = left[r]
  BY <1>2 DEF CountersType
<1>7. Flow(q)'
  <2>1. Ordered(<<>>, left'[q])
    BY DEF Ordered
  <2> QED  BY <1>4, <1>5, <2>1 DEF Flow
<1>8. \A r \in Requests \ {q} : Untouched(r)
  BY <1>1, <1>5, <1>6 DEF Untouched, Advance, CountersType
<1>9. \/ (Held(q) <=> Held(q)') /\ count' = count
      \/ Held(q) /\ ~Held(q)' /\ count' = [count EXCEPT ![User(q)] = @ - 1]
  BY <1>2, <1>4 DEF Held, CountersType
<1> QED  BY <1>1, <1>5, <1>6, <1>7, <1>8, <1>9 DEF StepOf

LEMMA PlainStep ==
  ASSUME CountersType, MadeInv, NEW q \in Requests, Flow(q), Plain(q) PROVE StepOf(q)
<1>1. PlainEffect(q)
  BY PlainEffects
<1> DEFINE step == Head(todo[q])
<1>2. /\ todo[q] # <<>> /\ step \notin {"reserve", "release"}
      /\ UNCHANGED <<given, calls, late, count>>
  BY <1>1 DEF PlainEffect
<1>3. step \in Steps /\ 1 \in DOMAIN todo[q] /\ todo[q][1] = step
  <2>1. todo[q] \in Seq(Steps)
    BY DEF CountersType
  <2> QED  BY <1>2, <2>1
<1>4. code[q] = 0
  BY <1>2, <1>3 DEF Flow
<1>5. left' = left \/ left' = [left EXCEPT ![q] = left[q] \cup {step}]
  BY <1>1 DEF PlainEffect
<1> HIDE DEF step
<1>6. /\ left[q] \subseteq left'[q] /\ left'[q] \subseteq Steps
      /\ left'[q] \subseteq left[q] \cup {step}
      /\ \A r \in Requests \ {q} : left'[r] = left[r]
  BY <1>3, <1>5 DEF CountersType
<1>7. Adds(q) /\ (Held(q) <=> Held(q)')
  BY <1>2, <1>6 DEF Adds, Held, step
<1>8. \/ Advance(q)
      \/ \E status \in 400 .. 599 : Refuse(q, status)
      \/ todo' = [todo EXCEPT ![q] = <<"learn">>] /\ step = "agent" /\ UNCHANGED code
  BY <1>1 DEF PlainEffect, step
<1>9. Flow(q)'
  <2>1. CASE Advance(q)
    BY <1>2, <1>7, <2>1, FlowAdvance DEF step
  <2>2. CASE \E status \in 400 .. 599 : Refuse(q, status)
    BY <1>6, <2>2, FlowRefuse
  <2>3. CASE todo' = [todo EXCEPT ![q] = <<"learn">>] /\ step = "agent" /\ UNCHANGED code
    <3>1. todo'[q] = <<"learn">> /\ code'[q] = 0
      BY <1>4, <2>3 DEF CountersType
    <3>2. Ordered(<<"learn">>, left'[q])
      BY DEF Ordered
    <3>3. "create" \in left'[q] => "reserve" \in left'[q]
      BY <1>4, <1>7, <2>3 DEF Flow, Adds, step
    <3> QED  BY <3>1, <3>2, <3>3 DEF Flow
  <2> QED  BY <1>8, <2>1, <2>2, <2>3
<1>10. UNCHANGED tier \/ tier' = [tier EXCEPT ![q] = "local"]
       \/ (Room(User(q)) /\ tier' = [tier EXCEPT ![q] = "external"])
  BY <1>1 DEF PlainEffect
<1>11. \A r \in Requests \ {q} : todo'[r] = todo[r] /\ code'[r] = code[r]
  BY <1>8 DEF Advance, Refuse, CountersType
<1>12. \A r \in Requests \ {q} : Untouched(r)
  BY <1>2, <1>6, <1>10, <1>11 DEF Untouched, CountersType
<1>13. tier'[q] = "external" => tier[q] = "external" \/ Room(User(q))
  BY <1>10 DEF CountersType
<1> QED  BY <1>2, <1>4, <1>6, <1>7, <1>9, <1>12, <1>13 DEF StepOf

LEMMA CallStep ==
  ASSUME CountersType, NEW q \in Requests, Flow(q), CallModel(q) PROVE StepOf(q)
<1>1. /\ todo[q] # <<>> /\ tier[q] = "external"
      /\ UNCHANGED <<given, todo, code, left, tier, late, count>>
      /\ calls' = [calls EXCEPT ![q] = @ + 1]
  BY DEF CallModel, Due, Running, startupVars, rowVars
<1>2. \A r \in Requests \ {q} : Untouched(r)
  BY <1>1 DEF Untouched, CountersType
<1>3. Flow(q)'
  BY <1>1 DEF Flow
<1> QED  BY <1>1, <1>2, <1>3 DEF StepOf, Held

LEMMA QuietStep ==
  ASSUME NEW q, Flow(q), UNCHANGED <<given, todo, code, left, tier, calls, late, count>>
  PROVE  StepOf(q)
<1>1. \A r \in Requests \ {q} : Untouched(r)
  BY DEF Untouched
<1>2. Flow(q)'
  BY DEF Flow
<1> QED  BY <1>1, <1>2 DEF StepOf, Held

-----------------------------------------------------------------------------
Holding(u) == {q \in DOMAIN given.requests : User(q) = u /\ Held(q)}

(* The usage counts the reservations that are held, each stored consultation  *)
(* holds one, and whoever was sent when they filled the month finds no room.  *)
LateInv ==
  /\ \A q \in Requests : Flow(q)
  /\ \A u \in Users : count[u] = Cardinality(Holding(u))
  /\ \A q \in late : /\ q \in DOMAIN given.requests /\ calls[q] = 0 /\ tier[q] # "external"
                     /\ Cardinality(Stored(User(q))) >= Limit

LEMMA Finite ==
  ASSUME given \in Scenarios
  PROVE  \A u : /\ IsFiniteSet(Holding(u)) /\ IsFiniteSet(Stored(u))
               /\ Cardinality(Holding(u)) \in Nat /\ Cardinality(Stored(u)) \in Nat
<1>1. IsFiniteSet(Requests) /\ DOMAIN given.requests \subseteq Requests
  BY ApiAssumption
<1>2. \A u : Holding(u) \subseteq Requests /\ Stored(u) \subseteq Requests
  BY <1>1 DEF Holding, Stored
<1> QED  BY <1>1, <1>2, FS_Subset, FS_CardinalityType

LEMMA NoRoom ==
  ASSUME given \in Scenarios, LateInv, NEW u \in Users, Cardinality(Stored(u)) >= Limit
  PROVE  ~Room(u)
<1>1. Stored(u) \subseteq Holding(u)
  BY ApiAssumption DEF Stored, Holding, Held, LateInv, Flow
<1>2. IsFiniteSet(Holding(u)) /\ Cardinality(Holding(u)) \in Nat /\ Cardinality(Stored(u)) \in Nat
  BY Finite
<1>3. Cardinality(Stored(u)) <= Cardinality(Holding(u))
  BY <1>1, <1>2, FS_Subset
<1>4. count[u] = Cardinality(Holding(u))
  BY DEF LateInv
<1> QED  BY <1>2, <1>3, <1>4, ApiAssumption DEF Room

LEMMA LateStep ==
  ASSUME CountersType, LateInv, NEW q \in DOMAIN given.requests, StepOf(q)
  PROVE  LateInv'
<1>0. /\ given' = given /\ given \in Scenarios /\ DOMAIN given.requests \subseteq Requests
      /\ \A r : User(r)' = User(r)
      /\ \A r \in DOMAIN given.requests : User(r) \in Users
  BY ApiAssumption DEF StepOf, CountersType, User
<1>1. \A r \in Requests : Flow(r)'
  BY <1>0 DEF StepOf, Untouched, LateInv, Flow
<1>2. ASSUME NEW u \in Users PROVE count'[u] = Cardinality(Holding(u)')
  <2>1. Holding(u)' = {r \in DOMAIN given.requests : User(r) = u /\ Held(r)'}
    BY <1>0 DEF Holding
  <2>2. \A r \in DOMAIN given.requests \ {q} : Held(r)' <=> Held(r)
    BY <1>0 DEF StepOf, Untouched, Held
  <2>3. count[u] = Cardinality(Holding(u)) /\ IsFiniteSet(Holding(u)) /\ count[u] \in Int
    BY <1>0, Finite DEF LateInv, CountersType
  <2>4. CASE (Held(q) <=> Held(q)') /\ count' = count
    <3>1. Holding(u)' = Holding(u)
      BY <2>1, <2>2, <2>4 DEF Holding
    <3> QED  BY <2>3, <2>4, <3>1
  <2>5. CASE User(q) # u
    <3>1. Holding(u)' = Holding(u)
      BY <2>1, <2>2, <2>5 DEF Holding
    <3>2. count'[u] = count[u]
      BY <1>0, <2>5 DEF StepOf, CountersType
    <3> QED  BY <2>3, <3>1, <3>2
  <2>6. CASE ~Held(q) /\ Held(q)' /\ count' = [count EXCEPT ![User(q)] = @ + 1] /\ User(q) = u
    <3>1. Holding(u)' = Holding(u) \cup {q} /\ q \notin Holding(u)
      BY <2>1, <2>2, <2>6 DEF Holding
    <3>2. count'[u] = count[u] + 1
      BY <2>6 DEF CountersType
    <3> QED  BY <2>3, <3>1, <3>2, FS_AddElement
  <2>7. CASE Held(q) /\ ~Held(q)' /\ count' = [count EXCEPT ![User(q)] = @ - 1] /\ User(q) = u
    <3>1. Holding(u)' = Holding(u) \ {q} /\ q \in Holding(u)
      BY <2>1, <2>2, <2>7 DEF Holding
    <3>2. count'[u] = count[u] - 1
      BY <2>7 DEF CountersType
    <3> QED  BY <2>3, <3>1, <3>2, FS_RemoveElement
  <2> QED  BY <2>4, <2>5, <2>6, <2>7 DEF StepOf
<1>3. ASSUME NEW u PROVE Cardinality(Stored(u)) <= Cardinality(Stored(u)')
  <2>1. Stored(u)' = {r \in DOMAIN given.requests :
                        User(r) = u /\ "create" \in left'[r] /\ code'[r] = 201}
    BY <1>0 DEF Stored
  <2>2. \A r \in DOMAIN given.requests \ {q} : left'[r] = left[r] /\ code'[r] = code[r]
    BY <1>0 DEF StepOf, Untouched
  <2>3. /\ code[q] = 201 => code'[q] = 201
        /\ "create" \in left[q] => "create" \in left'[q]
    BY DEF StepOf
  <2>4. Stored(u) \subseteq Stored(u)'
    BY <2>1, <2>2, <2>3 DEF Stored
  <2>5. IsFiniteSet(Stored(u)')
    BY <1>0, <2>1, ApiAssumption, FS_Subset
  <2> QED  BY <2>4, <2>5, FS_Subset
<1>4. ASSUME NEW r \in late'
      PROVE  /\ r \in DOMAIN given'.requests /\ calls'[r] = 0 /\ tier'[r] # "external"
             /\ Cardinality(Stored(User(r)))' >= Limit
  <2>1. /\ r \in DOMAIN given.requests /\ Cardinality(Stored(User(r))) >= Limit
        /\ r \in late \/ (r = q /\ tier'[q] = "none" /\ calls'[q] = 0)
        /\ r \in late => calls[r] = 0 /\ tier[r] # "external"
    BY DEF StepOf, LateInv
  <2>2. PICK u : u = User(r)
    OBVIOUS
  <2>3. Cardinality(Stored(User(r)))' >= Limit
    <3>1. Cardinality(Stored(u)) >= Limit /\ Cardinality(Stored(u)) \in Nat
      BY <1>0, <2>1, <2>2, Finite
    <3>2. Stored(u)' \subseteq DOMAIN given.requests
      BY <1>0 DEF Stored
    <3>3. Cardinality(Stored(u)') \in Nat
      BY <1>0, <3>2, ApiAssumption, FS_Subset, FS_CardinalityType
    <3>4. Cardinality(Stored(u)') >= Limit
      BY <1>3, <3>1, <3>3, ApiAssumption
    <3>5. Stored(User(r))' = Stored(u)'
      BY <1>0, <2>2 DEF Stored
    <3> QED  BY <3>4, <3>5
  <2>4. CASE r # q
    BY <1>0, <2>1, <2>3, <2>4 DEF StepOf, Untouched
  <2>5. CASE r = q /\ r \in late
    <3>1. ~Room(User(q))
      BY <1>0, <2>1, <2>5, NoRoom
    <3> QED  BY <1>0, <2>1, <2>3, <2>5, <3>1 DEF StepOf
  <2> QED  BY <1>0, <2>1, <2>3, <2>4, <2>5
<1> QED  BY <1>1, <1>2, <1>4 DEF LateInv

LEMMA LateInit == ASSUME ApiInit PROVE LateInv
<1>1. \A q \in Requests : Flow(q) /\ ~Held(q)
  BY DEF ApiInit, Flow, Ordered, Held
<1>2. ASSUME NEW u \in Users PROVE count[u] = Cardinality(Holding(u))
  <2>1. Holding(u) = {}
    BY <1>1, ApiAssumption DEF Holding, ApiInit, Init
  <2> QED  BY <2>1, FS_EmptySet DEF ApiInit
<1> QED  BY <1>1, <1>2 DEF LateInv, ApiInit

LEMMA LateUnchanged ==
  ASSUME LateInv, UNCHANGED <<given, todo, code, left, tier, calls, late, count>>
  PROVE  LateInv'
  BY DEF LateInv, Flow, Holding, Held, Stored, User

LEMMA LateNext ==
  ASSUME CountersType, MadeInv, LateInv, Next PROVE LateInv'
<1>0. CASE StartupNext /\ UNCHANGED <<requestVars, rowVars>>
  <2>1. given' = given
    BY <1>0, StartupKeepsGiven
  <2> QED  BY <1>0, <2>1, LateUnchanged DEF requestVars, rowVars
<1>1. ASSUME NEW q \in Requests,
             \/ Arrive(q) \/ Cancel(q) \/ Reserve(q) \/ Release(q)
             \/ CallModel(q) \/ RecordUsage(q) \/ Plain(q)
      PROVE  LateInv'
  <2>1. Flow(q)
    BY DEF LateInv
  <2>2. CASE Cancel(q)
    BY <2>2, LateUnchanged DEF Cancel, startupVars, rowVars
  <2>3. CASE RecordUsage(q)
    BY <2>3, LateUnchanged DEF RecordUsage, startupVars
  <2>4. CASE Arrive(q)
    BY <2>1, <2>4, ArriveStep, LateStep DEF Arrive
  <2>5. CASE Reserve(q) \/ Release(q) \/ CallModel(q) \/ Plain(q)
    <3>1. StepOf(q)
      BY <2>1, <2>5, ReserveStep, ReleaseStep, CallStep, PlainStep
    <3>2. todo[q] # <<>>
      <4>1. CASE Plain(q)
        BY <4>1, PlainEffects DEF PlainEffect
      <4>2. CASE Reserve(q) \/ Release(q) \/ CallModel(q)
        BY <4>2 DEF Reserve, Release, CallModel, Due, Running
      <4> QED  BY <2>5, <4>1, <4>2
    <3>3. q \in DOMAIN given.requests
      BY <3>2 DEF MadeInv
    <3> QED  BY <3>1, <3>3, LateStep
  <2> QED  BY <1>1, <2>2, <2>3, <2>4, <2>5
<1> QED  BY <1>0, <1>1, ApiCases

LEMMA LateInductive == Spec => [](CountersType /\ MadeInv /\ LateInv)
<1> DEFINE Inv == CountersType /\ MadeInv /\ LateInv
<1>1. ApiInit => Inv
  BY TypedInit, LateInit
<1>2. Inv /\ [Next]_vars => Inv'
  <2>1. ASSUME Inv, Next PROVE Inv'
    BY <2>1, Typed, LateNext
  <2>2. ASSUME Inv, UNCHANGED vars PROVE Inv'
    <3>1. LateInv'
      BY <2>2, LateUnchanged DEF vars, startupVars, requestVars, rowVars
    <3>2. CountersType' /\ MadeInv'
      BY <2>2 DEF vars, startupVars, requestVars, rowVars, CountersType, MadeInv
    <3> QED  BY <3>1, <3>2
  <2> QED  BY <2>1, <2>2
<1> QED  BY <1>1, <1>2, PTL DEF Spec

(* However requests, failures and restarts interleave, what is sent when the  *)
(* month's consultations are stored reaches no external model                *)
(* (application.go:381-388, 449-454; repository.go:66-101).                  *)
THEOREM ServerLateIsLocal == Spec => []LateIsLocal
<1>1. LateInv => LateIsLocal
  BY DEF LateInv, LateIsLocal
<1> QED  BY <1>1, LateInductive, PTL

-----------------------------------------------------------------------------
(* What a refusal leaves.  Prior names what a request may have done when it   *)
(* comes to a step that can refuse it with 4xx; the other steps answer 5xx   *)
(* or not at all.                                                            *)
Effects == Writes \cup {"learn", "reserve"}

Prior(step) ==
  CASE step \in {"resolve", "decode", "validate", "category", "setMemory", "dropMemory",
                 "result", "take", "route", "advise"} -> {}
    [] step = "context" -> {"reserve"}
    [] step = "find" -> {"advise", "result"}
    [] step = "transaction" -> {"category"}
    [] OTHER -> Steps

(* Nothing that s does, or that was done before it, is too much for what s    *)
(* does later.                                                               *)
Tidy(s) == \A i, j \in DOMAIN s : j < i /\ s[j] \in Effects => s[j] \in Prior(s[i])
Clean(s, l) == Tidy(s) /\ \A i \in DOMAIN s : l \subseteq Prior(s[i])

(* Rows found once are still the user's, and what a refused request reserved  *)
(* waits for its release.                                                    *)
RefusalOf(q) ==
  /\ code[q] = 0 => Clean(todo[q], left[q])
  /\ "advise" \in left[q] \/ "result" \in left[q] => User(q) = given.consultation
  /\ "category" \in left[q] => User(q) = given.transaction
  /\ code[q] \in 400 .. 499 =>
       /\ left[q] \subseteq {"reserve"}
       /\ todo[q] = <<>> => left[q] = {} \/ q \in stuck

RefusalInv == \A q \in Requests : RefusalOf(q)

LEMMA ServicesTidy == ASSUME NEW op \in DOMAIN Service PROVE Tidy(Service[op])
<1> USE DEF Service, Tidy, Prior, Effects, Writes, Steps
<1>1. Tidy(Service["continue"])  OBVIOUS
<1>2. Tidy(Service["result"])  OBVIOUS
<1>3. Tidy(Service["review"])  OBVIOUS
<1>4. Tidy(Service["latestReview"])  OBVIOUS
<1>5. Tidy(Service["consultation"])  OBVIOUS
<1>6. Tidy(Service["consultations"])  OBVIOUS
<1>7. Tidy(Service["profile"])  OBVIOUS
<1>8. Tidy(Service["putProfile"])  OBVIOUS
<1>9. Tidy(Service["dashboard"])  OBVIOUS
<1>10. Tidy(Service["transactions"])  OBVIOUS
<1>11. Tidy(Service["recategorize"])  OBVIOUS
<1>12. Tidy(Service["remember"])  OBVIOUS
<1>13. Tidy(Service["preview"])  OBVIOUS
<1>14. Tidy(Service["commit"])  OBVIOUS
<1>15. Tidy(Service["memories"])  OBVIOUS
<1>16. Tidy(Service["createMemory"])  OBVIOUS
<1>17. Tidy(Service["updateMemory"])  OBVIOUS
<1>18. Tidy(Service["deleteMemory"])  OBVIOUS
<1>19. Tidy(Service["logout"])  OBVIOUS
<1>20. Tidy(Service["me"])  OBVIOUS
<1>21. Tidy(Service["unknown"])  OBVIOUS
<1>22. Tidy(Service["start"])  OBVIOUS
<1>90. DOMAIN Service = {"continue", "result", "review", "latestReview", "consultation", "consultations", "profile", "putProfile", "dashboard", "transactions", "recategorize", "remember", "preview", "commit", "memories", "createMemory", "updateMemory", "deleteMemory", "logout", "me", "unknown", "start"}
  OBVIOUS
<1> HIDE DEF Service, Tidy, Prior, Effects, Writes, Steps
<1> QED  BY <1>90, <1>1, <1>2, <1>3, <1>4, <1>5, <1>6, <1>7, <1>8, <1>9, <1>10, <1>11, <1>12, <1>13, <1>14, <1>15, <1>16, <1>17, <1>18, <1>19, <1>20, <1>21, <1>22

LEMMA ProgramsClean == ASSUME NEW op \in DOMAIN Service PROVE Clean(Program(op), {})
<1>1. PICK s : s = Service[op]
  OBVIOUS
<1>2. PICK p : p = Program(op)
  OBVIOUS
<1>3. s \in Seq(Steps) /\ "resolve" \in Steps /\ p = <<"resolve">> \o s /\ Tidy(s)
  BY <1>1, <1>2, Services, ServicesTidy DEF Program, Steps
<1>4. /\ p \in Seq(Steps) /\ Len(p) = Len(s) + 1
      /\ \A i \in 1 .. Len(s) + 1 : p[i] = IF i = 1 THEN "resolve" ELSE s[i - 1]
  BY <1>3, Preceded
<1>5. DOMAIN p = 1 .. Len(s) + 1 /\ DOMAIN s = 1 .. Len(s) /\ Len(s) \in Nat
  BY <1>3, <1>4
<1>6. ASSUME NEW i \in DOMAIN p, NEW j \in DOMAIN p, j < i, p[j] \in Effects
      PROVE  p[j] \in Prior(p[i])
  <2>1. p[j] # "resolve"
    BY <1>6 DEF Effects, Writes
  <2>2. j # 1 /\ i # 1 /\ i - 1 \in DOMAIN s /\ j - 1 \in DOMAIN s /\ j - 1 < i - 1
    BY <1>4, <1>5, <1>6, <2>1
  <2>3. p[i] = s[i - 1] /\ p[j] = s[j - 1]
    BY <1>4, <1>5, <2>2
  <2> QED  BY <1>3, <1>6, <2>2, <2>3 DEF Tidy
<1> QED  BY <1>2, <1>6 DEF Clean, Tidy

LEMMA CleanTail ==
  ASSUME NEW s \in Seq(Steps), s # <<>>, NEW l, Clean(s, l), NEW m,
         m \subseteq l \cup {Head(s)}, ~(m \subseteq l) => Head(s) \in Effects
  PROVE  Clean(Tail(s), m)
<1>1. PICK t : t = Tail(s)
  OBVIOUS
<1>2. /\ \A i \in DOMAIN t : i \in Nat \ {0} /\ i + 1 \in DOMAIN s /\ t[i] = s[i + 1]
      /\ Head(s) = s[1] /\ 1 \in DOMAIN s
  BY <1>1
<1>3. ASSUME NEW i \in DOMAIN t, NEW j \in DOMAIN t, j < i, t[j] \in Effects
      PROVE  t[j] \in Prior(t[i])
  <2>1. i + 1 \in DOMAIN s /\ j + 1 \in DOMAIN s /\ j + 1 < i + 1
    BY <1>2, <1>3
  <2> QED  BY <1>2, <1>3, <2>1 DEF Clean, Tidy
<1>4. ASSUME NEW i \in DOMAIN t PROVE m \subseteq Prior(t[i])
  <2>1. l \subseteq Prior(t[i])
    BY <1>2 DEF Clean
  <2>2. CASE m \subseteq l
    BY <2>1, <2>2
  <2>3. CASE s[1] \in Effects
    <3>1. i + 1 \in DOMAIN s /\ 1 < i + 1 /\ t[i] = s[i + 1]
      BY <1>2
    <3>2. s[1] \in Prior(t[i])
      BY <1>2, <2>3, <3>1 DEF Clean, Tidy
    <3> QED  BY <1>2, <2>1, <3>2
  <2> QED  BY <1>2, <2>2, <2>3
<1> QED  BY <1>1, <1>3, <1>4 DEF Clean, Tidy

(* What a plain step answers, and when: with 4xx only where it has done       *)
(* nothing, and at the steps Prior is about only for a missing row.          *)
Strict == {"resolve", "decode", "validate", "take", "route"}
Seeking == {"context", "find", "transaction", "category", "result", "advise",
            "setMemory", "dropMemory"}

(* The request is refused for what it asks, by a step that did nothing.      *)
Denied(q) ==
  \E status \in 400 .. 499 :
    /\ Refuse(q, status) /\ UNCHANGED left
    /\ \/ Head(todo[q]) \in Strict
       \/ Head(todo[q]) \in Seeking /\ Missing(q, Head(todo[q]))

Outcome(q) ==
  LET step == Head(todo[q])
  IN  /\ \/ Advance(q)
         \/ todo' = [todo EXCEPT ![q] = <<"learn">>] /\ UNCHANGED code
         \/ \E status \in 500 .. 599 : Refuse(q, status)
         \/ Denied(q)
      /\ \/ UNCHANGED left
         \/ step \in Effects /\ ~Missing(q, step) /\ left' = [left EXCEPT ![q] = @ \cup {step}]
      /\ UNCHANGED <<given, stuck>>

LEMMA Outcomes == ASSUME NEW q \in Requests, Plain(q) PROVE Outcome(q)
<1> USE DEF Outcome, Denied, Due, Running, serviceUnchanged, startupVars
<1>0. /\ 500 \in 500 .. 599 /\ 503 \in 500 .. 599
      /\ 400 \in 400 .. 499 /\ 401 \in 400 .. 499 /\ 404 \in 400 .. 499
  OBVIOUS
<1>1. CASE Authenticate(q)
  <2>1. Head(todo[q]) = "resolve" /\ UNCHANGED <<left, given, stuck>>
    BY <1>1 DEF Authenticate
  <2>2. Refuse(q, 401) \/ Refuse(q, 503) \/ Advance(q)
    BY <1>1 DEF Authenticate
  <2> QED  BY <1>0, <2>1, <2>2 DEF Strict
<1>2. CASE Logout(q)
  BY <1>0, <1>2 DEF Logout
<1>3. CASE Decode(q)
  <2>1. Head(todo[q]) = "decode" /\ UNCHANGED <<left, given, stuck>>
    BY <1>3 DEF Decode
  <2>2. Refuse(q, 400) \/ Advance(q)
    BY <1>3 DEF Decode
  <2> QED  BY <1>0, <2>1, <2>2 DEF Strict
<1>4. CASE Validate(q)
  <2>1. Rejected(Input(q)) = 500 \/ Rejected(Input(q)) = 400
    BY DEF Rejected
  <2>2. /\ Advance(q) \/ Refuse(q, Rejected(Input(q)))
        /\ Head(todo[q]) = "validate" /\ UNCHANGED <<left, given, stuck>>
    BY <1>4 DEF Validate
  <2> QED  BY <1>0, <2>1, <2>2 DEF Strict
<1>5. CASE Read(q)
  <2> DEFINE step == Head(todo[q])
  <2>1. step \in {"context", "find", "latest", "list", "transaction", "route"}
        /\ UNCHANGED <<left, given, stuck>>
    BY <1>5 DEF Read
  <2>2. \/ step = "route" /\ Refuse(q, 404)
        \/ Refuse(q, 500) \/ Advance(q)
        \/ Missing(q, step) /\ step # "route" /\ Refuse(q, NotFound(step))
    BY <1>5, Zenon DEF Read
  <2>3. NotFound(step) = IF step = "latest" THEN 500 ELSE 404
    BY DEF NotFound
  <2>4. step \in Strict \cup Seeking \/ step \in {"latest", "list"}
    BY <2>1 DEF Strict, Seeking
  <2>5. CASE Missing(q, step) /\ step # "route" /\ Refuse(q, NotFound(step))
    <3>1. step # "list"
      BY <2>5 DEF Missing
    <3>2. CASE step = "latest"
      BY <1>0, <2>1, <2>3, <2>5, <3>2
    <3>3. CASE step # "latest"
      <4>1. step \in Seeking /\ NotFound(step) = 404
        BY <2>1, <2>3, <2>5, <3>1, <3>3 DEF Seeking
      <4> QED  BY <1>0, <2>1, <2>5, <4>1
    <3> QED  BY <3>2, <3>3
  <2>6. CASE step = "route" /\ Refuse(q, 404)
    BY <1>0, <2>1, <2>6 DEF Strict
  <2>7. CASE Refuse(q, 500) \/ Advance(q)
    BY <1>0, <2>1, <2>7
  <2> QED  BY <2>2, <2>5, <2>6, <2>7
<1>6. CASE ReadUsage(q)
  BY <1>0, <1>6 DEF ReadUsage
<1>7. CASE EndRun(q)
  <2>1. \/ Refuse(q, 500) \/ Advance(q)
        \/ todo' = [todo EXCEPT ![q] = <<"learn">>] /\ UNCHANGED code
    BY <1>7, Zenon DEF EndRun
  <2>2. UNCHANGED <<left, given, stuck>>
    BY <1>7 DEF EndRun
  <2> QED  BY <1>0, <2>1, <2>2
<1>8. CASE Learn(q)
  <2>1. ~Missing(q, "learn") /\ "learn" \in Effects
    BY DEF Missing, Effects
  <2> QED  BY <1>8, <2>1 DEF Learn
<1>9. CASE Write(q)
  <2> DEFINE step == Head(todo[q])
  <2>1. step \in Writes /\ step \in Effects /\ UNCHANGED <<given, stuck>>
    BY <1>9 DEF Write, Effects
  <2>2. /\ \/ Refuse(q, 500) \/ Advance(q)
           \/ Missing(q, step) /\ Refuse(q, NotFound(step))
        /\ \/ UNCHANGED left
           \/ ~Missing(q, step) /\ left' = [left EXCEPT ![q] = @ \cup {step}]
    BY <1>9, Zenon DEF Write
  <2>3. CASE Missing(q, step) /\ Refuse(q, NotFound(step))
    <3>1. step \in Seeking /\ NotFound(step) = 404
      BY <2>1, <2>3 DEF Missing, Writes, Seeking, NotFound
    <3>2. UNCHANGED left
      BY <2>2, <2>3
    <3> QED  BY <1>0, <2>1, <2>3, <3>1, <3>2
  <2>4. CASE Refuse(q, 500) \/ Advance(q)
    BY <1>0, <2>1, <2>2, <2>4
  <2> QED  BY <2>2, <2>3, <2>4
<1>10. CASE KeepPreview(q)
  BY <1>10 DEF KeepPreview
<1>11. CASE TakePreview(q)
  <2>1. Head(todo[q]) = "take" /\ UNCHANGED <<left, given, stuck>>
    BY <1>11 DEF TakePreview
  <2>2. Refuse(q, 400) \/ Advance(q)
    BY <1>11 DEF TakePreview
  <2> QED  BY <1>0, <2>1, <2>2 DEF Strict
<1> QED  BY <1>1, <1>2, <1>3, <1>4, <1>5, <1>6, <1>7, <1>8, <1>9, <1>10, <1>11 DEF Plain

LEMMA ZeroIsNoError == 0 \notin 400 .. 499
  OBVIOUS

(* A request that advances has not been refused.                             *)
LEMMA AdvanceIsNoError ==
  ASSUME CountersType, NEW q \in Requests, Advance(q), code[q] = 0
  PROVE  code'[q] \notin 400 .. 499
<1>1. code'[q] \in {0, 200, 201, 204}
  BY DEF Advance, CountersType, Succeeded
<1> QED  BY <1>1

(* The step of one request keeps RefusalOf for it: an advance has done no     *)
(* more than its step, a refusal below 500 nothing at all.                   *)
LEMMA RefusalAdvance ==
  ASSUME CountersType, MadeInv, NEW q \in Requests, Flow(q), RefusalOf(q), todo[q] # <<>>,
         code[q] = 0, Advance(q), given' = given,
         left'[q] \subseteq left[q] \cup {Head(todo[q])},
         ~(left'[q] \subseteq left[q]) => Head(todo[q]) \in Effects /\ ~Missing(q, Head(todo[q]))
  PROVE  RefusalOf(q)'
<1>1. PICK step : step = Head(todo[q])
  OBVIOUS
<1>2. todo[q] \in Seq(Steps) /\ todo'[q] = Tail(todo[q])
  BY AtWork DEF Advance, CountersType
<1>3. Clean(todo'[q], left'[q])
  <2>1. Clean(todo[q], left[q])
    BY DEF RefusalOf
  <2> QED  BY <1>2, <2>1, CleanTail
<1>4. code'[q] \notin 400 .. 499
  BY AdvanceIsNoError, Zenon
<1>5. User(q)' = User(q)
  BY DEF User
<1>6. "advise" \in left'[q] \/ "result" \in left'[q] => User(q) = given.consultation
  <2>1. CASE left'[q] \subseteq left[q]
    BY <2>1 DEF RefusalOf
  <2>2. CASE ~Missing(q, step)
    <3>1. step \in {"advise", "result"} => User(q) = given.consultation
      BY <2>2 DEF Missing
    <3> QED  BY <1>1, <3>1 DEF RefusalOf
  <2> QED  BY <1>1, <2>1, <2>2
<1>7. "category" \in left'[q] => User(q) = given.transaction
  <2>1. CASE left'[q] \subseteq left[q]
    BY <2>1 DEF RefusalOf
  <2>2. CASE ~Missing(q, step)
    <3>1. step = "category" => User(q) = given.transaction
      BY <2>2 DEF Missing
    <3> QED  BY <1>1, <3>1 DEF RefusalOf
  <2> QED  BY <1>1, <2>1, <2>2
<1> QED  BY <1>3, <1>4, <1>5, <1>6, <1>7 DEF RefusalOf

LEMMA RefusalRefuse ==
  ASSUME CountersType, MadeInv, NEW q \in Requests, Flow(q), RefusalOf(q), todo[q] # <<>>,
         code[q] = 0, given' = given, Denied(q)
  PROVE  RefusalOf(q)'
<1>0. PICK status \in 400 .. 499 :
        /\ Refuse(q, status) /\ left' = left
        /\ \/ Head(todo[q]) \in Strict
           \/ Head(todo[q]) \in Seeking /\ Missing(q, Head(todo[q]))
  BY Zenon DEF Denied
<1>1. PICK step : step = Head(todo[q])
  OBVIOUS
<1>2. todo[q] \in Seq(Steps) /\ 1 \in DOMAIN todo[q] /\ todo[q][1] = step
  <2>1. todo[q] \in Seq(Steps)
    BY AtWork
  <2> QED  BY <1>1, <2>1
<1>3. code'[q] = status /\ status # 0
  BY <1>0 DEF Refuse, CountersType
<1>4. todo'[q] = IF "reserve" \in left[q] THEN <<"release">> ELSE <<>>
  BY <1>0 DEF Refuse, CountersType
<1>5. left[q] \subseteq Prior(step)
  BY <1>2 DEF RefusalOf, Clean
<1>6. left[q] \subseteq {"reserve"}
  <2>1. CASE step \in Strict
    BY <1>5, <2>1 DEF Strict, Prior
  <2>2. CASE step \in {"category", "setMemory", "dropMemory", "result", "advise", "context"}
    BY <1>5, <2>2 DEF Prior
  <2>3. CASE step = "find" /\ Missing(q, step)
    <3>1. User(q) # given.consultation /\ left[q] \subseteq {"advise", "result"}
      BY <1>5, <2>3 DEF Missing, Prior
    <3> QED  BY <3>1 DEF RefusalOf
  <2>4. CASE step = "transaction" /\ Missing(q, step)
    <3>1. User(q) # given.transaction /\ left[q] \subseteq {"category"}
      BY <1>5, <2>4 DEF Missing, Prior
    <3> QED  BY <3>1 DEF RefusalOf
  <2> QED  BY <1>0, <1>1, <2>1, <2>2, <2>3, <2>4 DEF Seeking
<1>7. User(q)' = User(q)
  BY DEF User
<1>8. todo'[q] = <<>> => left[q] = {}
  <2>1. "reserve" \in left[q] => todo'[q] # <<>>
    BY <1>4
  <2>2. "reserve" \notin left[q] => left[q] = {}
    BY <1>6
  <2> QED  BY <2>1, <2>2
<1> QED  BY <1>0, <1>3, <1>6, <1>7, <1>8 DEF RefusalOf

LEMMA RefusalFails ==
  ASSUME CountersType, NEW q \in Requests, RefusalOf(q), NEW status \in 500 .. 599,
         Refuse(q, status) \/ RefuseUnreleased(q, status), given' = given,
         \A step \in {"advise", "result", "category"} :
           step \in left'[q] => step \in left[q] \/ ~Missing(q, step)
  PROVE  RefusalOf(q)'
<1>1. code'[q] = status /\ status # 0 /\ status \notin 400 .. 499
  <2>1. code'[q] = status
    BY DEF Refuse, RefuseUnreleased, CountersType
  <2>2. status # 0 /\ status \notin 400 .. 499
    OBVIOUS
  <2> QED  BY <2>1, <2>2
<1>2. User(q)' = User(q)
  BY DEF User
<1>3. /\ "advise" \in left'[q] \/ "result" \in left'[q] => User(q) = given.consultation
      /\ "category" \in left'[q] => User(q) = given.transaction
  <2>1. /\ ~Missing(q, "advise") => User(q) = given.consultation
        /\ ~Missing(q, "result") => User(q) = given.consultation
        /\ ~Missing(q, "category") => User(q) = given.transaction
    BY DEF Missing
  <2> QED  BY <2>1 DEF RefusalOf
<1> QED  BY <1>1, <1>2, <1>3 DEF RefusalOf

LEMMA RefusalPlain ==
  ASSUME CountersType, MadeInv, NEW q \in Requests, Flow(q), RefusalOf(q), Plain(q)
  PROVE  RefusalOf(q)' /\ stuck \subseteq stuck'
<1>1. Outcome(q) /\ PlainEffect(q)
  BY Outcomes, PlainEffects
<1>2. PICK step : step = Head(todo[q])
  OBVIOUS
<1>3. todo[q] # <<>> /\ step \notin {"reserve", "release"} /\ given' = given /\ stuck' = stuck
  BY <1>1, <1>2 DEF PlainEffect, Outcome
<1>4. code[q] = 0
  <2>1. todo[q] \in Seq(Steps)
    BY DEF CountersType
  <2>2. 1 \in DOMAIN todo[q] /\ todo[q][1] = step
    BY <1>2, <1>3, <2>1
  <2> QED  BY <1>3, <2>2 DEF Flow
<1>5. /\ left'[q] \subseteq left[q] \cup {step}
      /\ ~(left'[q] \subseteq left[q]) => step \in Effects /\ ~Missing(q, step)
  BY <1>1, <1>2 DEF Outcome, CountersType
<1>6. CASE Advance(q)
  BY <1>2, <1>3, <1>4, <1>5, <1>6, RefusalAdvance
<1>7. CASE todo' = [todo EXCEPT ![q] = <<"learn">>] /\ UNCHANGED code
  <2>1. todo'[q] = <<"learn">> /\ code'[q] = 0
    BY <1>4, <1>7 DEF CountersType
  <2>2. /\ todo[q] \in Seq(Steps) /\ left'[q] \subseteq Steps
    BY <1>2, <1>3, <1>5, AtWork DEF CountersType
  <2>3. Clean(<<"learn">>, left'[q])
    <3>1. Prior("learn") = Steps
      BY DEF Prior
    <3> QED  BY <2>2, <3>1 DEF Clean, Tidy
  <2>4. User(q)' = User(q)
    BY <1>3 DEF User
  <2>5. /\ "advise" \in left'[q] \/ "result" \in left'[q] => User(q) = given.consultation
        /\ "category" \in left'[q] => User(q) = given.transaction
    BY <1>5 DEF RefusalOf, Missing
  <2>6. 0 \notin 400 .. 499
    BY ZeroIsNoError, Zenon
  <2> QED  BY <1>3, <2>1, <2>3, <2>4, <2>5, <2>6 DEF RefusalOf
<1>8. ASSUME NEW status \in 500 .. 599, Refuse(q, status) PROVE RefusalOf(q)'
  BY <1>3, <1>5, <1>8, RefusalFails
<1>9. CASE Denied(q)
  BY <1>3, <1>4, <1>9, RefusalRefuse
<1>10. Advance(q) \/ (todo' = [todo EXCEPT ![q] = <<"learn">>] /\ UNCHANGED code)
        \/ (\E status \in 500 .. 599 : Refuse(q, status)) \/ Denied(q)
  BY <1>1, Zenon DEF Outcome
<1>11. stuck \subseteq stuck'
  BY <1>3
<1> QED  BY <1>6, <1>7, <1>8, <1>9, <1>10, <1>11, Zenon

LEMMA RefusalArrive ==
  ASSUME CountersType, NEW q \in Requests, Flow(q), Arrive(q)
  PROVE  RefusalOf(q)' /\ stuck \subseteq stuck'
<1>1. /\ q \in DOMAIN given.requests /\ todo[q] = <<>> /\ code[q] = 0
      /\ todo' = [todo EXCEPT ![q] = Program(Op(q))]
      /\ UNCHANGED <<code, left, stuck>>
  BY Zenon DEF Arrive, startupVars, rowVars
<1>2. left[q] = {} /\ Op(q) \in DOMAIN Service
  BY <1>1, ApiAssumption DEF Flow, Op, CountersType
<1>3. Clean(Program(Op(q)), {})
  BY <1>2, ProgramsClean
<1>4. todo'[q] = Program(Op(q)) /\ code'[q] = 0 /\ left'[q] = {} /\ 0 \notin 400 .. 499
  BY <1>1, <1>2 DEF CountersType
<1> QED  BY <1>1, <1>3, <1>4 DEF RefusalOf

LEMMA RefusalReserve ==
  ASSUME CountersType, MadeInv, NEW q \in Requests, Flow(q), RefusalOf(q), Reserve(q)
  PROVE  RefusalOf(q)' /\ stuck \subseteq stuck'
<1>1. /\ todo[q] # <<>> /\ Head(todo[q]) = "reserve"
      /\ UNCHANGED <<given, stuck>>
  BY DEF Reserve, Due, Running, serviceUnchanged, startupVars
<1>2. /\ Advance(q) \/ RefuseUnreleased(q, 500)
      /\ left' = left \/ left' = [left EXCEPT ![q] = @ \cup {"reserve"}]
  BY Zenon DEF Reserve
<1>3. code[q] = 0
  <2>1. todo[q] \in Seq(Steps)
    BY DEF CountersType
  <2>2. 1 \in DOMAIN todo[q] /\ todo[q][1] = "reserve"
    BY <1>1, <2>1
  <2> QED  BY <1>1, <2>2 DEF Flow
<1>4. left'[q] \subseteq left[q] \cup {"reserve"}
  BY <1>2 DEF CountersType
<1>5. "reserve" \in Effects /\ ~Missing(q, "reserve") /\ 500 \in 500 .. 599
  BY DEF Effects, Missing
<1>6. CASE Advance(q)
  BY <1>1, <1>3, <1>4, <1>5, <1>6, RefusalAdvance
<1>7. CASE RefuseUnreleased(q, 500)
  BY <1>1, <1>4, <1>5, <1>7, RefusalFails
<1> QED  BY <1>1, <1>2, <1>6, <1>7

LEMMA RefusalRelease ==
  ASSUME CountersType, MadeInv, NEW q \in Requests, Flow(q), RefusalOf(q), Release(q)
  PROVE  RefusalOf(q)' /\ stuck \subseteq stuck'
<1>1. /\ todo[q] # <<>> /\ Head(todo[q]) = "release" /\ Advance(q) /\ given' = given
      /\ \/ stuck' = stuck \cup {q} /\ UNCHANGED left
         \/ stuck' = stuck /\ left' = [left EXCEPT ![q] = @ \ {"reserve"}]
  BY Zenon DEF Release, Due, Running, startupVars
<1>2. code[q] # 0
  <2>1. todo[q] \in Seq(Steps)
    BY DEF CountersType
  <2>2. 1 \in DOMAIN todo[q] /\ todo[q][1] = "release"
    BY <1>1, <2>1
  <2> QED  BY <2>2 DEF Flow
<1>3. code'[q] = code[q]
  BY <1>1, <1>2 DEF Advance
<1>4. \/ q \in stuck' /\ left'[q] = left[q]
      \/ left'[q] = left[q] \ {"reserve"}
  BY <1>1 DEF CountersType
<1>5. User(q)' = User(q)
  BY <1>1 DEF User
<1> QED  BY <1>1, <1>2, <1>3, <1>4, <1>5 DEF RefusalOf

LEMMA RefusalStill ==
  ASSUME NEW q, RefusalOf(q), given' = given, stuck \subseteq stuck',
         todo'[q] = todo[q], code'[q] = code[q], left'[q] = left[q]
  PROVE  RefusalOf(q)'
  BY DEF RefusalOf, User

LEMMA RefusalNext ==
  ASSUME CountersType, MadeInv, LateInv, RefusalInv, Next PROVE RefusalInv'
<1>0. CASE StartupNext /\ UNCHANGED <<requestVars, rowVars>>
  <2>1. given' = given
    BY <1>0, StartupKeepsGiven
  <2> QED  BY <1>0, <2>1, RefusalStill DEF requestVars, RefusalInv
<1>1. ASSUME NEW q \in Requests,
             \/ Arrive(q) \/ Cancel(q) \/ Reserve(q) \/ Release(q)
             \/ CallModel(q) \/ RecordUsage(q) \/ Plain(q)
      PROVE  RefusalInv'
  <2>1. Flow(q) /\ RefusalOf(q)
    BY DEF LateInv, RefusalInv
  <2>2. CASE Cancel(q) \/ RecordUsage(q) \/ CallModel(q)
    <3>1. UNCHANGED <<given, todo, code, left, stuck>>
      BY <2>2, Zenon DEF Cancel, RecordUsage, CallModel, startupVars, rowVars
    <3> QED  BY <3>1, RefusalStill DEF RefusalInv
  <2>3. CASE Arrive(q) \/ Reserve(q) \/ Release(q) \/ Plain(q)
    <3>1. RefusalOf(q)' /\ stuck \subseteq stuck'
      BY <2>1, <2>3, RefusalArrive, RefusalReserve, RefusalRelease, RefusalPlain
    <3>2. StepOf(q)
      BY <2>1, <2>3, ArriveStep, ReserveStep, ReleaseStep, PlainStep
    <3>3. \A r \in Requests \ {q} : RefusalOf(r)'
      BY <3>1, <3>2, RefusalStill DEF StepOf, Untouched, RefusalInv
    <3> QED  BY <3>1, <3>3 DEF RefusalInv
  <2> QED  BY <1>1, <2>2, <2>3
<1> QED  BY <1>0, <1>1, ApiCases

LEMMA RefusalInit == ASSUME ApiInit PROVE RefusalInv
<1>1. \A q \in Requests : todo[q] = <<>> /\ code[q] = 0 /\ left[q] = {}
  BY DEF ApiInit
<1>2. Clean(<<>>, {}) /\ 0 \notin 400 .. 499
  BY DEF Clean, Tidy
<1> QED  BY <1>1, <1>2 DEF RefusalInv, RefusalOf

(* A client that reads 4xx may take it that nothing happened: no order of     *)
(* the calls in a handler writes before a check that can still refuse, and   *)
(* the one reservation that precedes a missing profile goes back first       *)
(* (application.go:297-310).                                                 *)
THEOREM ServerRefusedLeavesNothing == Spec => []RefusedLeavesNothing
<1>1. ApiInit => RefusalInv
  BY RefusalInit
<1>2. CountersType /\ MadeInv /\ LateInv /\ RefusalInv /\ [Next]_vars => RefusalInv'
  <2>1. UNCHANGED vars => given' = given /\ UNCHANGED requestVars
    BY DEF vars, startupVars
  <2>2. RefusalInv /\ given' = given /\ UNCHANGED requestVars => RefusalInv'
    BY RefusalStill DEF requestVars, RefusalInv
  <2> QED  BY <2>1, <2>2, RefusalNext
<1>3. RefusalInv => RefusedLeavesNothing
  BY DEF RefusalInv, RefusalOf, RefusedLeavesNothing, Answered
<1> QED  BY <1>1, <1>2, <1>3, LateInductive, PTL DEF Spec

-----------------------------------------------------------------------------
(* Who calls the external model is served by a process that has it.           *)
CallInv ==
  /\ DOMAIN at = Requests
  /\ \A q \in Requests : todo[q] # <<>> \/ code[q] # 0 => at[q] \in Procs
  /\ \A q \in Requests : calls[q] > 0 => mode[at[q]] = "openai"

LEMMA CallerIsServed ==
  ASSUME CountersType, LateInv, CallInv, NEW q \in Requests, calls[q] > 0
  PROVE  at[q] \in Procs
<1>1. ~(todo[q] = <<>> /\ code[q] = 0)
  BY DEF LateInv, Flow, CountersType
<1> QED  BY <1>1 DEF CallInv

LEMMA ModeKept ==
  ASSUME TypeOK, ServesAsAsked, StartupNext, NEW p \in Procs, mode[p] = "openai"
  PROVE  mode'[p] = "openai"
<1>1. ASSUME NEW r \in Procs, Start(r) PROVE mode'[p] = "openai"
  <2>1. PICK config : config = Load(given.launch[r].env, given.launch[r].files)
    OBVIOUS
  <2>2. phase[r] = "down" /\ (mode' = mode \/ mode' = [mode EXCEPT ![r] = config.mode])
    BY <1>1, <2>1 DEF Start
  <2>3. r # p
    BY <2>2 DEF ServesAsAsked
  <2> QED  BY <2>2, <2>3 DEF TypeOK
<1>2. StartupNext => mode' = mode \/ \E r \in Procs : Start(r)
  BY DEF StartupNext, Open, TakeLock, Migrate, CommitMigrations, Die, Stop,
         Register, CheckUserLimit, EndRegistration, Disable, SetUserLimit
<1> QED  BY <1>1, <1>2

LEMMA CallNext ==
  ASSUME CountersType, MadeInv, LateInv, TypeOK, ServesAsAsked, CallInv, Next PROVE CallInv'
<1>0. CASE StartupNext /\ UNCHANGED <<requestVars, rowVars>>
  <2>1. UNCHANGED <<at, todo, code, calls>>
    BY <1>0 DEF requestVars
  <2>2. \A q \in Requests : calls[q] > 0 => mode'[at[q]] = "openai"
    BY <1>0, CallerIsServed, ModeKept DEF CallInv
  <2> QED  BY <2>1, <2>2 DEF CallInv
<1>1. ASSUME NEW q \in Requests, Arrive(q) PROVE CallInv'
  <2>1. PICK p \in Procs : at' = [at EXCEPT ![q] = p]
    BY <1>1 DEF Arrive, ServingNow
  <2>2. /\ todo[q] = <<>> /\ code[q] = 0 /\ UNCHANGED <<code, calls, mode>>
        /\ \A r \in Requests \ {q} : todo'[r] = todo[r]
    BY <1>1, Zenon DEF Arrive, startupVars, CountersType
  <2>3. calls[q] = 0
    BY <2>2 DEF LateInv, Flow
  <2> QED  BY <2>1, <2>2, <2>3 DEF CallInv
<1>2. ASSUME NEW q \in Requests, \/ Cancel(q) \/ Reserve(q) \/ Release(q)
                                 \/ CallModel(q) \/ RecordUsage(q) \/ Plain(q)
      PROVE  CallInv'
  <2>1. mode' = mode /\ at' = at
    BY <1>2, PlainKeepsStartup, RequestKeepsStartup
       DEF startupVars, serviceUnchanged, Cancel, Reserve, Release, CallModel, RecordUsage, Plain,
           Authenticate, Logout, Decode, Validate, Read, ReadUsage, EndRun, Learn, Write,
           KeepPreview, TakePreview
  <2>2. todo[q] # <<>>
    BY <1>2, PlainEffects
       DEF PlainEffect, Cancel, Reserve, Release, CallModel, RecordUsage, Due, Running
  <2>3. \A r \in Requests \ {q} : todo'[r] = todo[r] /\ code'[r] = code[r]
    <3>1. CASE Cancel(q) \/ RecordUsage(q)
      BY <3>1 DEF Cancel, RecordUsage
    <3>2. CASE Reserve(q) \/ Release(q) \/ CallModel(q) \/ Plain(q)
      BY <3>2, ReserveStep, ReleaseStep, CallStep, PlainStep DEF StepOf, Untouched, LateInv
    <3> QED  BY <1>2, <3>1, <3>2
  <2>4. CASE CallModel(q)
    <3>1. mode[at[q]] = "openai" /\ calls' = [calls EXCEPT ![q] = @ + 1]
      BY <2>4 DEF CallModel
    <3>2. \A r \in Requests : calls'[r] > 0 => mode[at[r]] = "openai"
      BY <3>1 DEF CallInv, CountersType
    <3> QED  BY <2>1, <2>2, <2>3, <3>2 DEF CallInv
  <2>5. CASE ~CallModel(q)
    <3>1. calls' = calls
      BY <1>2, <2>5, PlainEffects DEF PlainEffect, Cancel, Reserve, Release, RecordUsage
    <3> QED  BY <2>1, <2>2, <2>3, <3>1 DEF CallInv
  <2> QED  BY <2>4, <2>5
<1> QED  BY <1>0, <1>1, <1>2, ApiCases

(* No message leaves for the external model but from a process whose          *)
(* environment and files asked for it, whatever is restarted, reconfigured   *)
(* and served beside it (config.go:31, dotenv.go:14-17).                     *)
THEOREM ServerExternalOnlyIfAsked == Spec => []ExternalOnlyIfAsked
<1>1. ApiInit => CallInv
  BY DEF ApiInit, CallInv
<1>2. CountersType /\ MadeInv /\ LateInv /\ TypeOK /\ ServesAsAsked /\ CallInv /\ [Next]_vars
        => CallInv'
  <2>1. CallInv /\ UNCHANGED vars => CallInv'
    BY DEF vars, startupVars, requestVars, CallInv
  <2> QED  BY <2>1, CallNext
<1>3. CountersType /\ LateInv /\ ServesAsAsked /\ CallInv => ExternalOnlyIfAsked
  <2> SUFFICES ASSUME CountersType, LateInv, ServesAsAsked, CallInv,
                      NEW q \in Requests, calls[q] > 0
               PROVE  AskedForExternal(given.launch[at[q]].env, given.launch[at[q]].files)
    BY DEF ExternalOnlyIfAsked
  <2>1. at[q] \in Procs /\ mode[at[q]] = "openai"
    BY CallerIsServed DEF CallInv
  <2> QED  BY <2>1 DEF ServesAsAsked
<1> QED  BY <1>1, <1>2, <1>3, LateInductive, ServerKeepsStartup, StartupType,
            StartupServesAsAsked, PTL DEF Spec

=============================================================================
