----------------------------- MODULE ApiServer -----------------------------
(* The requests the processes of Startup serve: authentication (auth.Wrap), *)
(* the handlers with their error mapping, the services they call statement  *)
(* by statement, the choice between the external model and the local one,   *)
(* and the calls of the OpenAI client with the recording of their tokens.   *)
EXTENDS Startup

CONSTANTS
  Requests,  \* requests of the clients
  Limit,     \* the monthly limit of consultations
  MaxCalls,  \* how often one run of the agent calls its model at most
  NoOne      \* the owner of a row that does not exist

VARIABLES
  at,        \* the process that serves a request
  todo,      \* what its handler has still to do, in order
  code,      \* the status it answers with, 0 before that is settled
  tier,      \* the model its agent may use
  calls,     \* the calls made to the external model
  due,       \* an answer with tokens that is not yet recorded
  left,      \* what the request has changed in the database
  stuck,     \* requests whose deferred release failed
  cancelled, \* requests whose client is gone
  late,      \* history: requests sent when the month's limit was used up
  metered,   \* history: answers of the model that counted tokens
  unrecorded,\* history: those whose recording failed
  llmUsage,  \* llm_usage: the number of rows for each user and request
  count,     \* monthly_consultation_usage of each user, this month
  sessions,  \* users with a live session
  profiles,  \* users with a profile
  reviews,   \* users with a review
  memory,    \* the owner of the one memory that requests name
  previews   \* the previews each process holds, by user

requestVars == <<at, todo, code, tier, calls, due, left, stuck, cancelled,
                 late, metered, unrecorded>>
rowVars == <<llmUsage, count, sessions, profiles, reviews, memory, previews>>
vars == <<startupVars, requestVars, rowVars>>

Op(q) == given.requests[q].op
User(q) == given.requests[q].user
Input(q) == given.requests[q].input

ApiInit ==
  /\ Init
  /\ at = [q \in Requests |-> CHOOSE p \in Procs : TRUE]
  /\ todo = [q \in Requests |-> <<>>]
  /\ code = [q \in Requests |-> 0]
  /\ tier = [q \in Requests |-> "none"]
  /\ calls = [q \in Requests |-> 0]
  /\ due = [q \in Requests |-> FALSE]
  /\ left = [q \in Requests |-> {}]
  /\ stuck = {} /\ cancelled = {} /\ late = {}
  /\ metered = [q \in Requests |-> 0]
  /\ unrecorded = [q \in Requests |-> 0]
  /\ llmUsage = [u \in Users |-> [q \in Requests |-> 0]]
  /\ count = [u \in Users |-> 0]
  /\ sessions = given.enabled
  /\ profiles = given.profiles
  /\ reviews = {}
  /\ memory = given.memory
  /\ previews = [p \in Procs |-> {}]

(***************************************************************************)
(* What the handlers do.                                                   *)
(***************************************************************************)

(* The calls of each handler, in their order.  "decode" is the parsing of an  *)
(* id or a body; "agent" stands for as many steps as the agent takes;        *)
(* "context" for the reads that begin with the profile.  What a consultation *)
(* does after it is stored (the alert, its two messages) can no longer       *)
(* change the answer and is ConsultationQuota's.                             *)
Service ==
  [start         |-> <<"decode", "validate", "reserve", "context", "agent", "create">>,
   continue      |-> <<"decode", "find", "validate", "context", "usage", "agent",
                       "advise", "find">>,
   result        |-> <<"decode", "validate", "result", "find", "usage", "agent">>,
   review        |-> <<"decode", "context", "usage", "agent", "review">>,
   latestReview  |-> <<"latest">>,
   consultation  |-> <<"decode", "find">>,
   consultations |-> <<"list">>,
   profile       |-> <<"context">>,
   putProfile    |-> <<"decode", "validate", "profile">>,
   dashboard     |-> <<"context">>,
   transactions  |-> <<"list">>,
   recategorize  |-> <<"decode", "validate", "category", "transaction">>,
   remember      |-> <<"decode", "validate", "category", "transaction", "rule">>,
   preview       |-> <<"decode", "list", "validate", "keep">>,
   commit        |-> <<"decode", "take", "import">>,
   memories      |-> <<"list">>,
   createMemory  |-> <<"decode", "validate", "addMemory">>,
   updateMemory  |-> <<"decode", "validate", "setMemory">>,
   deleteMemory  |-> <<"decode", "dropMemory">>,
   logout        |-> <<"logout">>,
   me            |-> <<>>,
   unknown       |-> <<"route">>]

(* Wrap authenticates first.  It answers logout and me itself; the mux finds  *)
(* the handlers of the others.                                              *)
Program(op) == <<"resolve">> \o Service[op]

(* given.requests gives each request made its op, user and input; the other   *)
(* fields (profiles, memory, consultation, transaction) are the rows there   *)
(* are, by their owners.                                                     *)
ASSUME ApiAssumption ==
  /\ IsFiniteSet(Requests)
  /\ Limit \in Nat
  /\ \A s \in Scenarios :
       /\ DOMAIN s.requests \subseteq Requests
       /\ \A q \in DOMAIN s.requests :
            s.requests[q].op \in DOMAIN Service /\ s.requests[q].user \in Users

Succeeded(op) ==
  CASE op \in {"start", "review", "createMemory"} -> 201
    [] op \in {"deleteMemory", "logout"} -> 204
    [] OTHER -> 200

(* The row a step needs is missing, which is found by a WHERE on the user's  *)
(* id: rows of other users do not exist for it.                             *)
Missing(q, step) ==
  CASE step = "context" -> User(q) \notin profiles
    [] step \in {"find", "result", "advise"} -> User(q) # given.consultation
    [] step \in {"category", "transaction"} -> User(q) # given.transaction
    [] step \in {"setMemory", "dropMemory"} -> User(q) # memory
    [] step = "latest" -> User(q) \notin reviews
    [] step = "route" -> TRUE
    [] OTHER -> FALSE

(* writeServiceError: ErrNotFound is 404, but the empty result of a query     *)
(* for the latest review is not translated into it and answers 500.         *)
NotFound(step) == IF step = "latest" THEN 500 ELSE 404

(* Validation errors answer 400 when their text has one of the keywords of   *)
(* isUserError; that of a negative planned amount has none.                 *)
Rejected(input) == IF input = "negative" THEN 500 ELSE 400

(***************************************************************************)
(* The steps of a request.                                                 *)
(***************************************************************************)

Running(q) == todo[q] # <<>> /\ phase[at[q]] \in {"serving", "stopping"}
Due(q, steps) == Running(q) /\ Head(todo[q]) \in steps
Answered(q) == todo[q] = <<>> /\ code[q] # 0

(* On to the next step, and after the last one to the answer of a success.    *)
Advance(q) ==
  /\ todo' = [todo EXCEPT ![q] = Tail(@)]
  /\ code' = IF Tail(todo[q]) = <<>> /\ code[q] = 0
             THEN [code EXCEPT ![q] = Succeeded(Op(q))] ELSE code

(* A refusal that forgets the deferred release.                              *)
RefuseUnreleased(q, status) ==
  /\ todo' = [todo EXCEPT ![q] = <<>>]
  /\ code' = [code EXCEPT ![q] = status]

(* An error return: the deferred release of a reservation runs before the    *)
(* handler answers.                                                         *)
Refuse(q, status) ==
  /\ todo' = [todo EXCEPT ![q] = IF "reserve" \in left[q] THEN <<"release">> ELSE <<>>]
  /\ code' = [code EXCEPT ![q] = status]

(* The outcomes of a statement on the request's context: one that runs when   *)
(* the client leaves may have its effect, later ones are not sent.           *)
Replies(q) ==
  IF q \in cancelled THEN {"failed", "lost"}
  ELSE {"ok"} \cup ({"failed", "lost"} \cap given.faults)

ServingNow == {p \in Procs : phase[p] = "serving"}

(* The consultations of the month that are stored and known to be so.         *)
Stored(u) == {q \in DOMAIN given.requests :
                User(q) = u /\ "create" \in left[q] /\ code[q] = 201}

Arrive(q) ==
  /\ q \in DOMAIN given.requests
  /\ todo[q] = <<>> /\ code[q] = 0
  /\ \E p \in ServingNow : at' = [at EXCEPT ![q] = p]
  /\ todo' = [todo EXCEPT ![q] = Program(Op(q))]
  /\ late' = IF Cardinality(Stored(User(q))) >= Limit THEN late \cup {q} ELSE late
  /\ UNCHANGED <<startupVars, code, tier, calls, due, left, stuck, cancelled,
                 metered, unrecorded, rowVars>>

(* The client disconnects, which cancels the request's context.               *)
Cancel(q) ==
  /\ "cancel" \in given.faults
  /\ Running(q) /\ q \notin cancelled
  /\ cancelled' = cancelled \cup {q}
  /\ UNCHANGED <<startupVars, at, todo, code, tier, calls, due, left, stuck,
                 late, metered, unrecorded, rowVars>>

serviceUnchanged == <<startupVars, at, stuck, cancelled, late, metered, unrecorded>>

(* Wrap: the bearer token is looked up, with its user's row.                  *)
Authenticate(q) ==
  /\ Due(q, {"resolve"})
  /\ \/ /\ Input(q) = "noToken" /\ Refuse(q, 401)
     \/ /\ Input(q) # "noToken"
        /\ \E reply \in Replies(q) :
             IF reply # "ok" THEN Refuse(q, 503)
             ELSE IF User(q) \in sessions \cap active THEN Advance(q)
             ELSE Refuse(q, 401)
  /\ UNCHANGED <<serviceUnchanged, tier, calls, due, left, rowVars>>

Logout(q) ==
  /\ Due(q, {"logout"})
  /\ \E reply \in Replies(q) :
       /\ IF reply = "ok" THEN Advance(q) ELSE Refuse(q, 503)
       /\ sessions' = IF reply = "failed" THEN sessions ELSE sessions \ {User(q)}
  /\ UNCHANGED <<serviceUnchanged, tier, calls, due, left, llmUsage, count,
                 profiles, reviews, memory, previews>>

(* parseID and decodeJSON.                                                    *)
Decode(q) ==
  /\ Due(q, {"decode"})
  /\ IF Input(q) = "garbled" THEN Refuse(q, 400) ELSE Advance(q)
  /\ UNCHANGED <<serviceUnchanged, tier, calls, due, left, rowVars>>

Validate(q) ==
  /\ Due(q, {"validate"})
  /\ IF Input(q) \in {"invalid", "negative"} THEN Refuse(q, Rejected(Input(q)))
     ELSE Advance(q)
  /\ UNCHANGED <<serviceUnchanged, tier, calls, due, left, rowVars>>

Read(q) ==
  /\ Due(q, {"context", "find", "latest", "list", "transaction", "route"})
  /\ \E reply \in Replies(q) :
       IF Missing(q, Head(todo[q])) /\ Head(todo[q]) = "route" THEN Refuse(q, 404)
       ELSE IF reply # "ok" THEN Refuse(q, 500)
       ELSE IF Missing(q, Head(todo[q])) THEN Refuse(q, NotFound(Head(todo[q])))
       ELSE Advance(q)
  /\ UNCHANGED <<serviceUnchanged, tier, calls, due, left, rowVars>>

(***************************************************************************)
(* The choice of the model.                                                *)
(***************************************************************************)

Choose(q, external) ==
  tier' = [tier EXCEPT ![q] = IF external THEN "external" ELSE "local"]

(* Usage that still has room for one more, counting it or not.                *)
RoomOffByOne(u) == count[u] <= Limit
Room(u) == count[u] < Limit

(* ReserveMonthlyConsultation counts the request and returns the new count;   *)
(* after an error nothing is deferred yet.                                  *)
Reserve(q) ==
  /\ Due(q, {"reserve"})
  /\ \E reply \in Replies(q) :
       /\ IF reply = "ok" THEN Advance(q) ELSE RefuseUnreleased(q, 500)
       /\ IF reply = "ok" THEN Choose(q, Room(User(q))) ELSE UNCHANGED tier
       /\ IF reply = "failed" THEN UNCHANGED <<left, count>>
          ELSE /\ left' = [left EXCEPT ![q] = @ \cup {"reserve"}]
               /\ count' = [count EXCEPT ![User(q)] = @ + 1]
  /\ UNCHANGED <<serviceUnchanged, calls, due, llmUsage, sessions, profiles,
                 reviews, memory, previews>>

(* MonthlyConsultationUsage: an error ends a continuation and sends a result  *)
(* or a review to the local model (externalModelAllowed).                   *)
ReadUsage(q) ==
  /\ Due(q, {"usage"})
  /\ \E reply \in Replies(q) :
       IF reply # "ok" /\ Op(q) = "continue"
       THEN Refuse(q, 500) /\ UNCHANGED tier
       ELSE Advance(q) /\ Choose(q, reply = "ok" /\ Room(User(q)))
  /\ UNCHANGED <<serviceUnchanged, calls, due, left, rowVars>>

Release(q) ==
  /\ Due(q, {"release"})
  /\ \E reply \in Replies(q) :
       /\ IF reply = "failed" THEN stuck' = stuck \cup {q} /\ UNCHANGED <<left, count>>
          ELSE /\ left' = [left EXCEPT ![q] = @ \ {"reserve"}]
               /\ count' = [count EXCEPT ![User(q)] = @ - 1]
               /\ UNCHANGED stuck
  /\ Advance(q)
  /\ UNCHANGED <<startupVars, at, cancelled, late, metered, unrecorded, tier,
                 calls, due, llmUsage,
                 sessions, profiles, reviews, memory, previews>>

(***************************************************************************)
(* The agent.  Its library decides how often it calls the model and when it *)
(* gives up; what the client does with each answer is this repository's.    *)
(***************************************************************************)

(* structured: a refused call or unreadable answer counts no tokens, an       *)
(* answer without text or with a wrong structure may.                       *)
Answers == [metered : BOOLEAN, usable : BOOLEAN]
BilledIfUsable(answer) == answer.metered /\ answer.usable
Billed(answer) == answer.metered

CallModel(q) ==
  /\ Due(q, {"agent"}) /\ ~due[q]
  /\ tier[q] = "external" /\ mode[at[q]] = "openai"
  /\ calls[q] < MaxCalls
  /\ \E answer \in Answers :
       /\ q \in cancelled => ~answer.metered /\ ~answer.usable
       /\ metered' = [metered EXCEPT ![q] = IF answer.metered THEN @ + 1 ELSE @]
       /\ due' = [due EXCEPT ![q] = Billed(answer)]
  /\ calls' = [calls EXCEPT ![q] = @ + 1]
  /\ UNCHANGED <<startupVars, at, todo, code, tier, left, stuck, cancelled,
                 late, unrecorded, rowVars>>

(* usageRecorder: the row is written with the user of the request's context;  *)
(* an error is only logged.                                                 *)
RecordUsage(q) ==
  /\ Running(q) /\ due[q]
  /\ due' = [due EXCEPT ![q] = FALSE]
  /\ \E reply \in Replies(q) :
       IF reply = "failed"
       THEN unrecorded' = [unrecorded EXCEPT ![q] = @ + 1] /\ UNCHANGED llmUsage
       ELSE llmUsage' = [llmUsage EXCEPT ![User(q)][q] = @ + 1] /\ UNCHANGED unrecorded
  /\ UNCHANGED <<startupVars, at, todo, code, tier, calls, left, stuck,
                 cancelled, late, metered, count, sessions, profiles, reviews, memory, previews>>

(* The run ends.  An error ends a consultation with 500; a review falls back  *)
(* on its local candidates; a result goes on with what was drawn from it.    *)
EndRun(q) ==
  /\ Due(q, {"agent"}) /\ ~due[q]
  /\ \E outcome \in {"ok", "err"} :
       IF outcome = "err" /\ Op(q) \in {"start", "continue"}
       THEN Refuse(q, 500)
       ELSE IF outcome = "ok" /\ Op(q) = "result"
       THEN /\ todo' = [todo EXCEPT ![q] = <<"learn">>]
            /\ UNCHANGED code
       ELSE Advance(q)
  /\ UNCHANGED <<serviceUnchanged, tier, calls, due, left, rowVars>>

(* UpdateConsultationResult saves a candidate it trusts and ignores errors.   *)
Learn(q) ==
  /\ Due(q, {"learn"})
  /\ \E reply \in Replies(q) :
       left' = IF reply = "failed" THEN left ELSE [left EXCEPT ![q] = @ \cup {"learn"}]
  /\ Advance(q)
  /\ UNCHANGED <<serviceUnchanged, tier, calls, due, rowVars>>

(***************************************************************************)
(* Writes.                                                                 *)
(***************************************************************************)

Writes == {"create", "advise", "result", "review", "profile", "category", "rule",
           "import", "addMemory", "setMemory", "dropMemory"}

Write(q) ==
  LET step == Head(todo[q])
  IN  /\ Due(q, Writes)
      /\ \E reply \in Replies(q) :
           /\ IF reply # "ok" THEN Refuse(q, 500)
              ELSE IF Missing(q, step) THEN Refuse(q, NotFound(step))
              ELSE Advance(q)
           /\ IF reply = "failed" \/ Missing(q, step)
              THEN UNCHANGED <<left, profiles, reviews, memory, previews>>
              ELSE /\ left' = [left EXCEPT ![q] = @ \cup {step}]
                   /\ profiles' = IF step = "profile" THEN profiles \cup {User(q)} ELSE profiles
                   /\ reviews' = IF step = "review" THEN reviews \cup {User(q)} ELSE reviews
                   /\ memory' = IF step = "dropMemory" THEN NoOne ELSE memory
      /\ UNCHANGED <<serviceUnchanged, tier, calls, due, llmUsage, count, sessions, previews>>

(* The preview map of the process, under its mutex: a file whose columns are  *)
(* not recognised is not kept, and a commit that another process serves than *)
(* the preview did finds nothing and answers 400.                            *)
KeepPreview(q) ==
  /\ Due(q, {"keep"})
  /\ previews' = IF Input(q) = "unmapped" THEN previews
                 ELSE [previews EXCEPT ![at[q]] = @ \cup {User(q)}]
  /\ Advance(q)
  /\ UNCHANGED <<serviceUnchanged, tier, calls, due, left, llmUsage, count,
                 sessions, profiles, reviews, memory>>

TakePreview(q) ==
  /\ Due(q, {"take"})
  /\ IF User(q) \in previews[at[q]] THEN Advance(q) ELSE Refuse(q, 400)
  /\ previews' = [previews EXCEPT ![at[q]] = @ \ {User(q)}]
  /\ UNCHANGED <<serviceUnchanged, tier, calls, due, left, llmUsage, count,
                 sessions, profiles, reviews, memory>>

RequestNext(q) ==
  \/ Arrive(q) \/ Cancel(q) \/ Authenticate(q) \/ Logout(q) \/ Decode(q)
  \/ Validate(q) \/ Read(q) \/ Reserve(q) \/ ReadUsage(q) \/ Release(q)
  \/ CallModel(q) \/ RecordUsage(q) \/ EndRun(q) \/ Learn(q) \/ Write(q)
  \/ KeepPreview(q) \/ TakePreview(q)

Next ==
  \/ StartupNext /\ UNCHANGED <<requestVars, rowVars>>
  \/ \E q \in Requests : RequestNext(q)

Spec == ApiInit /\ [][Next]_vars

(***************************************************************************)
(* Safety.                                                                 *)
(***************************************************************************)

(* A call for the external model leaves only from a process whose start       *)
(* asked for it (config.go:31, dotenv.go:14-17).                            *)
ExternalOnlyIfAsked ==
  \A q \in Requests :
    calls[q] > 0 => LET launch == given.launch[at[q]]
                    IN  AskedForExternal(launch.env, launch.files)

(* Continuations, results and reviews read the usage without reserving and    *)
(* may be overtaken by new consultations until they call the model; but      *)
(* nothing that is sent once the limit's worth of consultations is stored    *)
(* reaches the external model (application.go:381, 451-454).                 *)
LateIsLocal == \A q \in late : calls[q] = 0

(* Every answer that counted tokens is recorded at most once, for the user    *)
(* who caused it and nobody else, however the run ends: its record is written, *)
(* or failed, or is due.  It stays due only when the process dies before the *)
(* record (client.go:195-217, app.go:59-70, docs/database-schema.md:71).     *)
UsageAccounted ==
  \A q \in DOMAIN given.requests :
    /\ metered[q] = llmUsage[User(q)][q] + unrecorded[q] + (IF due[q] THEN 1 ELSE 0)
    /\ unrecorded[q] > 0 => q \in cancelled \/ "failed" \in given.faults
    /\ Answered(q) => ~due[q]
    /\ \A u \in Users \ {User(q)} : llmUsage[u][q] = 0

(* A request answered with 4xx has changed nothing: what it had reserved is   *)
(* returned before the answer, unless the returning statement failed.        *)
RefusedLeavesNothing ==
  \A q \in Requests :
    Answered(q) /\ code[q] \in 400 .. 499 => left[q] = {} \/ q \in stuck

=============================================================================
