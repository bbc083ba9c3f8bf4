---------------------------- MODULE MCApiServer ----------------------------
(* Instances of ApiServer: a sum of small scenarios instead of one product.     *)
EXTENDS ApiServer

CONSTANTS p1, p2, u1, u2, r1, r2

MCProcs == {p1, p2}
MCUsers == {u1, u2}
MCRequests == {r1, r2}
MCKnows == p1 :> 3 @@ p2 :> 4
MCLocksUsers == {3}
MCUserLimits == {1, 2}

Assign(k, v) == [form |-> "assignment", key |-> k, value |-> v]
Remark == [form |-> "remark"]
Broken == [form |-> "invalid"]

None == <<>>
Plain == [env |-> None, files |-> None]
External == [env |-> "USE_MOCK_LLM" :> "false" @@ "OPENAI_API_KEY" :> "key",
             files |-> None]

(* The environment asks for the model, forbids it, leaves it blank or says   *)
(* nothing; the file of the repository root says the opposite, twice, or is *)
(* broken; a third file is chosen by name, or missing.                      *)
Envs == {None, "USE_MOCK_LLM" :> "true", "USE_MOCK_LLM" :> "", "USE_MOCK_LLM" :> "no",
         "OPENAI_API_KEY" :> " ", "ENV_FILE" :> "chosen", "ENV_FILE" :> "missing",
         "DATABASE_URL" :> " ", "OPENAI_REASONING_EFFORT" :> "some"}
Twice == <<Remark, Assign("USE_MOCK_LLM", "0"), Assign("USE_MOCK_LLM", "1"),
           Assign("OPENAI_API_KEY", "key")>>
Opposite == <<Assign("USE_MOCK_LLM", "false"), Assign("OPENAI_API_KEY", "key")>>
Faulty == <<Assign("USE_MOCK_LLM", "1"), Broken>>
FileSets == {None, ".env" :> Twice, "../.env" :> Opposite,
             ".env" :> Twice @@ "../.env" :> Opposite, ".env" :> Faulty,
             "../.env" :> Opposite @@ "chosen" :> Faulty, "chosen" :> Opposite}
Launches == {[env |-> e, files |-> f] : e \in Envs, f \in FileSets}

Quiet == [launch |-> p1 :> External, version |-> 4, users |-> {}, enabled |-> {u1},
          faults |-> {}, requests |-> None, profiles |-> {u1}, memory |-> u1,
          consultation |-> u1, transaction |-> u1]

Request(op, input) == [op |-> op, user |-> u1, input |-> input]

(* Two processes of different age start on a database of any age while two    *)
(* users are registered.                                                    *)
Rolling == {[Quiet EXCEPT !.launch = p1 :> Plain @@ p2 :> Plain, !.version = v,
                          !.users = {u1, u2}, !.enabled = e,
                          !.faults = {"die", "lost"}] :
              v \in {0, 2, 3}, e \in {{}, {u1}}}

(* One request under every configuration.                                     *)
Configured == {[Quiet EXCEPT !.launch = p1 :> l,
                             !.requests = r1 :> Request("review", "ok")] : l \in Launches}

(* One request of each kind, with every input and row, under every fault.     *)
Inputs(op) == {"ok", "noToken"}
              \cup (IF "decode" \in Range(Program(op)) THEN {"garbled"} ELSE {})
              \cup (IF "validate" \in Range(Program(op)) THEN {"invalid"} ELSE {})
              \cup (IF op = "start" THEN {"negative"} ELSE {})
              \cup (IF op = "preview" THEN {"unmapped"} ELSE {})
Single(op) == {[Quiet EXCEPT !.requests = r1 :> Request(op, i), !.profiles = ps,
                             !.memory = o, !.consultation = o, !.transaction = o,
                             !.faults = {"failed", "lost", "cancel", "die"}] :
                 i \in Inputs(op), ps \in {{}, {u1}}, o \in {u1, u2}}

(* Two requests of one user side by side.                                     *)
Pairs == {<<"start", "start">>, <<"start", "continue">>, <<"start", "result">>,
          <<"start", "review">>, <<"deleteMemory", "updateMemory">>,
          <<"logout", "start">>, <<"review", "latestReview">>, <<"preview", "commit">>}
Double == {[Quiet EXCEPT !.requests = r1 :> Request(pair[1], "ok")
                                      @@ r2 :> Request(pair[2], "ok"),
                         !.faults = f] :
             pair \in Pairs, f \in {{"cancel"}, {"failed", "lost"}}}

(* A preview and its commit while a second process takes over.                *)
Handover == {[Quiet EXCEPT !.launch = p1 :> Plain @@ p2 :> Plain,
                           !.requests = r1 :> Request("preview", "ok")
                                        @@ r2 :> Request("commit", "ok"),
                           !.faults = {"die"}]}

MCScenarios == Rolling \cup Configured \cup Handover \cup Double \cup UNION {Single(op) : op \in DOMAIN Service}
=============================================================================
