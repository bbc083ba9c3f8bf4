--------------------------- MODULE Configuration ---------------------------
(* How a server process learns its settings (internal/config): variables of *)
(* the process environment, completed from one .env file, then validated.   *)
(* An environment is a function from the names that are set to their        *)
(* values, a file a sequence of lines.  What distinguishes a value here is  *)
(* whether it is blank, and what the code recognises it as.                 *)
EXTENDS Sequences, SequencesExt, TLC

Blank == ""

(* Getenv returns the empty string for a name that is not set.              *)
Getenv(env, key) == IF key \in DOMAIN env THEN env[key] ELSE Blank

(* strings.TrimSpace, for values that are blanks only.                      *)
Trim(value) == IF value = " " THEN Blank ELSE value

EnvOrDefault(env, key, fallback) ==
  IF Getenv(env, key) = Blank THEN fallback ELSE env[key]

(***************************************************************************)
(* The .env file.                                                          *)
(***************************************************************************)

(* A line is blank or a comment, an assignment, or neither: no "=", a name  *)
(* that cannot be one, a quote that is not closed.                          *)
IsAssignment(line) == line.form = "assignment"
IsInvalid(line) == line.form = "invalid"

(* os.Setenv.                                                               *)
Setenv(env, key, value) ==
  [k \in DOMAIN env \cup {key} |-> IF k = key THEN value ELSE env[k]]

(* Overwriting, the way a loader without the lookup would.                  *)
ReadLineOverwriting(result, line) ==
  IF IsInvalid(line) THEN [result EXCEPT !.err = TRUE]
  ELSE IF IsAssignment(line)
       THEN [result EXCEPT !.env = Setenv(@, line.key, line.value)]
       ELSE result

(* One pass of loadDotEnvFile's loop.  The first invalid line ends it; a     *)
(* name that is set already, if only to blank, keeps its value, so that of  *)
(* two lines for one name the first counts.                                 *)
ReadLine(result, line) ==
  IF result.err \/ (IsAssignment(line) /\ line.key \in DOMAIN result.env)
  THEN result
  ELSE IF IsInvalid(line) THEN [result EXCEPT !.err = TRUE]
  ELSE IF IsAssignment(line)
       THEN [result EXCEPT !.env = Setenv(@, line.key, line.value)]
       ELSE result

LoadDotEnvFile(env, lines) ==
  FoldLeft(ReadLine, [env |-> env, err |-> FALSE], lines)

(* ENV_FILE names the one file to read, which must exist; otherwise the      *)
(* first of the usual ones that exists is read, if any does.  files maps    *)
(* the paths of the existing files to their lines.                          *)
DotEnvPaths(env, files) ==
  LET chosen == Trim(Getenv(env, "ENV_FILE"))
  IN  IF chosen # Blank THEN <<chosen>>
      ELSE SelectSeq(<<".env", "../.env">>, LAMBDA path : path \in DOMAIN files)

LoadDotEnv(env, files) ==
  LET paths == DotEnvPaths(env, files)
  IN  IF paths = <<>> THEN [env |-> env, err |-> FALSE]
      ELSE IF paths[1] \in DOMAIN files
           THEN LoadDotEnvFile(env, files[paths[1]])
           ELSE [env |-> env, err |-> TRUE]

(***************************************************************************)
(* The settings.                                                           *)
(***************************************************************************)

Truths == {"1", "true"}
Booleans == Truths \cup {"0", "false"}
Efforts == {"none", "low", "medium", "high", "xhigh", "max"}

(* What Load, OpenDatabase's first test and modelClient make of it: whether *)
(* the process starts, and which model it serves with.  A client without a  *)
(* key ("unkeyed") refuses every call before it is sent.                    *)
Load(env, files) ==
  LET loaded == LoadDotEnv(env, files)
      useMock == EnvOrDefault(loaded.env, "USE_MOCK_LLM", "true")
      effort == EnvOrDefault(loaded.env, "OPENAI_REASONING_EFFORT", "medium")
      url == EnvOrDefault(loaded.env, "DATABASE_URL", "postgres")
  IN  [err |-> \/ loaded.err
               \/ useMock \notin Booleans
               \/ effort \notin Efforts
               \/ Trim(url) = Blank,
       mode |-> IF useMock \in Truths THEN "mock"
                ELSE IF Trim(Getenv(loaded.env, "OPENAI_API_KEY")) = Blank
                     THEN "unkeyed" ELSE "openai"]

(***************************************************************************)
(* The reference definition.                                               *)
(***************************************************************************)

(* What was said of a name: by the environment if it sets it at all, else    *)
(* by the first line of the file that is read, else nothing (blank).        *)
Said(env, files, key) ==
  LET lines == LET paths == DotEnvPaths(env, files)
               IN  IF paths = <<>> THEN <<>> ELSE files[paths[1]]
      about == {i \in DOMAIN lines : IsAssignment(lines[i]) /\ lines[i].key = key}
  IN  IF key \in DOMAIN env THEN env[key]
      ELSE IF about = {} THEN Blank
      ELSE lines[CHOOSE i \in about : \A j \in about : i <= j].value

(* Messages may leave for the external model only where the one who starts  *)
(* the process asked for it and gave a key.                                 *)
AskedForExternal(env, files) ==
  /\ Said(env, files, "USE_MOCK_LLM") \in Booleans \ Truths
  /\ Trim(Said(env, files, "OPENAI_API_KEY")) # Blank

=============================================================================
