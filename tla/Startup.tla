------------------------------ MODULE Startup ------------------------------
(* The life of a server process (cmd/api/main.go, internal/app) against the *)
(* database it shares with the other processes of a rolling deployment:     *)
(* settings, migrations under an advisory lock, serving, shutdown.  Beside   *)
(* it, the registration of users, which the trigger of migration 006 limits *)
(* under a second advisory lock and which migrations have to wait for.       *)
EXTENDS Configuration, Integers, FiniteSets

CONSTANTS
  Procs,           \* processes; one that is started again is another one
  Users,           \* accounts
  Knows,           \* the last migration each process's binary embeds
  UsersVersion,    \* the migration that creates the table of users (002)
  TriggerVersion,  \* the migration that limits them (006)
  LocksUsers,      \* those that lock the table of users till they commit
  UserLimits,      \* the values free_user_limit is given
  Scenarios        \* what behaviours begin with and are about, see ScenarioType

Versions == UNION {1 .. Knows[p] : p \in Procs}

(* launch: the environment and the files of each process that is started;   *)
(* version: the schema the database has; users: who registers; enabled: who *)
(* is a user already; faults: what may go wrong.                            *)
ScenarioType(l) ==
  /\ DOMAIN l.launch \subseteq Procs
  /\ l.version \in Nat
  /\ (1 .. l.version) \subseteq Versions
  /\ l.users \subseteq Users
  /\ l.enabled \subseteq Users
  /\ \A p \in DOMAIN l.launch :
       LET files == l.launch[p].files
       IN  \A path \in DOMAIN files : files[path] \in Seq(Range(files[path]))

ASSUME StartupAssumption ==
  /\ IsFiniteSet(Users)
  /\ Knows \in [Procs -> Nat \ {0}]
  /\ UsersVersion \in Nat \ {0, 1}
  /\ TriggerVersion \in LocksUsers
  /\ LocksUsers \subseteq Nat \ {0, 1}
  /\ UserLimits # {} /\ UserLimits \subseteq Nat
  /\ \A s \in Scenarios : ScenarioType(s)

VARIABLES
  given,         \* which of them this behaviour has
  phase,         \* where each process is
  mode,          \* the model it serves with
  applied,       \* schema_migrations
  executed,      \* the migrations in a process's open transaction
  version,       \* the migration it has come to
  registration,  \* where the statement that activates a user is
  seen,          \* the limit the trigger compared with, or Unlimited
  active,        \* the rows of users with is_active
  userLimit      \* service_settings.free_user_limit

startupVars == <<given, phase, mode, applied, executed, version,
                 registration, seen, active, userLimit>>

Phases == {"down", "opening", "waiting", "migrating", "serving", "stopping", "gone"}
Alive == Phases \ {"down", "gone"}
Unlimited == -1

TypeOK ==
  /\ ScenarioType(given)
  /\ phase \in [Procs -> Phases]
  /\ mode \in [Procs -> {"none", "mock", "openai", "unkeyed"}]
  /\ applied \subseteq Versions
  /\ executed \in [Procs -> SUBSET Versions]
  /\ version \in [Procs -> Nat \ {0}]
  /\ registration \in [Users -> {"none", "asked", "checked", "done", "refused"}]
  /\ seen \in [Users -> UserLimits \cup {Unlimited}]
  /\ active \subseteq Users
  /\ userLimit \in UserLimits

Init ==
  /\ given \in Scenarios
  /\ phase = [p \in Procs |-> "down"]
  /\ mode = [p \in Procs |-> "none"]
  /\ applied = 1 .. given.version
  /\ executed = [p \in Procs |-> {}]
  /\ version = [p \in Procs |-> 1]
  /\ registration = [u \in Users |-> "none"]
  /\ seen = [u \in Users |-> Unlimited]
  /\ active = given.enabled
  /\ userLimit \in UserLimits

usersVars == <<registration, seen, active, userLimit>>
schemaVars == <<applied, executed, version>>

(***************************************************************************)
(* Processes.                                                              *)
(***************************************************************************)

Become(p, next) == phase' = [phase EXCEPT ![p] = next]

(* main: config.Load, fatal on an error, and the choice of the model.        *)
Start(p) ==
  /\ phase[p] = "down"
  /\ p \in DOMAIN given.launch
  /\ LET config == Load(given.launch[p].env, given.launch[p].files)
     IN  IF config.err
         THEN Become(p, "gone") /\ UNCHANGED mode
         ELSE /\ Become(p, "opening")
              /\ mode' = [mode EXCEPT ![p] = config.mode]
  /\ UNCHANGED <<given, schemaVars, usersVars>>

(* OpenDatabase connects and Migrate begins its transaction.                 *)
Open(p) ==
  /\ phase[p] = "opening"
  /\ Become(p, "waiting")
  /\ UNCHANGED <<given, mode, schemaVars, usersVars>>

LockIsFree == \A p \in Procs : phase[p] # "migrating"

(* Without pg_advisory_xact_lock.                                            *)
LockIgnored == TRUE

(* pg_advisory_xact_lock(81729421), held to the end of the transaction.      *)
CanMigrate == LockIsFree

TakeLock(p) ==
  /\ phase[p] = "waiting"
  /\ CanMigrate
  /\ Become(p, "migrating")
  /\ version' = [version EXCEPT ![p] = 1]
  /\ UNCHANGED <<given, mode, applied, executed, usersVars>>

(* The registrations that hold a lock on rows of the table of users.          *)
Registering == {u \in Users : registration[u] \in {"asked", "checked"}}

(* The first file runs every time (it creates what does not exist), the      *)
(* others only if their version is not recorded.  A file that locks the     *)
(* table of users waits for the open transactions that wrote to it.         *)
Recorded(p, v) == v > 1 /\ v \in applied \cup executed[p]

Migrate(p) ==
  LET v == version[p]
  IN  /\ phase[p] = "migrating"
      /\ v <= Knows[p]
      /\ \/ Recorded(p, v) /\ UNCHANGED executed
         \/ /\ ~Recorded(p, v)
            /\ v \in LocksUsers => Registering = {}
            /\ executed' = [executed EXCEPT ![p] = @ \cup {v}]
      /\ version' = [version EXCEPT ![p] = v + 1]
      /\ UNCHANGED <<given, phase, mode, applied, usersVars>>

(* tx.Commit; on success main goes on to listen.  When the reply is lost the *)
(* process ends although its migrations stand.                              *)
CommitMigrations(p) ==
  /\ phase[p] = "migrating"
  /\ version[p] > Knows[p]
  /\ applied' = applied \cup executed[p]
  /\ executed' = [executed EXCEPT ![p] = {}]
  /\ \/ Become(p, "serving")
     \/ "lost" \in given.faults /\ Become(p, "gone")
  /\ UNCHANGED <<given, mode, version, usersVars>>

(* log.Fatal after any error, the end of Shutdown's five seconds, or a       *)
(* signal nobody handles: the database rolls an open transaction back.      *)
Die(p) ==
  /\ phase[p] \in Alive
  /\ "die" \in given.faults
  /\ Become(p, "gone")
  /\ executed' = [executed EXCEPT ![p] = {}]
  /\ UNCHANGED <<given, mode, applied, version, usersVars>>

(* SIGTERM while it serves: the listener closes, requests may end.           *)
Stop(p) ==
  /\ phase[p] = "serving"
  /\ "die" \in given.faults
  /\ Become(p, "stopping")
  /\ UNCHANGED <<given, mode, schemaVars, usersVars>>

(***************************************************************************)
(* Registrations: an administrator's INSERT of an active user or UPDATE of  *)
(* is_active, each in its transaction.                                      *)
(***************************************************************************)

UsersLocked == \E p \in Procs : executed[p] \cap LocksUsers # {}

Register(u) ==
  /\ u \in given.users \ active
  /\ registration[u] \in {"none", "done"}
  /\ UsersVersion \in applied /\ ~UsersLocked
  /\ registration' =
       [registration EXCEPT ![u] =
          IF TriggerVersion \in applied THEN "asked" ELSE "checked"]
  /\ seen' = [seen EXCEPT ![u] = Unlimited]
  /\ UNCHANGED <<given, phase, mode, schemaVars, active, userLimit>>

(* Those that passed the trigger and hold pg_advisory_xact_lock(81729422).    *)
Checked == {u \in Users : registration[u] = "checked" /\ seen[u] # Unlimited}

NotSerialised == TRUE
CanCheck == Checked = {}

(* enforce_free_user_limit, under its lock: the count is of the rows that     *)
(* are committed when the lock is obtained.                                 *)
CheckUserLimit(u) ==
  /\ registration[u] = "asked"
  /\ CanCheck
  /\ IF Cardinality(active) >= userLimit
     THEN registration' = [registration EXCEPT ![u] = "refused"] /\ UNCHANGED seen
     ELSE /\ registration' = [registration EXCEPT ![u] = "checked"]
          /\ seen' = [seen EXCEPT ![u] = userLimit]
  /\ UNCHANGED <<given, phase, mode, schemaVars, active, userLimit>>

EndRegistration(u) ==
  /\ registration[u] = "checked"
  /\ \/ active' = active \cup {u} /\ registration' = [registration EXCEPT ![u] = "done"]
     \/ UNCHANGED active /\ registration' = [registration EXCEPT ![u] = "refused"]
  /\ UNCHANGED <<given, phase, mode, schemaVars, seen, userLimit>>

(* The administrator disables an account or changes the limit.               *)
Disable(u) ==
  /\ u \in active /\ ~UsersLocked
  /\ u \in given.users
  /\ active' = active \ {u}
  /\ UNCHANGED <<given, phase, mode, schemaVars, registration, seen, userLimit>>

SetUserLimit(n) ==
  /\ given.users # {}
  /\ TriggerVersion \in applied
  /\ userLimit' = n
  /\ UNCHANGED <<given, phase, mode, schemaVars, registration, seen, active>>

StartupNext ==
  \/ \E p \in Procs : \/ Start(p) \/ Open(p) \/ TakeLock(p) \/ Migrate(p)
                      \/ CommitMigrations(p) \/ Die(p) \/ Stop(p)
  \/ \E u \in Users : Register(u) \/ CheckUserLimit(u) \/ EndRegistration(u) \/ Disable(u)
  \/ \E n \in UserLimits : SetUserLimit(n)

StartupSpec == Init /\ [][StartupNext]_startupVars

(***************************************************************************)
(* Safety.                                                                 *)
(***************************************************************************)

(* No process runs a migration that another has committed meanwhile, which   *)
(* would fail and keep it from starting (database.go:39-40), and one that    *)
(* serves finds every table its binary was written for.                     *)
MigratedOnce ==
  \A p \in Procs :
    /\ executed[p] \cap applied \subseteq {1}
    /\ phase[p] \in {"serving", "stopping"} => 1 .. Knows[p] \subseteq applied

(* A registration the trigger let through still has its place when it        *)
(* commits, whatever registered beside it, also while the trigger is being  *)
(* installed (docs/database-schema.md:63, 006_free_user_limit.sql:10).      *)
RoomKept == \A u \in Checked : Cardinality(active \cup {u}) <= seen[u]

=============================================================================
