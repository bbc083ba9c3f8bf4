--------------------------- MODULE StartupProofs ---------------------------
(* Proofs about Startup: a process that migrates is alone, whatever dies or   *)
(* loses its reply, and a registration keeps the place it was counted for,   *)
(* for any processes, users, migrations and limits.                          *)
EXTENDS Startup, FiniteSetTheorems, WellFoundedInduction, TLAPS

(***************************************************************************)
(* The inductive invariant.                                                *)
(***************************************************************************)

(* Only the holder of the migration lock has an open transaction; it has     *)
(* gone through every version before the one it has come to.                 *)
MigrationInv ==
  /\ \A p, q \in Procs : phase[p] = "migrating" /\ phase[q] = "migrating" => p = q
  /\ \A p \in Procs : phase[p] # "migrating" => executed[p] = {}
  /\ \A p \in Procs : executed[p] \cap applied \subseteq {1}
  /\ \A p \in Procs :
       phase[p] = "migrating" => 1 .. version[p] - 1 \subseteq applied \cup executed[p]
  /\ \A p \in Procs :
       phase[p] \in {"serving", "stopping"} => 1 .. Knows[p] \subseteq applied

(* A registration is open without having been counted only while the trigger *)
(* is not installed, and none is open while a migration locks the table.     *)
RegistrationInv ==
  /\ \A u, v \in Checked : u = v
  /\ TriggerVersion \in applied =>
       \A u \in Users : registration[u] = "checked" => seen[u] # Unlimited
  /\ TriggerVersion \notin applied =>
       \A u \in Users : registration[u] # "asked" /\ u \notin Checked
  /\ UsersLocked => Registering = {}

(* One step of a process, one of a registration.                             *)
ProcessStep(p) ==
  \/ Start(p) \/ Open(p) \/ TakeLock(p) \/ Migrate(p)
  \/ CommitMigrations(p) \/ Die(p) \/ Stop(p)
UserStep(u) ==
  \/ Register(u) \/ CheckUserLimit(u) \/ EndRegistration(u) \/ Disable(u)

LEMMA StartupCases ==
  ASSUME StartupNext
  PROVE  \/ \E p \in Procs : ProcessStep(p)
         \/ \E u \in Users : UserStep(u)
         \/ \E n \in UserLimits : SetUserLimit(n)
  BY Zenon DEF StartupNext, ProcessStep, UserStep

-----------------------------------------------------------------------------
LEMMA LoadMode ==
  ASSUME NEW env, NEW files
  PROVE  Load(env, files).mode \in {"mock", "openai", "unkeyed"}
  BY DEF Load

LEMMA StartupInitType == Init => TypeOK
  BY StartupAssumption DEF Init, TypeOK, ScenarioType, Phases, Unlimited

LEMMA StartupNextType == TypeOK /\ [StartupNext]_startupVars => TypeOK'
<1> SUFFICES ASSUME TypeOK, [StartupNext]_startupVars PROVE TypeOK'
  OBVIOUS
<1> USE DEF TypeOK, Phases, schemaVars, usersVars
<1>1. CASE \E p \in Procs : ProcessStep(p)
  <2> PICK p \in Procs : ProcessStep(p)
    BY <1>1
  <2>1. CASE Start(p)
    <3> DEFINE config == Load(given.launch[p].env, given.launch[p].files)
    <3>1. config.mode \in {"mock", "openai", "unkeyed"}
      BY LoadMode
    <3>2. CASE config.err
      BY <2>1, <3>2 DEF Start, Become
    <3>3. CASE ~config.err
      <4> HIDE DEF config
      <4>1. /\ phase' = [phase EXCEPT ![p] = "opening"]
            /\ mode' = [mode EXCEPT ![p] = config.mode]
            /\ UNCHANGED <<given, schemaVars, usersVars>>
        BY <2>1, <3>3 DEF Start, Become, config
      <4> QED  BY <3>1, <4>1
    <3> QED  BY <3>2, <3>3
  <2>2. CASE Open(p)
    BY <2>2 DEF Open, Become
  <2>3. CASE TakeLock(p)
    BY <2>3 DEF TakeLock, Become
  <2>4. CASE Migrate(p)
    <3>1. version[p] <= Knows[p] => version[p] \in Versions
      BY StartupAssumption DEF Versions
    <3> QED  BY <2>4, <3>1 DEF Migrate
  <2>5. CASE CommitMigrations(p)
    BY <2>5 DEF CommitMigrations, Become
  <2>6. CASE Die(p)
    BY <2>6 DEF Die, Become
  <2>7. CASE Stop(p)
    BY <2>7 DEF Stop, Become
  <2> QED  BY <2>1, <2>2, <2>3, <2>4, <2>5, <2>6, <2>7 DEF ProcessStep
<1>2. CASE \E u \in Users : UserStep(u)
  <2> PICK u \in Users : UserStep(u)
    BY <1>2
  <2>1. CASE Register(u)
    BY <2>1 DEF Register
  <2>2. CASE CheckUserLimit(u)
    BY <2>2 DEF CheckUserLimit
  <2>3. CASE EndRegistration(u)
    BY <2>3 DEF EndRegistration
  <2>4. CASE Disable(u)
    BY <2>4 DEF Disable
  <2> QED  BY <2>1, <2>2, <2>3, <2>4 DEF UserStep
<1>3. CASE \E n \in UserLimits : SetUserLimit(n)
  BY <1>3 DEF SetUserLimit
<1>4. CASE UNCHANGED startupVars
  BY <1>4 DEF startupVars
<1> QED  BY <1>1, <1>2, <1>3, <1>4, StartupCases

(* Every value stays in its range, for any processes, users and migrations   *)
(* (database.go:40-85, 006_free_user_limit.sql).                             *)
THEOREM StartupType == StartupSpec => []TypeOK
<1> QED  BY StartupInitType, StartupNextType, PTL DEF StartupSpec

-----------------------------------------------------------------------------
LEMMA MigrationInit == TypeOK /\ Init => MigrationInv
  BY DEF Init, MigrationInv

LEMMA MigrationNext ==
  TypeOK /\ MigrationInv /\ [StartupNext]_startupVars => MigrationInv'
<1> SUFFICES ASSUME TypeOK, MigrationInv, [StartupNext]_startupVars
             PROVE  MigrationInv'
  OBVIOUS
<1> USE StartupAssumption DEF TypeOK, Phases, MigrationInv, schemaVars, usersVars
<1>1. CASE \E p \in Procs : ProcessStep(p)
  <2> PICK p \in Procs : ProcessStep(p)
    BY <1>1
  <2>1. CASE Start(p)
    <3>1. /\ phase[p] = "down"
          /\ \/ phase' = [phase EXCEPT ![p] = "gone"]
             \/ phase' = [phase EXCEPT ![p] = "opening"]
          /\ UNCHANGED schemaVars
      BY <2>1 DEF Start, Become
    <3> QED  BY <3>1
  <2>2. CASE Open(p)
    BY <2>2 DEF Open, Become
  <2>3. CASE TakeLock(p)
    BY <2>3 DEF TakeLock, Become, CanMigrate, LockIsFree
  <2>4. CASE Migrate(p)
    <3> DEFINE v == version[p]
    <3>1. /\ phase' = phase /\ applied' = applied
          /\ phase[p] = "migrating"
          /\ version' = [version EXCEPT ![p] = v + 1]
          /\ \/ Recorded(p, v) /\ executed' = executed
             \/ /\ ~Recorded(p, v)
                /\ executed' = [executed EXCEPT ![p] = @ \cup {v}]
      BY <2>4 DEF Migrate
    <3>2. v \in applied' \cup executed'[p] /\ executed[p] \subseteq executed'[p]
      BY <3>1 DEF Recorded
    <3>3. executed'[p] \cap applied \subseteq {1}
      BY <3>1 DEF Recorded
    <3>4. 1 .. version'[p] - 1 \subseteq applied' \cup executed'[p]
      BY <3>1, <3>2
    <3>5. \A q \in Procs \ {p} : version'[q] = version[q] /\ executed'[q] = executed[q]
      BY <3>1
    <3> QED  BY <3>1, <3>3, <3>4, <3>5
  <2>5. CASE CommitMigrations(p)
    <3>1. /\ phase[p] = "migrating" /\ version[p] > Knows[p]
          /\ applied' = applied \cup executed[p]
          /\ executed' = [executed EXCEPT ![p] = {}]
          /\ version' = version
          /\ \/ phase' = [phase EXCEPT ![p] = "serving"]
             \/ phase' = [phase EXCEPT ![p] = "gone"]
      BY <2>5 DEF CommitMigrations, Become
    <3>2. \A q \in Procs : executed'[q] = {}
      BY <3>1
    <3>3. 1 .. Knows[p] \subseteq applied'
      BY <3>1
    <3>4. applied \subseteq applied'
      BY <3>1
    <3> QED  BY <3>1, <3>2, <3>3, <3>4
  <2>6. CASE Die(p)
    BY <2>6 DEF Die, Become
  <2>7. CASE Stop(p)
    BY <2>7 DEF Stop, Become
  <2> QED  BY <2>1, <2>2, <2>3, <2>4, <2>5, <2>6, <2>7 DEF ProcessStep
<1>2. CASE \E u \in Users : UserStep(u)
  BY <1>2 DEF UserStep, Register, CheckUserLimit, EndRegistration, Disable
<1>3. CASE \E n \in UserLimits : SetUserLimit(n)
  BY <1>3 DEF SetUserLimit
<1>4. CASE UNCHANGED startupVars
  BY <1>4 DEF startupVars
<1> QED  BY <1>1, <1>2, <1>3, <1>4, StartupCases

(* No migration runs twice and whoever serves finds its schema, whichever    *)
(* processes start, die or lose the reply of their commit (database.go:45).  *)
THEOREM StartupMigratedOnce == StartupSpec => []MigratedOnce
<1>1. MigrationInv => MigratedOnce
  BY DEF MigrationInv, MigratedOnce
<1> QED  BY <1>1, StartupInitType, StartupNextType, MigrationInit, MigrationNext,
            PTL DEF StartupSpec

-----------------------------------------------------------------------------
LEMMA ActiveIsFinite == TypeOK => IsFiniteSet(active)
  BY StartupAssumption, FS_Subset DEF TypeOK

LEMMA OneMore ==
  ASSUME NEW S, NEW x, IsFiniteSet(S)
  PROVE  /\ Cardinality(S) \in Nat
         /\ Cardinality(S \cup {x}) \in Nat
         /\ Cardinality(S \cup {x}) <= Cardinality(S) + 1
<1>1. Cardinality(S) \in Nat
  BY FS_CardinalityType
<1>2. Cardinality(S \cup {x}) = IF x \in S THEN Cardinality(S) ELSE Cardinality(S) + 1
  BY FS_AddElement
<1> QED  BY <1>1, <1>2

LEMMA RegistrationInit == TypeOK /\ Init => RegistrationInv /\ RoomKept
  BY DEF Init, RegistrationInv, RoomKept, Checked, UsersLocked

(* What a step of a process can change for the registrations: the trigger is *)
(* committed while none is open, and a lock on the table is taken only then. *)
LEMMA RegistrationProcess ==
  ASSUME TypeOK, MigrationInv, RegistrationInv, RoomKept, NEW p \in Procs, ProcessStep(p)
  PROVE  RegistrationInv' /\ RoomKept'
<1> USE StartupAssumption DEF TypeOK, RegistrationInv, Unlimited
<1>1. UNCHANGED usersVars
  BY DEF ProcessStep, Start, Open, TakeLock, Migrate, CommitMigrations, Die, Stop
<1>2. Checked' = Checked /\ Registering' = Registering /\ RoomKept'
  BY <1>1 DEF usersVars, Checked, Registering, RoomKept
<1>3. CASE applied' = applied /\ (UsersLocked' => UsersLocked)
  BY <1>1, <1>2, <1>3 DEF usersVars
<1>4. CASE Migrate(p)
  <2>1. applied' = applied
    BY <1>4 DEF Migrate
  <2>2. UsersLocked' => UsersLocked \/ Registering = {}
    BY <1>4 DEF Migrate, UsersLocked
  <2> QED  BY <1>1, <1>2, <2>1, <2>2 DEF usersVars
<1>5. CASE CommitMigrations(p)
  <2>1. /\ applied' = applied \cup executed[p]
        /\ executed' = [executed EXCEPT ![p] = {}]
    BY <1>5 DEF CommitMigrations
  <2>2. UsersLocked' => UsersLocked
    BY <2>1 DEF UsersLocked
  <2>3. CASE TriggerVersion \in executed[p] /\ TriggerVersion \notin applied
    <3>1. Registering = {}
      BY <2>3 DEF UsersLocked
    <3>2. \A u \in Users : registration[u] \notin {"asked", "checked"}
      BY <3>1 DEF Registering
    <3> QED  BY <1>1, <1>2, <2>1, <2>2, <2>3, <3>2 DEF usersVars
  <2>4. CASE ~(TriggerVersion \in executed[p] /\ TriggerVersion \notin applied)
    <3>1. TriggerVersion \in applied' <=> TriggerVersion \in applied
      BY <2>1, <2>4
    <3> QED  BY <1>1, <1>2, <2>2, <3>1 DEF usersVars
  <2> QED  BY <2>3, <2>4
<1>6. CASE Start(p) \/ Open(p) \/ TakeLock(p) \/ Stop(p)
  BY <1>3, <1>6 DEF Start, Open, TakeLock, Stop, schemaVars, UsersLocked
<1>7. CASE Die(p)
  BY <1>3, <1>7 DEF Die, UsersLocked
<1> QED  BY <1>4, <1>5, <1>6, <1>7 DEF ProcessStep

(* One step of a registration, in which the trigger's lock does the work.     *)
LEMMA RegistrationUser ==
  ASSUME TypeOK, RegistrationInv, RoomKept, NEW w \in Users, UserStep(w)
  PROVE  RegistrationInv' /\ RoomKept'
<1> USE StartupAssumption DEF TypeOK, RegistrationInv, Unlimited
<1>0. /\ applied' = applied
      /\ UsersLocked' = UsersLocked
  BY DEF UserStep, Register, CheckUserLimit, EndRegistration, Disable, schemaVars, UsersLocked
<1>1. CASE Register(w)
  <2>1. Checked' = Checked
    BY <1>1 DEF Register, Checked
  <2>2. RoomKept'
    BY <1>1, <2>1 DEF Register, RoomKept, Checked
  <2>3. ~UsersLocked
    BY <1>1 DEF Register
  <2> QED  BY <1>0, <1>1, <2>1, <2>2, <2>3 DEF Register
<1>2. CASE CheckUserLimit(w)
  <2>1. CASE Cardinality(active) >= userLimit
    <3>1. Checked' = Checked /\ Registering' \subseteq Registering
      BY <1>2, <2>1 DEF CheckUserLimit, Checked, Registering
    <3>2. RoomKept'
      BY <1>2, <2>1, <3>1 DEF CheckUserLimit, RoomKept
    <3> QED  BY <1>0, <1>2, <2>1, <3>1, <3>2 DEF CheckUserLimit
  <2>2. CASE ~(Cardinality(active) >= userLimit)
    <3>1. /\ registration[w] = "asked"
          /\ registration' = [registration EXCEPT ![w] = "checked"]
          /\ seen' = [seen EXCEPT ![w] = userLimit]
          /\ active' = active
      BY <1>2, <2>2 DEF CheckUserLimit
    <3>2. Checked = {} /\ Checked' = {w}
      BY <1>2, <3>1 DEF CheckUserLimit, CanCheck, Checked
    <3>3. Registering' = Registering
      BY <3>1 DEF Registering
    <3>4. Cardinality(active \cup {w}) <= userLimit
      <4>1. IsFiniteSet(active) /\ userLimit \in Nat
        BY ActiveIsFinite
      <4>2. /\ Cardinality(active) \in Nat
            /\ Cardinality(active \cup {w}) \in Nat
            /\ Cardinality(active \cup {w}) <= Cardinality(active) + 1
        BY <4>1, OneMore
      <4> QED  BY <2>2, <4>1, <4>2
    <3>5. RoomKept'
      BY <3>1, <3>2, <3>4 DEF RoomKept
    <3> QED  BY <1>0, <3>1, <3>2, <3>3, <3>5
  <2> QED  BY <2>1, <2>2
<1>3. CASE EndRegistration(w)
  <2>1. /\ registration[w] = "checked"
        /\ \/ registration' = [registration EXCEPT ![w] = "done"]
           \/ registration' = [registration EXCEPT ![w] = "refused"]
        /\ seen' = seen
    BY <1>3 DEF EndRegistration
  <2>2. Checked' = Checked \ {w} /\ Registering' \subseteq Registering
    BY <2>1 DEF Checked, Registering
  <2>3. Checked' = {}
    BY <2>1, <2>2 DEF Checked
  <2>4. RoomKept'
    BY <2>3 DEF RoomKept
  <2> QED  BY <1>0, <2>1, <2>2, <2>3, <2>4
<1>4. CASE Disable(w)
  <2>1. /\ UNCHANGED <<registration, seen>>
        /\ active' = active \ {w}
    BY <1>4 DEF Disable
  <2>2. Checked' = Checked /\ Registering' = Registering
    BY <2>1 DEF Checked, Registering
  <2>3. ASSUME NEW u \in Checked
        PROVE  Cardinality(active' \cup {u}) <= seen'[u]
    <3>1. /\ IsFiniteSet(active \cup {u})
          /\ active' \cup {u} \subseteq active \cup {u}
      BY <2>1, ActiveIsFinite, FS_AddElement
    <3>2. /\ Cardinality(active' \cup {u}) <= Cardinality(active \cup {u})
          /\ Cardinality(active' \cup {u}) \in Nat
          /\ Cardinality(active \cup {u}) \in Nat
      BY <3>1, FS_Subset, FS_CardinalityType
    <3>3. Cardinality(active \cup {u}) <= seen[u]
      BY DEF RoomKept
    <3>4. seen[u] \in Int
      <4>1. UserLimits \cup {Unlimited} \subseteq Int
        OBVIOUS
      <4>2. u \in Users
        BY DEF Checked
      <4> QED  BY <4>1, <4>2
    <3> QED  BY <2>1, <3>2, <3>3, <3>4
  <2>4. RoomKept'
    BY <2>2, <2>3 DEF RoomKept
  <2> QED  BY <1>0, <2>1, <2>2, <2>4
<1> QED  BY <1>1, <1>2, <1>3, <1>4 DEF UserStep

LEMMA RegistrationNext ==
  /\ TypeOK /\ MigrationInv /\ RegistrationInv /\ RoomKept
  /\ [StartupNext]_startupVars
  => RegistrationInv' /\ RoomKept'
<1> SUFFICES ASSUME TypeOK, MigrationInv, RegistrationInv, RoomKept,
                    [StartupNext]_startupVars
             PROVE  RegistrationInv' /\ RoomKept'
  OBVIOUS
<1>1. CASE \E p \in Procs : ProcessStep(p)
  BY <1>1, RegistrationProcess
<1>2. CASE \E u \in Users : UserStep(u)
  BY <1>2, RegistrationUser
<1>3. CASE \E n \in UserLimits : SetUserLimit(n)
  <2>1. UNCHANGED <<applied, executed, registration, seen, active>>
    BY <1>3 DEF SetUserLimit, schemaVars
  <2> QED  BY <2>1 DEF RegistrationInv, RoomKept, Checked, Registering, UsersLocked
<1>4. CASE UNCHANGED startupVars
  BY <1>4 DEF startupVars, RegistrationInv, RoomKept, Checked, Registering, UsersLocked
<1> QED  BY <1>1, <1>2, <1>3, <1>4, StartupCases

(* A registration that was counted finds its place still free when it         *)
(* commits, however many register and while migrations install the trigger   *)
(* (006_free_user_limit.sql:10-17).                                          *)
THEOREM StartupRoomKept == StartupSpec => []RoomKept
<1> QED  BY StartupInitType, StartupNextType, MigrationInit, MigrationNext,
            RegistrationInit, RegistrationNext, PTL DEF StartupSpec

-----------------------------------------------------------------------------
(* The settings: what reading a file line by line makes of an environment.    *)

(* Induction over the natural numbers, for the elements of a set.             *)
LEMMA SetInduction ==
  ASSUME NEW T, 0 \in T, \A n \in Nat : n \in T => n + 1 \in T
  PROVE  Nat \subseteq T
<1> DEFINE R == {ss \in Nat \X Nat : ss[1] < ss[2]}
           M == Nat \ T
<1>1. IsWellFoundedOn(R, Nat)
  BY NatLessThanWellFounded DEF OpToRel
<1>2. SUFFICES ASSUME M # {} PROVE FALSE
  OBVIOUS
<1>3. PICK x \in M : \A y \in M : ~(<<y, x>> \in R)
  <2> HIDE DEF R
  <2> QED BY <1>1, <1>2, WFMin
<1>4. x # 0 /\ x - 1 \in Nat /\ x \in Nat
  BY <1>3
<1>5. <<x - 1, x>> \in R
  BY <1>4
<1>6. x - 1 \notin M
  BY <1>3, <1>5
<1> QED BY <1>3, <1>4, <1>6

(* F is the function by which FoldLeft reads a file of n lines.               *)
Folding(F, base, seq, n) ==
  F = [s \in SUBSET (1 .. n) |->
        IF s = {} THEN base ELSE ReadLine(F[s \ {Max(s)}], seq[Max(s)])]

LEMMA FoldIs ==
  ASSUME NEW base, NEW seq, NEW n, DOMAIN seq = 1 .. n
  PROVE  FoldLeft(ReadLine, base, seq) = (CHOOSE F : Folding(F, base, seq, n))[1 .. n]
  BY DEF FoldLeft, MapThenFoldSet, Folding

LEMMA Greatest ==
  ASSUME NEW n \in Nat, NEW s \in SUBSET (1 .. n + 1), n + 1 \in s
  PROVE  Max(s) = n + 1
<1>1. \A y \in s : n + 1 >= y
  OBVIOUS
<1>2. \A x \in s : (\A y \in s : x >= y) => x = n + 1
  OBVIOUS
<1> QED  BY <1>1, <1>2, Zenon DEF Max

LEMMA FoldExists ==
  ASSUME NEW base, NEW seq
  PROVE  \A n \in Nat : \E F : Folding(F, base, seq, n)
<1> DEFINE T == {n \in Nat : \E F : Folding(F, base, seq, n)}
<1>1. 0 \in T
  <2> DEFINE F == [s \in SUBSET (1 .. 0) |-> base]
  <2>1. \A s \in SUBSET (1 .. 0) : s = {}
    OBVIOUS
  <2>2. Folding(F, base, seq, 0)
    BY <2>1 DEF Folding
  <2> QED  BY <2>2
<1>2. ASSUME NEW n \in Nat, n \in T PROVE n + 1 \in T
  <2>1. PICK F : Folding(F, base, seq, n)
    BY <1>2
  <2> DEFINE G == [s \in SUBSET (1 .. n + 1) |->
                    IF n + 1 \in s THEN ReadLine(F[s \ {n + 1}], seq[n + 1]) ELSE F[s]]
  <2>2. ASSUME NEW s \in SUBSET (1 .. n + 1)
        PROVE  G[s] = IF s = {} THEN base ELSE ReadLine(G[s \ {Max(s)}], seq[Max(s)])
    <3>1. CASE n + 1 \in s
      <4>1. Max(s) = n + 1
        BY <3>1, Greatest
      <4>2. G[s \ {n + 1}] = F[s \ {n + 1}]
        OBVIOUS
      <4>3. G[s] = ReadLine(F[s \ {n + 1}], seq[n + 1])
        BY <3>1
      <4> QED  BY <3>1, <4>1, <4>2, <4>3
    <3>2. CASE n + 1 \notin s
      <4>1. s \in SUBSET (1 .. n) /\ s \ {Max(s)} \in SUBSET (1 .. n + 1)
            /\ n + 1 \notin s \ {Max(s)}
        <5>1. \A x \in s : x \in 1 .. n
          BY <3>2
        <5> QED  BY <3>2, <5>1
      <4>2. F[s] = IF s = {} THEN base ELSE ReadLine(F[s \ {Max(s)}], seq[Max(s)])
        BY <2>1, <4>1 DEF Folding
      <4>3. G[s] = F[s] /\ G[s \ {Max(s)}] = F[s \ {Max(s)}]
        BY <3>2, <4>1
      <4> QED  BY <4>2, <4>3
    <3> QED  BY <3>1, <3>2
  <2>3. Folding(G, base, seq, n + 1)
    <3> DEFINE H == [s \in SUBSET (1 .. n + 1) |->
                      IF s = {} THEN base ELSE ReadLine(G[s \ {Max(s)}], seq[Max(s)])]
    <3>1. G = H
      <4>1. DOMAIN G = SUBSET (1 .. n + 1) /\ G = [s \in DOMAIN G |-> G[s]]
        OBVIOUS
      <4> HIDE DEF G
      <4> QED  BY <2>2, <4>1
    <3> HIDE DEF G
    <3> QED  BY <3>1 DEF Folding
  <2> QED  BY <2>3
<1>3. Nat \subseteq T
  <2> HIDE DEF T
  <2> QED  BY <1>1, <1>2, SetInduction
<1> QED  BY <1>3

(* The loop over a file as the sequence g of its results.                     *)
LineByLine(g, base, seq) ==
  /\ g[0] = base
  /\ \A i \in 1 .. Len(seq) : g[i] = ReadLine(g[i - 1], seq[i])
  /\ FoldLeft(ReadLine, base, seq) = g[Len(seq)]

LEMMA FoldSteps ==
  ASSUME NEW base, NEW S, NEW seq \in Seq(S)
  PROVE  \E g : LineByLine(g, base, seq)
<1>1. PICK n \in Nat : n = Len(seq) /\ DOMAIN seq = 1 .. n
  OBVIOUS
<1>2. PICK F : F = CHOOSE G : Folding(G, base, seq, n)
  OBVIOUS
<1>3. Folding(F, base, seq, n)
  BY <1>2, FoldExists, Zenon
<1>4. FoldLeft(ReadLine, base, seq) = F[1 .. n]
  BY <1>1, <1>2, FoldIs
<1> DEFINE g == [i \in 0 .. n |-> F[1 .. i]]
<1>5. g[0] = base
  <2>1. {} \in SUBSET (1 .. n) /\ 1 .. 0 = {} /\ 0 \in 0 .. n
    OBVIOUS
  <2> QED  BY <1>3, <2>1 DEF Folding
<1>6. ASSUME NEW i \in 1 .. n PROVE g[i] = ReadLine(g[i - 1], seq[i])
  <2>1. PICK k \in Nat : i = k + 1 /\ k \in 0 .. n /\ i \in 0 .. n
    <3>1. i - 1 \in Nat /\ i = (i - 1) + 1 /\ i - 1 \in 0 .. n /\ i \in 0 .. n
      OBVIOUS
    <3> QED  BY <3>1
  <2>2. Max(1 .. i) = i
    BY <2>1, Greatest
  <2>3. (1 .. i) \ {i} = 1 .. k /\ 1 .. i # {} /\ 1 .. i \in SUBSET (1 .. n) /\ i - 1 = k
    <3>1. \A x : x \in 1 .. i <=> x \in 1 .. k \/ x = i
      BY <2>1
    <3>2. i \notin 1 .. k /\ i - 1 = k
      BY <2>1
    <3>3. \A x \in 1 .. i : x \in 1 .. n
      BY <2>1
    <3> QED  BY <3>1, <3>2, <3>3
  <2>4. F[1 .. i] = ReadLine(F[(1 .. i) \ {i}], seq[i])
    BY <1>3, <2>2, <2>3 DEF Folding
  <2> QED  BY <2>1, <2>3, <2>4
<1>7. FoldLeft(ReadLine, base, seq) = g[n]
  BY <1>1, <1>4
<1>8. LineByLine(g, base, seq)
  <2> HIDE DEF g
  <2> QED  BY <1>1, <1>5, <1>6, <1>7 DEF LineByLine
<1> QED  BY <1>8

(* What the lines before i give a name that the environment does not set.     *)
Assigns(line, key) == IsAssignment(line) /\ line.key = key
FirstSays(lines, i, key, value) ==
  \E j \in 1 .. i : /\ Assigns(lines[j], key) /\ lines[j].value = value
                     /\ \A m \in 1 .. j - 1 : ~Assigns(lines[m], key)

(* What is read after i lines: an environment that keeps what it was given,   *)
(* and holds the first assignment of every other name.                       *)
ReadSoFar(r, env, lines, i) ==
  /\ DOMAIN r = {"env", "err"}
  /\ ~r.err =>
       /\ \A key \in DOMAIN env : key \in DOMAIN r.env /\ r.env[key] = env[key]
       /\ \A key \in DOMAIN r.env \ DOMAIN env : FirstSays(lines, i, key, r.env[key])
       /\ \A m \in 1 .. i : IsAssignment(lines[m]) => lines[m].key \in DOMAIN r.env

LEMMA ReadOne ==
  ASSUME NEW env, NEW lines, NEW r, NEW i \in Nat, ReadSoFar(r, env, lines, i)
  PROVE  ReadSoFar(ReadLine(r, lines[i + 1]), env, lines, i + 1)
<1>1. PICK line : line = lines[i + 1]
  OBVIOUS
<1>2. PICK s : s = ReadLine(r, line)
  OBVIOUS
<1>3. \A m \in 1 .. i + 1 : m \in 1 .. i \/ m = i + 1
  OBVIOUS
<1>4. \A key, value : FirstSays(lines, i, key, value) => FirstSays(lines, i + 1, key, value)
  BY DEF FirstSays
<1>5. \/ s = r /\ (r.err \/ (IsAssignment(line) => line.key \in DOMAIN r.env))
      \/ s = [r EXCEPT !.err = TRUE]
      \/ /\ s = [r EXCEPT !.env = Setenv(r.env, line.key, line.value)]
         /\ ~r.err /\ IsAssignment(line) /\ line.key \notin DOMAIN r.env
  BY <1>2 DEF ReadLine
<1>6. CASE s = r /\ (r.err \/ (IsAssignment(line) => line.key \in DOMAIN r.env))
  BY <1>1, <1>2, <1>3, <1>4, <1>6 DEF ReadSoFar
<1>7. CASE s = [r EXCEPT !.err = TRUE]
  <2>1. DOMAIN s = {"env", "err"} /\ s.err
    BY <1>7 DEF ReadSoFar
  <2> QED  BY <1>1, <1>2, <2>1 DEF ReadSoFar
<1>8. CASE /\ s = [r EXCEPT !.env = Setenv(r.env, line.key, line.value)]
           /\ ~r.err /\ IsAssignment(line) /\ line.key \notin DOMAIN r.env
  <2>1. PICK e, f : e = r.env /\ f = Setenv(e, line.key, line.value)
    OBVIOUS
  <2>2. /\ DOMAIN f = DOMAIN e \cup {line.key} /\ f[line.key] = line.value
        /\ \A key \in DOMAIN e : f[key] = e[key]
    BY <1>8, <2>1 DEF Setenv
  <2>3. DOMAIN s = {"env", "err"} /\ s.env = f
    BY <1>8, <2>1 DEF ReadSoFar
  <2>4. /\ \A key \in DOMAIN env : key \in DOMAIN e /\ e[key] = env[key]
        /\ \A key \in DOMAIN e \ DOMAIN env : FirstSays(lines, i, key, e[key])
        /\ \A m \in 1 .. i : IsAssignment(lines[m]) => lines[m].key \in DOMAIN e
    BY <1>8, <2>1 DEF ReadSoFar
  <2>5. \A m \in 1 .. i + 1 : IsAssignment(lines[m]) => lines[m].key \in DOMAIN f
    BY <1>1, <1>3, <2>2, <2>4
  <2>6. FirstSays(lines, i + 1, line.key, line.value)
    <3>1. i + 1 \in 1 .. i + 1 /\ Assigns(lines[i + 1], line.key) /\ (i + 1) - 1 = i
      BY <1>1, <1>8 DEF Assigns
    <3>2. \A m \in 1 .. i : ~Assigns(lines[m], line.key)
      BY <1>8, <2>1, <2>4 DEF Assigns
    <3> QED  BY <1>1, <3>1, <3>2 DEF FirstSays
  <2>7. \A key \in DOMAIN f \ DOMAIN env : FirstSays(lines, i + 1, key, f[key])
    BY <1>4, <2>2, <2>4, <2>6
  <2>8. \A key \in DOMAIN env : key \in DOMAIN f /\ f[key] = env[key]
    BY <2>2, <2>4
  <2> QED  BY <1>1, <1>2, <2>3, <2>5, <2>7, <2>8 DEF ReadSoFar
<1> QED  BY <1>5, <1>6, <1>7, <1>8

LEMMA ReadAll ==
  ASSUME NEW env, NEW S, NEW lines \in Seq(S)
  PROVE  ReadSoFar(LoadDotEnvFile(env, lines), env, lines, Len(lines))
<1>1. PICK base : base = [env |-> env, err |-> FALSE]
  OBVIOUS
<1>2. PICK g : LineByLine(g, base, lines)
  BY FoldSteps, Zenon
<1> DEFINE T == {i \in Nat : i <= Len(lines) => ReadSoFar(g[i], env, lines, i)}
<1>3. 0 \in T
  BY <1>1, <1>2 DEF ReadSoFar, LineByLine
<1>4. ASSUME NEW i \in Nat, i \in T PROVE i + 1 \in T
  <2> SUFFICES ASSUME i + 1 <= Len(lines) PROVE ReadSoFar(g[i + 1], env, lines, i + 1)
    OBVIOUS
  <2>1. i + 1 \in 1 .. Len(lines) /\ (i + 1) - 1 = i /\ i <= Len(lines) /\ Len(lines) \in Nat
    OBVIOUS
  <2>2. ReadSoFar(g[i], env, lines, i)
    BY <1>4, <2>1
  <2>3. g[i + 1] = ReadLine(g[i], lines[i + 1])
    BY <1>2, <2>1 DEF LineByLine
  <2> QED  BY <2>2, <2>3, ReadOne
<1>5. Nat \subseteq T
  <2> HIDE DEF T
  <2> QED  BY <1>3, <1>4, SetInduction
<1>6. Len(lines) \in Nat
  OBVIOUS
<1> QED  BY <1>1, <1>2, <1>5, <1>6 DEF LoadDotEnvFile, LineByLine

(* A name that has a value after the start has the one that was said of it.   *)
LEMMA LoadedIsSaid ==
  ASSUME NEW env, NEW files,
         \A path \in DOMAIN files : files[path] \in Seq(Range(files[path])),
         NEW loaded, loaded = LoadDotEnv(env, files), ~loaded.err,
         NEW key, Getenv(loaded.env, key) # Blank
  PROVE  Said(env, files, key) = Getenv(loaded.env, key)
<1>1. key \in DOMAIN loaded.env /\ Getenv(loaded.env, key) = loaded.env[key]
  BY DEF Getenv
<1>2. PICK paths : paths = DotEnvPaths(env, files)
  OBVIOUS
<1>3. CASE paths = <<>>
  <2>1. loaded = [env |-> env, err |-> FALSE]
    BY <1>2, <1>3 DEF LoadDotEnv
  <2>2. loaded.env = env
    BY <2>1
  <2> QED  BY <1>1, <2>2 DEF Said
<1>4. CASE paths # <<>>
  <2>1. paths[1] \in DOMAIN files /\ loaded = LoadDotEnvFile(env, files[paths[1]])
    BY <1>2, <1>4 DEF LoadDotEnv
  <2>2. PICK lines : lines = files[paths[1]]
    OBVIOUS
  <2>3. lines \in Seq(Range(lines)) /\ DOMAIN lines = 1 .. Len(lines) /\ Len(lines) \in Nat
    BY <2>1, <2>2
  <2>4. ReadSoFar(loaded, env, lines, Len(lines))
    BY <2>1, <2>2, <2>3, ReadAll
  <2>5. CASE key \in DOMAIN env
    BY <1>1, <2>4, <2>5 DEF ReadSoFar, Said
  <2>6. CASE key \notin DOMAIN env
    <3>1. PICK j \in DOMAIN lines :
            /\ Assigns(lines[j], key) /\ lines[j].value = loaded.env[key]
            /\ \A m \in 1 .. j - 1 : ~Assigns(lines[m], key)
      BY <1>1, <2>3, <2>4, <2>6 DEF ReadSoFar, FirstSays
    <3>2. PICK about : about = {i \in DOMAIN lines : IsAssignment(lines[i]) /\ lines[i].key = key}
      OBVIOUS
    <3>3. j \in about /\ \A i \in about : j <= i
      BY <2>3, <3>1, <3>2 DEF Assigns
    <3>4. (CHOOSE i \in about : \A k \in about : i <= k) = j
      <4>1. \A i \in about : (\A k \in about : i <= k) => i = j
        BY <2>3, <3>2, <3>3
      <4> QED  BY <3>3, <4>1
    <3>5. Said(env, files, key) = lines[CHOOSE i \in about : \A k \in about : i <= k].value
      BY <1>2, <1>4, <2>2, <2>6, <3>2, <3>3 DEF Said
    <3> QED  BY <1>1, <3>1, <3>4, <3>5
  <2> QED  BY <2>5, <2>6
<1> QED  BY <1>3, <1>4

(* A process serves with the external model only if its launch asked for it.  *)
LEMMA OpenaiIsAsked ==
  ASSUME NEW env, NEW files,
         \A path \in DOMAIN files : files[path] \in Seq(Range(files[path])),
         ~Load(env, files).err, Load(env, files).mode = "openai"
  PROVE  AskedForExternal(env, files)
<1>1. PICK loaded : loaded = LoadDotEnv(env, files)
  OBVIOUS
<1>2. PICK useMock : useMock = EnvOrDefault(loaded.env, "USE_MOCK_LLM", "true")
  OBVIOUS
<1>3. ~loaded.err /\ useMock \in Booleans
  BY <1>1, <1>2 DEF Load
<1>4. useMock \notin Truths /\ Trim(Getenv(loaded.env, "OPENAI_API_KEY")) # Blank
  BY <1>1, <1>2 DEF Load
<1>5. useMock # "true"
  BY <1>4 DEF Truths
<1>6. Getenv(loaded.env, "USE_MOCK_LLM") # Blank /\ useMock = Getenv(loaded.env, "USE_MOCK_LLM")
  BY <1>2, <1>5 DEF EnvOrDefault, Getenv
<1>7. Getenv(loaded.env, "OPENAI_API_KEY") # Blank
  BY <1>4 DEF Trim, Blank
<1>8. /\ Said(env, files, "USE_MOCK_LLM") = useMock
      /\ Said(env, files, "OPENAI_API_KEY") = Getenv(loaded.env, "OPENAI_API_KEY")
  BY <1>1, <1>3, <1>6, <1>7, LoadedIsSaid
<1> QED  BY <1>3, <1>4, <1>8 DEF AskedForExternal

(* A process keeps the model its start gave it.                               *)
ServesAsAsked ==
  \A p \in Procs :
    mode[p] = "openai" =>
      /\ phase[p] # "down" /\ p \in DOMAIN given.launch
      /\ AskedForExternal(given.launch[p].env, given.launch[p].files)

LEMMA AskedNext ==
  TypeOK /\ ServesAsAsked /\ [StartupNext]_startupVars => ServesAsAsked'
<1> SUFFICES ASSUME TypeOK, ServesAsAsked, [StartupNext]_startupVars PROVE ServesAsAsked'
  OBVIOUS
<1>1. ASSUME NEW p \in Procs, Start(p) PROVE ServesAsAsked'
  <2>1. PICK config : config = Load(given.launch[p].env, given.launch[p].files)
    OBVIOUS
  <2>2. /\ p \in DOMAIN given.launch /\ given' = given
        /\ \/ phase' = [phase EXCEPT ![p] = "gone"] /\ mode' = mode
           \/ /\ ~config.err /\ phase' = [phase EXCEPT ![p] = "opening"]
              /\ mode' = [mode EXCEPT ![p] = config.mode]
    BY <1>1, <2>1 DEF Start, Become
  <2>3. ~config.err /\ config.mode = "openai" =>
          AskedForExternal(given.launch[p].env, given.launch[p].files)
    <3>1. \A path \in DOMAIN given.launch[p].files :
            given.launch[p].files[path] \in Seq(Range(given.launch[p].files[path]))
      BY <2>2 DEF TypeOK, ScenarioType
    <3> QED  BY <2>1, <3>1, OpenaiIsAsked
  <2> HIDE DEF AskedForExternal
  <2> QED  BY <2>2, <2>3 DEF ServesAsAsked, TypeOK
<1>2. ASSUME given' = given, mode' = mode,
             \A p \in Procs : phase[p] # "down" => phase'[p] # "down"
      PROVE  ServesAsAsked'
  BY <1>2 DEF ServesAsAsked
<1>3. ASSUME NEW p \in Procs, \/ Open(p) \/ TakeLock(p) \/ Migrate(p)
                               \/ CommitMigrations(p) \/ Die(p) \/ Stop(p)
      PROVE  ServesAsAsked'
  <2>1. /\ given' = given /\ mode' = mode
        /\ phase' = phase \/ \E next \in Phases \ {"down"} : phase' = [phase EXCEPT ![p] = next]
    BY <1>3 DEF Open, TakeLock, Migrate, CommitMigrations, Die, Stop, Become, Phases
  <2> QED  BY <1>2, <2>1 DEF TypeOK
<1>4. CASE \E u \in Users : UserStep(u)
  BY <1>2, <1>4 DEF UserStep, Register, CheckUserLimit, EndRegistration, Disable
<1>5. CASE \E n \in UserLimits : SetUserLimit(n)
  BY <1>2, <1>5 DEF SetUserLimit
<1>6. CASE UNCHANGED startupVars
  BY <1>2, <1>6 DEF startupVars
<1> QED  BY <1>1, <1>3, <1>4, <1>5, <1>6, StartupCases DEF ProcessStep

(* However a process is started, with whatever environment and .env files, it *)
(* serves with the external model only if what was said of the settings, by  *)
(* the environment or else by the first line for a name, asks for it and     *)
(* gives a key (config.go:31, dotenv.go:14-17, 45-60).                       *)
THEOREM StartupServesAsAsked == StartupSpec => []ServesAsAsked
<1>1. Init => ServesAsAsked
  BY DEF Init, ServesAsAsked
<1> QED  BY <1>1, AskedNext, StartupInitType, StartupNextType, PTL DEF StartupSpec

=============================================================================
