------------------------------ MODULE BootProofs ------------------------------
(***************************************************************************)
(* Proofs about Boot, for any environments and any number of crashes.      *)
(***************************************************************************)
EXTENDS Boot, TLAPS

\* The order of the stages, as far as each one relies on those before it.
Order ==
  /\ at >= 2 => load_settings(env) = "returns"
  /\ at >= 3 => load_llm_settings(env) = "returns"
  /\ at >= 4 => version = Latest
  /\ at >= 5 => env.token # "malformed"
  /\ up # {} => at >= 6
  /\ "health" \in up => at = 7

\* What is executed and stamped is there, at whatever statement a process died.
Applied ==
  /\ version < Latest => op \in 0 .. Len(Revisions[version + 1])
  /\ Schema(version, op) \subseteq objects

\* What a process leaves behind it.
Trace ==
  /\ exit = 78 => at = 0 /\ ~touched
  /\ touched /\ at # 0 => at >= 3

IInv == TypeOK /\ Order /\ Applied /\ Trace
-----------------------------------------------------------------------------
(* The schema *)

LEMMA ThreeRevisions ==
  /\ Latest = 3
  /\ \A v \in 1 .. 3 : Len(Revisions[v]) \in Nat
  BY DEF Latest, Revisions, Baseline, DataModel, AskedColumn

LEMMA SevenStages ==
  /\ Len(Stages) = 7 /\ DOMAIN Stages = 1 .. 7
  /\ Stages[1] = "settings"   /\ Stages[2] = "llm"
  /\ Stages[3] = "migrations" /\ Stages[4] = "bot"
  /\ Stages[5] = "scheduler"  /\ Stages[6] = "health" /\ Stages[7] = "polling"
  BY DEF Stages

\* Where a stage is.
LEMMA StageAt ==
  ASSUME at \in 0 .. 7
  PROVE  /\ Stage("settings") => at = 1
         /\ Stage("llm") => at = 2
         /\ Stage("migrations") => at = 3
         /\ Stage("bot") => at = 4
         /\ Stage("scheduler") => at = 5
         /\ Stage("health") => at = 6
         /\ Stage("polling") => at = 7
  BY SevenStages DEF Stage

(***************************************************************************)
(* One statement more.                                                     *)
(***************************************************************************)
LEMMA SchemaExecute ==
  ASSUME NEW v \in 0 .. 2, NEW n \in Nat
  PROVE  Schema(v, n + 1) = Schema(v, n) \cup {Revisions[v + 1][n + 1]}
<1>1. Statements(v + 1, n + 1) = Statements(v + 1, n) \cup {Revisions[v + 1][n + 1]}
  <2>1. 1 .. n + 1 = (1 .. n) \cup {n + 1}
    OBVIOUS
  <2> QED
    BY <2>1 DEF Statements
<1>2. v < Latest
  BY ThreeRevisions
<1> DEFINE before == UNION {Statements(w, Len(Revisions[w])) : w \in 1 .. v}
<1>3. \A m : Schema(v, m) = before \cup Statements(v + 1, m)
  BY <1>2 DEF Schema
<1> HIDE DEF before
<1> QED
  BY <1>1, <1>3

(***************************************************************************)
(* The last statement of a revision completes it.                          *)
(***************************************************************************)
LEMMA SchemaStamp ==
  ASSUME NEW v \in 0 .. 2
  PROVE  Schema(v + 1, 0) = Schema(v, Len(Revisions[v + 1]))
<1> DEFINE complete(w) == Statements(w, Len(Revisions[w]))
<1>1. v < Latest /\ 1 .. v + 1 = (1 .. v) \cup {v + 1}
  BY ThreeRevisions
<1> HIDE DEF complete
<1>2. UNION {complete(w) : w \in 1 .. v + 1}
        = (UNION {complete(w) : w \in 1 .. v}) \cup complete(v + 1)
  <2>1. ASSUME NEW o
        PROVE  (\E w \in 1 .. v + 1 : o \in complete(w))
                 <=> (\E w \in 1 .. v : o \in complete(w)) \/ o \in complete(v + 1)
    BY <1>1, Zenon
  <2> QED
    BY <2>1
<1>3. \A w : Statements(w, 0) = {}
  BY DEF Statements
<1> QED
  BY <1>1, <1>2, <1>3 DEF Schema, complete

\* A process that starts over takes its predecessor's statements for undone.
LEMMA SchemaRestart ==
  ASSUME NEW v, NEW n
  PROVE  Schema(v, 0) \subseteq Schema(v, n)
<1>1. \A w : Statements(w, 0) = {}
  BY DEF Statements
<1> QED
  BY <1>1 DEF Schema

\* Nothing but the release's objects is created.
LEMMA SchemaWithin ==
  ASSUME NEW v \in 0 .. 2, NEW n \in 1 .. Len(Revisions[v + 1])
  PROVE  Revisions[v + 1][n] \in Schema(Latest, 0)
<1>1. v + 1 \in 1 .. Latest
  BY ThreeRevisions
<1>2. Revisions[v + 1][n] \in Statements(v + 1, Len(Revisions[v + 1]))
  BY DEF Statements
<1> QED
  BY <1>1, <1>2 DEF Schema

LEMMA SchemaGrows ==
  ASSUME NEW v \in 0 .. 3
  PROVE  Schema(v, 0) \subseteq Schema(Latest, 0)
<1>1. 1 .. v \subseteq 1 .. Latest /\ ~(Latest < Latest)
  BY ThreeRevisions
<1>2. \A w : Statements(w, 0) = {}
  BY DEF Statements
<1> QED
  BY <1>1, <1>2 DEF Schema
-----------------------------------------------------------------------------
(* The process *)

LEMMA InitInductive == Init => IInv
<1> SUFFICES ASSUME Init PROVE IInv
  OBVIOUS
<1>1. version \in 0 .. Latest /\ (version < Latest => version \in 0 .. 2)
  BY ThreeRevisions DEF Init
<1>2. objects \subseteq Schema(Latest, 0)
  <2>1. version \in 0 .. 3
    BY DEF Init
  <2>2. Schema(version, 0) \subseteq Schema(Latest, 0)
    BY <2>1, SchemaGrows
  <2> QED
    BY <2>2 DEF Init
<1>3. version < Latest => op \in 0 .. Len(Revisions[version + 1])
  BY <1>1, ThreeRevisions DEF Init
<1>4. TypeOK
  <2>1. touched \in BOOLEAN
    BY DEF Init
  <2>2. at \in 0 .. Len(Stages) /\ op \in Nat /\ crashes \in Nat /\ exit \in {0, 1, 78, 137}
    BY SevenStages DEF Init
  <2>3. env \in Environments /\ up \subseteq {"scheduler", "health", "polling"}
    BY DEF Init
  <2> QED
    BY <1>1, <1>2, <2>1, <2>2, <2>3 DEF TypeOK
<1>5. Order /\ Trace
  BY DEF Init, Order, Trace
<1>6. Schema(version, op) \subseteq objects
  BY DEF Init
<1> QED
  BY <1>3, <1>4, <1>5, <1>6 DEF IInv, Applied

(***************************************************************************)
(* Wherever a process ends: the schema stays as it is, and a successor     *)
(* takes it up from the last version.                                      *)
(***************************************************************************)
LEMMA EndInductive ==
  ASSUME IInv, NEW code \in {0, 1, 78, 137}, End(code),
         code = 78 => ~touched', touched' \in BOOLEAN, crashes' \in Nat,
         env' \in Environments, UNCHANGED database
  PROVE  IInv'
<1> USE DEF IInv, TypeOK
<1>1. at' = 0 /\ op' = 0 /\ up' = {} /\ exit' = code /\ objects' = objects /\ version' = version
  BY DEF End, database
<1>2. TypeOK'
  BY <1>1, SevenStages
<1>3. Order'
  BY <1>1 DEF Order
<1>4. Trace'
  BY <1>1 DEF Trace
<1>5. Applied'
  <2>1. Schema(version, 0) \subseteq objects
    BY SchemaRestart DEF Applied
  <2>2. (version < Latest)' => 0 \in 0 .. Len(Revisions[version + 1])
    BY <1>1, ThreeRevisions
  <2>3. (version < Latest => op \in 0 .. Len(Revisions[version + 1]))'
    BY <1>1, <2>2
  <2>4. Schema(version, op)' \subseteq objects'
    BY <1>1, <2>1
  <2> QED
    BY <2>3, <2>4 DEF Applied
<1> QED
  BY <1>2, <1>3, <1>4, <1>5

\* A stage that leaves the database alone and goes on to the next.
LEMMA AdvanceInductive ==
  ASSUME IInv, at \in 1 .. 6, at' = at + 1,
         up' \subseteq {"scheduler", "health", "polling"},
         touched' \in BOOLEAN, touched' => at >= 2,
         exit' = exit, crashes' = crashes,
         UNCHANGED <<env, op, database>>,
         Order'
  PROVE  IInv'
<1>1. objects' = objects /\ version' = version /\ op' = op /\ env' = env
  BY DEF database
<1>2. TypeOK'
  BY <1>1, SevenStages DEF IInv, TypeOK
<1>3. Applied'
  <2>1. (version < Latest => op \in 0 .. Len(Revisions[version + 1]))'
    BY <1>1 DEF IInv, Applied
  <2>2. Schema(version, op)' \subseteq objects'
    BY <1>1 DEF IInv, Applied
  <2> QED
    BY <2>1, <2>2 DEF Applied
<1>4. Trace'
  BY SevenStages DEF IInv, TypeOK, Trace
<1> QED
  BY <1>2, <1>3, <1>4 DEF IInv

LEMMA StageInductive ==
  ASSUME IInv, Step PROVE IInv'
<1> USE DEF IInv, TypeOK
<1>1. at \in 0 .. 7 /\ version \in 0 .. 3 /\ Latest = 3
  BY SevenStages, ThreeRevisions
<1>2. CASE LoadSettings
  <2>1. at = 1 /\ ~touched
    BY <1>1, <1>2, StageAt DEF LoadSettings, Trace
  <2>2. CASE load_settings(env) = "returns"
    <3>1. at' = at + 1 /\ UNCHANGED <<env, op, database, up, exit, touched, crashes>>
      BY <1>2, <2>2 DEF LoadSettings
    <3>2. Order'
      BY <2>1, <2>2, <3>1 DEF Order
    <3> QED
      BY <2>1, <3>1, <3>2, AdvanceInductive
  <2>3. CASE load_settings(env) # "returns"
    <3>1. load_settings(env) \in {"returns", "ConfigError", "ValueError"}
      BY DEF load_settings
    <3>2. /\ load_settings(env) = "ConfigError" => End(78)
          /\ load_settings(env) = "ValueError" => End(1)
      BY <1>2 DEF LoadSettings
    <3>3. End(78) \/ End(1)
      BY <2>3, <3>1, <3>2
    <3>4. UNCHANGED <<env, database, touched, crashes>>
      BY <1>2 DEF LoadSettings
    <3> QED
      BY <2>1, <3>3, <3>4, EndInductive
  <2> QED
    BY <2>2, <2>3
<1>3. CASE LoadLlmSettings
  <2>1. at = 2 /\ ~touched
    BY <1>1, <1>3, StageAt DEF LoadLlmSettings, Trace
  <2>2. CASE load_llm_settings(env) = "returns"
    <3>1. at' = at + 1 /\ UNCHANGED <<env, op, database, up, exit, touched, crashes>>
      BY <1>3, <2>2 DEF LoadLlmSettings
    <3>2. Order'
      BY <2>1, <2>2, <3>1 DEF Order
    <3> QED
      BY <2>1, <3>1, <3>2, AdvanceInductive
  <2>3. CASE load_llm_settings(env) # "returns"
    <3>1. End(78) /\ UNCHANGED <<env, database, touched, crashes>>
      BY <1>3, <2>3 DEF LoadLlmSettings
    <3> QED
      BY <2>1, <3>1, EndInductive
  <2> QED
    BY <2>2, <2>3
<1>4. CASE Execute
  <2> DEFINE o == Revisions[version + 1][op + 1]
  <2>1. at = 3 /\ version \in 0 .. 2 /\ op \in Nat /\ op + 1 \in 1 .. Len(Revisions[version + 1])
    BY <1>1, <1>4, StageAt, ThreeRevisions DEF Execute
  <2>2. CASE o \in objects
    <3>1. End(1) /\ UNCHANGED <<env, database, touched, crashes>>
      BY <1>4, <2>2 DEF Execute, database
    <3> QED
      BY <3>1, EndInductive
  <2>3. CASE o \notin objects
    <3>1. /\ objects' = objects \cup {o} /\ op' = op + 1 /\ touched' = TRUE
          /\ UNCHANGED <<env, at, up, exit, version, crashes>>
      BY <1>4, <2>3, Zenon DEF Execute
    <3>2. Schema(version, op + 1) = Schema(version, op) \cup {o}
      <4>1. version \in 0 .. 2 /\ op \in Nat
        BY <2>1
      <4> QED
        BY <4>1, SchemaExecute DEF o
    <3>3. o \in Schema(Latest, 0)
      BY <2>1, SchemaWithin
    <3> HIDE DEF o
    <3>4. TypeOK'
      BY <2>1, <3>1, <3>3
    <3>5. Order' /\ Trace'
      BY <2>1, <3>1 DEF Order, Trace
    <3>6. Applied'
      BY <2>1, <3>1, <3>2 DEF Applied
    <3> QED
      BY <3>4, <3>5, <3>6
  <2> QED
    BY <2>2, <2>3
<1>5. CASE Stamp
  <2>1. at = 3 /\ version \in 0 .. 2 /\ op = Len(Revisions[version + 1])
    BY <1>1, <1>5, StageAt DEF Stamp
  <2>2. /\ version' = version + 1 /\ op' = 0 /\ touched' = TRUE
        /\ UNCHANGED <<env, at, objects, up, exit, crashes>>
    BY <1>5 DEF Stamp
  <2>3. Schema(version + 1, 0) \subseteq objects
    BY <2>1, SchemaStamp DEF Applied
  <2>4. version' < Latest => op' \in 0 .. Len(Revisions[version' + 1])
    BY <1>1, <2>1, <2>2, ThreeRevisions
  <2>5. TypeOK'
    BY <1>1, <2>1, <2>2
  <2>6. Order' /\ Trace'
    BY <2>1, <2>2 DEF Order, Trace
  <2>7. Applied'
    BY <2>2, <2>3, <2>4 DEF Applied
  <2> QED
    BY <2>5, <2>6, <2>7
<1>6. CASE Migrated
  <2>1. at = 3 /\ version = Latest /\ at' = at + 1
    BY <1>1, <1>6, StageAt DEF Migrated
  <2>2. UNCHANGED <<env, op, database, up, exit, touched, crashes>>
    BY <1>6 DEF Migrated
  <2>3. Order'
    BY <2>1, <2>2 DEF Order, database
  <2> QED
    BY <2>1, <2>2, <2>3, AdvanceInductive
<1>10. CASE BuildBot
  <2>1. at = 4 /\ UNCHANGED <<env, database, touched, crashes>>
    BY <1>1, <1>10, StageAt DEF BuildBot
  <2>2. CASE env.token # "malformed"
    <3>1. at' = at + 1 /\ UNCHANGED <<op, up, exit>>
      BY <1>10, <2>2 DEF BuildBot
    <3>2. Order'
      BY <2>1, <2>2, <3>1 DEF Order, database
    <3> QED
      BY <2>1, <3>1, <3>2, AdvanceInductive
  <2>3. CASE env.token = "malformed"
    <3>1. End(1)
      BY <1>10, <2>3 DEF BuildBot
    <3> QED
      BY <2>1, <3>1, EndInductive
  <2> QED
    BY <2>2, <2>3
<1>7. CASE StartScheduler
  <2>1. at = 5 /\ at' = at + 1 /\ up' = up \cup {"scheduler"}
    BY <1>1, <1>7, StageAt DEF StartScheduler
  <2>2. UNCHANGED <<env, op, database, exit, touched, crashes>>
    BY <1>7 DEF StartScheduler
  <2>3. Order'
    BY <2>1, <2>2 DEF Order, database
  <2> QED
    BY <2>1, <2>2, <2>3, AdvanceInductive
<1>8. CASE StartHealthServer
  <2>1. at = 6 /\ at' = at + 1 /\ up' = up \cup {"health"} /\ touched' = TRUE
    BY <1>1, <1>8, StageAt DEF StartHealthServer
  <2>2. UNCHANGED <<env, op, database, exit, crashes>>
    BY <1>8 DEF StartHealthServer
  <2>3. Order'
    BY <2>1, <2>2 DEF Order, database
  <2> QED
    BY <2>1, <2>2, <2>3, AdvanceInductive
<1>9. CASE Poll
  <2>1. at = 7 /\ UNCHANGED <<env, database, touched, crashes>>
    BY <1>1, <1>9, StageAt DEF Poll
  <2>2. CASE env.token = "good"
    <3>1. up' = up \cup {"polling"} /\ UNCHANGED <<at, op, exit>>
      BY <1>9, <2>2 DEF Poll
    <3>2. TypeOK'
      BY <2>1, <3>1 DEF database
    <3>3. Order' /\ Trace'
      BY <2>1, <3>1 DEF Order, Trace, database
    <3>4. Applied'
      BY <2>1, <3>1 DEF Applied, database
    <3> QED
      BY <3>2, <3>3, <3>4
  <2>3. CASE env.token # "good"
    <3>1. End(1)
      BY <1>9, <2>3 DEF Poll
    <3> QED
      BY <2>1, <3>1, EndInductive
  <2> QED
    BY <2>2, <2>3
<1> QED
  BY <1>2, <1>3, <1>4, <1>5, <1>6, <1>7, <1>8, <1>9, <1>10 DEF Step

LEMMA StepInductive == IInv /\ [Next]_vars => IInv'
<1> SUFFICES ASSUME IInv, [Next]_vars PROVE IInv'
  OBVIOUS
<1> USE DEF IInv, TypeOK
<1>1. CASE Start
  <2>1. /\ at = 0 /\ at' = 1 /\ exit' = 0 /\ touched' = FALSE
        /\ UNCHANGED <<env, op, objects, version, up, crashes>>
    BY <1>1 DEF Start, database
  <2>2. touched' \in BOOLEAN /\ ~touched'
    BY <2>1
  <2>3. TypeOK'
    BY <2>1, <2>2, SevenStages
  <2>4. Order'
    BY <2>1 DEF Order
  <2>5. Trace'
    BY <2>1, <2>2 DEF Trace
  <2>6. Applied'
    BY <2>1 DEF Applied
  <2> QED
    BY <2>3, <2>4, <2>5, <2>6
<1>2. CASE Step
  BY <1>2, StageInductive
<1>3. CASE BindFails
  <2>1. End(1) /\ UNCHANGED <<env, database, touched>> /\ crashes' \in Nat
    BY <1>3 DEF BindFails, Crash
  <2> QED
    BY <2>1, EndInductive
<1>4. CASE Kill
  <2>1. End(137) /\ UNCHANGED <<env, database, touched>> /\ crashes' \in Nat
    BY <1>4 DEF Kill, Crash
  <2> QED
    BY <2>1, EndInductive
<1>5. CASE Redeploy
  <2>1. /\ End(0) /\ env' \in Environments /\ UNCHANGED <<database, touched>>
        /\ crashes' \in Nat
    BY <1>5 DEF Redeploy, Crash
  <2> QED
    BY <2>1, EndInductive
<1>6. CASE UNCHANGED vars
  <2>1. UNCHANGED <<env, at, op, objects, version, up, exit, touched, crashes>>
    BY <1>6 DEF vars, database
  <2>2. TypeOK'
    BY <2>1
  <2>3. Order' /\ Trace' /\ Applied'
    BY <2>1 DEF Order, Trace, Applied
  <2> QED
    BY <2>2, <2>3
<1> QED
  BY <1>1, <1>2, <1>3, <1>4, <1>5, <1>6 DEF Next

(***************************************************************************)
(* What the invariant says of the whole of a start.                        *)
(***************************************************************************)
LEMMA InvMigrated == IInv => MigratedBeforeTraffic
<1> SUFFICES ASSUME IInv, up # {} PROVE version = Latest /\ objects = Schema(Latest, 0)
  BY DEF MigratedBeforeTraffic
<1>1. version = Latest
  BY SevenStages DEF IInv, TypeOK, Order
<1>2. Schema(Latest, 0) \subseteq Schema(version, op)
  BY <1>1, SchemaRestart
<1>3. objects \subseteq Schema(Latest, 0) /\ Schema(version, op) \subseteq objects
  BY DEF IInv, TypeOK, Applied
<1> QED
  BY <1>1, <1>2, <1>3

LEMMA InvConfigured == IInv => GreenMeansConfigured
<1> SUFFICES ASSUME IInv, "health" \in up
             PROVE  /\ env.token \notin {"", "malformed"}
                    /\ \/ env.key
                       \/ env.provider = "openai_compatible"
                       \/ env.provider = "" /\ env.app_env = "development"
                    /\ env.timeout > 0 /\ env.retries >= 0 /\ env.interval > 0
  BY DEF GreenMeansConfigured
<1>1. load_settings(env) = "returns" /\ load_llm_settings(env) = "returns"
  BY SevenStages DEF IInv, TypeOK, Order
<1>2. env.interval \in Int
  BY EnvironmentAssumption DEF IInv, TypeOK, EnvironmentType
<1>8. env.token # "malformed"
  BY SevenStages DEF IInv, TypeOK, Order
<1>3. env.token # "" /\ ~(env.interval <= 0)
  BY <1>1 DEF load_settings
<1>4. /\ Provider(env) \in ALLOWED_PROVIDERS
      /\ Provider(env) = "openai" => env.key
      /\ env.timeout > 0 /\ env.retries >= 0
  BY <1>1 DEF load_llm_settings
<1>5. \/ env.key
      \/ env.provider = "openai_compatible"
      \/ env.provider = "" /\ env.app_env = "development"
  <2>1. env.key \/ Provider(env) = "openai_compatible"
    BY <1>4 DEF ALLOWED_PROVIDERS
  <2> QED
    BY <2>1 DEF Provider, DefaultProvider
<1>6. \A i \in Int : ~(i <= 0) => i > 0
  OBVIOUS
<1>7. env.interval > 0
  BY <1>2, <1>3, <1>6, Zenon
<1> QED
  BY <1>3, <1>4, <1>5, <1>7, <1>8, Zenon
-----------------------------------------------------------------------------
(***************************************************************************)
(* The inductive invariant of the process: what each stage may rely on,    *)
(* and a schema that is never behind its version, wherever it was killed.  *)
(***************************************************************************)
THEOREM Inductive == Spec => []IInv
  BY InitInductive, StepInductive, PTL DEF Spec

(***************************************************************************)
(* Every variable of the process keeps its type.                           *)
(***************************************************************************)
THEOREM TypeCorrect == Spec => []TypeOK
<1>1. IInv => TypeOK
  BY DEF IInv
<1> QED
  BY <1>1, Inductive, PTL

(***************************************************************************)
(* Nothing is served on less than the whole schema.                        *)
(***************************************************************************)
THEOREM SchemaFirst == Spec => []MigratedBeforeTraffic
  BY InvMigrated, Inductive, PTL

(***************************************************************************)
(* EX_CONFIG comes before the port and before the database.                *)
(***************************************************************************)
THEOREM ConfigFirst == Spec => []FailsFast
<1>1. IInv => FailsFast
  BY DEF IInv, Trace, FailsFast
<1> QED
  BY <1>1, Inductive, PTL

(***************************************************************************)
(* A bound port has its settings, for every set of environments.           *)
(***************************************************************************)
THEOREM GreenIsConfigured == Spec => []GreenMeansConfigured
  BY InvConfigured, Inductive, PTL
=============================================================================
