--------------------------------- MODULE Boot ---------------------------------
(***************************************************************************)
(* The life of the process: __main__._run over the settings, the Alembic   *)
(* migrations, the scheduler, the health server and the polling of         *)
(* Telegram, under the restart policy of compose.yml.                      *)
(*                                                                         *)
(* SQLite commits a CREATE or ALTER at once; the version is committed at   *)
(* the end of its revision.  So a process killed between the two leaves a  *)
(* schema that is ahead of its version.                                    *)
(***************************************************************************)
EXTENDS Config, Sequences

CONSTANT MaxCrashes  \* bound: kills, failed binds and redeployments

VARIABLES
  env,      \* the environment of the container
  at,       \* the stage reached, 0 while no process runs
  op,       \* statements of the next revision this process has executed
  objects,  \* the tables, indexes and columns in the database
  version,  \* alembic_version: revisions applied
  up,       \* "scheduler" ticks, "health" is bound, "polling" serves
  exit,     \* exit code of the last process; 0 while one runs
  touched,  \* ghost: this process, or the last one, changed the schema or
            \* bound the port
  crashes   \* ghost: crashes and redeployments so far

database == <<objects, version>>
vars     == <<env, at, op, database, up, exit, touched, crashes>>
-----------------------------------------------------------------------------
(* alembic/versions *)

Baseline    == <<>>
DataModel   == <<"users", "ix_users_telegram_id", "learning_items", "ix_learning_items_user_id">>
AskedColumn == <<"users.onboarding_asked">>

Revisions == <<Baseline, DataModel, AskedColumn>>
Latest      == Len(Revisions)

\* The objects of the first n statements of revision v.
Statements(v, n) == {Revisions[v][i] : i \in 1 .. n}

\* The schema after v revisions and n statements of the next.
Schema(v, n) ==
  (UNION {Statements(w, Len(Revisions[w])) : w \in 1 .. v})
    \cup (IF v < Latest THEN Statements(v + 1, n) ELSE {})

\* A revision was left half applied: its statements will fail from now on.
Torn == objects # Schema(version, op)
-----------------------------------------------------------------------------
(* __main__._run *)

\* Mutant: the database is migrated before the LLM settings are read.
Stages_MigrateEarly ==
  <<"settings", "migrations", "llm", "bot", "scheduler", "health", "polling">>

Stages == <<"settings", "llm", "migrations", "bot", "scheduler", "health", "polling">>

Stage(s) == at \in DOMAIN Stages /\ Stages[at] = s

Init ==
  /\ env \in Environments
  /\ at = 0 /\ op = 0 /\ up = {} /\ exit = 0
  \* Nothing yet, the release before onboarding_asked, or this one.
  /\ version \in {0, 2, 3}
  /\ objects = Schema(version, 0)
  /\ touched = FALSE
  /\ crashes = 0

Crash == crashes < MaxCrashes /\ crashes' = crashes + 1

End(code) == at' = 0 /\ op' = 0 /\ up' = {} /\ exit' = code

\* restart: unless-stopped.
Start ==
  /\ at = 0
  /\ at' = 1
  /\ exit' = 0
  /\ touched' = FALSE
  /\ UNCHANGED <<env, op, database, up, crashes>>

LoadSettings ==
  /\ Stage("settings")
  /\ CASE load_settings(env) = "returns"     -> at' = at + 1 /\ UNCHANGED <<op, up, exit>>
       [] load_settings(env) = "ConfigError" -> End(78)
       [] load_settings(env) = "ValueError"  -> End(1)
  /\ UNCHANGED <<env, database, touched, crashes>>

LoadLlmSettings ==
  /\ Stage("llm")
  /\ IF load_llm_settings(env) = "returns"
     THEN at' = at + 1 /\ UNCHANGED <<op, up, exit>>
     ELSE End(78)
  /\ UNCHANGED <<env, database, touched, crashes>>
-----------------------------------------------------------------------------
(* run_migrations *)

\* One op of upgrade(); on an object that is there already it raises.
Execute ==
  /\ Stage("migrations")
  /\ version < Latest
  /\ op < Len(Revisions[version + 1])
  /\ LET o == Revisions[version + 1][op + 1]
     IN  IF o \in objects
         THEN End(1) /\ UNCHANGED <<objects, touched>>
         ELSE /\ objects' = objects \cup {o}
              /\ op' = op + 1
              /\ touched' = TRUE
              /\ UNCHANGED <<at, up, exit>>
  /\ UNCHANGED <<env, version, crashes>>

\* Mutant: the version is committed before the statements are executed.
Stamp_BeforeItsStatements ==
  /\ Stage("migrations")
  /\ version < Latest
  /\ version' = version + 1
  /\ op' = 0
  /\ touched' = TRUE
  /\ UNCHANGED <<env, at, objects, up, exit, crashes>>

\* The revision is complete.
Stamp ==
  /\ Stage("migrations")
  /\ version < Latest
  /\ op = Len(Revisions[version + 1])
  /\ version' = version + 1
  /\ op' = 0
  /\ touched' = TRUE
  /\ UNCHANGED <<env, at, objects, up, exit, crashes>>

Migrated ==
  /\ Stage("migrations")
  /\ version = Latest
  /\ at' = at + 1
  /\ UNCHANGED <<env, op, database, up, exit, touched, crashes>>
-----------------------------------------------------------------------------
\* build_bot: aiogram's Bot raises on what has not the form of a token.
BuildBot ==
  /\ Stage("bot")
  /\ IF env.token # "malformed"
     THEN at' = at + 1 /\ UNCHANGED <<op, up, exit>>
     ELSE End(1)
  /\ UNCHANGED <<env, database, touched, crashes>>

StartScheduler ==
  /\ Stage("scheduler")
  /\ at' = at + 1
  /\ up' = up \cup {"scheduler"}
  /\ UNCHANGED <<env, op, database, exit, touched, crashes>>

\* Mutant: the server is awaited for as long as it runs.
StartHealthServer_Blocks ==
  /\ Stage("health")
  /\ up' = up \cup {"health"}
  /\ touched' = TRUE
  /\ UNCHANGED <<env, at, op, database, exit, crashes>>

StartHealthServer ==
  /\ Stage("health")
  /\ at' = at + 1
  /\ up' = up \cup {"health"}
  /\ touched' = TRUE
  /\ UNCHANGED <<env, op, database, exit, crashes>>

\* The address is in use.
BindFails ==
  /\ Stage("health")
  /\ Crash
  /\ End(1)
  /\ UNCHANGED <<env, database, touched>>

\* app.run: polls until the process ends, or Telegram refuses the token.
Poll ==
  /\ Stage("polling")
  /\ "polling" \notin up
  /\ IF env.token = "good"
     THEN up' = up \cup {"polling"} /\ UNCHANGED <<at, op, exit>>
     ELSE End(1)
  /\ UNCHANGED <<env, database, touched, crashes>>

Step ==
  \/ LoadSettings \/ LoadLlmSettings \/ Execute \/ Stamp \/ Migrated
  \/ BuildBot \/ StartScheduler \/ StartHealthServer \/ Poll
-----------------------------------------------------------------------------
Kill ==
  /\ at # 0
  /\ Crash
  /\ End(137)
  /\ UNCHANGED <<env, database, touched>>

\* docker compose up with another environment; a polling process ends in
\* good order.
Redeploy ==
  /\ Crash
  /\ env' \in Environments
  /\ End(0)
  /\ UNCHANGED <<database, touched>>

Next == Start \/ Step \/ BindFails \/ Kill \/ Redeploy

Spec == Init /\ [][Next]_vars /\ WF_vars(Start) /\ WF_vars(Step)
-----------------------------------------------------------------------------
(* Properties *)

TypeOK ==
  /\ env \in Environments
  /\ at \in 0 .. Len(Stages)
  /\ op \in Nat
  /\ objects \subseteq Schema(Latest, 0)
  /\ version \in 0 .. Latest
  /\ up \subseteq {"scheduler", "health", "polling"}
  /\ exit \in {0, 1, 78, 137}
  /\ touched \in BOOLEAN
  /\ crashes \in Nat

(***************************************************************************)
(* The scheduler ticks, the port answers and messages are handled only on  *)
(* the whole schema of this release, whatever an earlier process left      *)
(* behind (__main__ "Migrate before any traffic").                         *)
(***************************************************************************)
MigratedBeforeTraffic ==
  up # {} => version = Latest /\ objects = Schema(Latest, 0)

(***************************************************************************)
(* A process that ends with EX_CONFIG has neither bound the port nor       *)
(* touched the database (README "fail fast": the release before it can be  *)
(* started again).                                                         *)
(***************************************************************************)
FailsFast == exit = 78 => ~touched

(***************************************************************************)
(* A bound health port proves that the process has all it needs: what has  *)
(* the form of a token and, if the provider it resolved is openai, the key *)
(* (README "a healthy green container").                                   *)
(***************************************************************************)
GreenMeansConfigured ==
  "health" \in up =>
    /\ env.token \notin {"", "malformed"}
    /\ \/ env.key
       \/ env.provider = "openai_compatible"
       \/ env.provider = "" /\ env.app_env = "development"
    /\ env.timeout > 0 /\ env.retries >= 0 /\ env.interval > 0

\* A token Telegram accepts and settings that load.
Good == env.token = "good" /\ load_settings(env) = "returns" /\ load_llm_settings(env) = "returns"

(***************************************************************************)
(* With a good environment the bot comes to serve, through kills and       *)
(* failed binds, unless it is given another one or a migration was cut     *)
(* short (the restart policy; nothing repairs a torn schema).              *)
(***************************************************************************)
Serves == Good ~> ("polling" \in up \/ ~Good \/ Torn)
=============================================================================
