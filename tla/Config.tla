-------------------------------- MODULE Config --------------------------------
(***************************************************************************)
(* What the process makes of its environment: config.load_settings and     *)
(* llm/config.load_llm_settings, which return or raise.                    *)
(*                                                                         *)
(* An environment is a record of its variables: strings where the code     *)
(* compares them, and otherwise the number they parse to, or 0 (-1 for the *)
(* retries) for what does not parse, which is refused like those numbers.  *)
(* An unset variable with a default stands as that default.                *)
(***************************************************************************)
EXTENDS Integers

CONSTANT Environments  \* what the operator may configure

EnvironmentType ==
  [token    : {"", "malformed", "rejected", "good"},
                                         \* BOT_TOKEN: none, no token by its form,
                                         \* or as Telegram sees it
   port     : BOOLEAN,                   \* HEALTH_PORT is an integer
   interval : Int,                       \* SCHEDULER_INTERVAL_MINUTES
   dry_run  : BOOLEAN,                   \* SCHEDULER_DRY_RUN is a known word
   app_env  : STRING,                    \* APP_ENV
   provider : STRING,                    \* LLM_PROVIDER, "" when unset
   key      : BOOLEAN,                   \* OPENAI_API_KEY is not empty
   timeout  : Int,                       \* LLM_TIMEOUT_SECONDS
   retries  : Int]                       \* LLM_MAX_RETRIES

ASSUME EnvironmentAssumption == Environments \subseteq EnvironmentType

ALLOWED_APP_ENVS  == {"development", "preprod", "production"}
ALLOWED_PROVIDERS == {"openai", "openai_compatible"}

\* The provider of PINNED_DEFAULTS.
DefaultProvider(app_env) ==
  IF app_env = "development" THEN "openai_compatible" ELSE "openai"

Provider(env) ==
  IF env.provider = "" THEN DefaultProvider(env.app_env) ELSE env.provider

\* In the order of the code: int() of the port is not guarded.
load_settings(env) ==
  IF env.token = "" THEN "ConfigError"
  ELSE IF ~env.port THEN "ValueError"
  ELSE IF env.interval <= 0 \/ ~env.dry_run THEN "ConfigError"
  ELSE "returns"

\* Mutant: the key is asked for by environment, not by provider.
load_llm_settings_KeyByEnvironment(env) ==
  IF /\ env.app_env \in ALLOWED_APP_ENVS
     /\ Provider(env) \in ALLOWED_PROVIDERS
     /\ env.app_env # "development" => env.key
     /\ env.timeout > 0
     /\ env.retries >= 0
  THEN "returns" ELSE "ConfigError"

load_llm_settings(env) ==
  IF /\ env.app_env \in ALLOWED_APP_ENVS
     /\ Provider(env) \in ALLOWED_PROVIDERS
     /\ Provider(env) = "openai" => env.key
     /\ env.timeout > 0
     /\ env.retries >= 0
  THEN "returns" ELSE "ConfigError"
=============================================================================
