--------------------------- MODULE SpacedBroProofs ---------------------------
(***************************************************************************)
(* The whole keeps what its parts promise: every step of SpacedBro is a    *)
(* step or a stutter of Boot, and one of Onboarding, so that what is       *)
(* proved of the parts alone holds of both together.                       *)
(***************************************************************************)
EXTENDS SpacedBro, TLAPS

BP == INSTANCE BootProofs
OP == INSTANCE OnboardingProofs
-----------------------------------------------------------------------------
(***************************************************************************)
(* Boot is the same module whether it is reached through its proofs or     *)
(* not.                                                                    *)
(***************************************************************************)
LEMMA SameBoot == (B!Init => BP!Init) /\ (B!Next => BP!Next)
<1> USE DEF B!Stage, BP!Stage, B!Stages, BP!Stages, B!End, BP!End, B!Crash, BP!Crash,
            B!database, BP!database
<1>1. /\ B!Revisions = BP!Revisions /\ B!Latest = BP!Latest
      /\ \A v, n : B!Schema(v, n) = BP!Schema(v, n)
  BY DEF B!Statements, BP!Statements, B!Schema, BP!Schema, B!Revisions, BP!Revisions,
         B!Latest, BP!Latest, B!Baseline, BP!Baseline, B!DataModel, BP!DataModel,
         B!AskedColumn, BP!AskedColumn
<1>2. /\ B!load_settings(env) = BP!load_settings(env)
      /\ B!load_llm_settings(env) = BP!load_llm_settings(env)
  BY DEF B!load_settings, BP!load_settings, B!load_llm_settings, BP!load_llm_settings,
         B!Provider, BP!Provider, B!DefaultProvider, BP!DefaultProvider,
         B!ALLOWED_APP_ENVS, BP!ALLOWED_APP_ENVS, B!ALLOWED_PROVIDERS, BP!ALLOWED_PROVIDERS
<1>3. B!Init => BP!Init
  BY <1>1 DEF B!Init, BP!Init
<1>4. (B!LoadSettings => BP!LoadSettings) /\ (B!LoadLlmSettings => BP!LoadLlmSettings)
  BY <1>2 DEF B!LoadSettings, BP!LoadSettings, B!LoadLlmSettings, BP!LoadLlmSettings
<1>5. /\ B!Execute => BP!Execute
      /\ B!Stamp => BP!Stamp
      /\ B!Migrated => BP!Migrated
  BY <1>1 DEF B!Execute, BP!Execute, B!Stamp, BP!Stamp, B!Migrated, BP!Migrated
<1>6. /\ B!BuildBot => BP!BuildBot
      /\ B!StartScheduler => BP!StartScheduler
      /\ B!StartHealthServer => BP!StartHealthServer
      /\ B!Poll => BP!Poll
  BY DEF B!BuildBot, BP!BuildBot, B!StartScheduler, BP!StartScheduler, B!StartHealthServer,
         BP!StartHealthServer, B!Poll, BP!Poll
<1>7. /\ B!Start => BP!Start
      /\ B!BindFails => BP!BindFails
      /\ B!Kill => BP!Kill
      /\ B!Redeploy => BP!Redeploy
  BY DEF B!Start, BP!Start, B!BindFails, BP!BindFails, B!Kill, BP!Kill, B!Redeploy, BP!Redeploy
<1> QED
  BY <1>3, <1>4, <1>5, <1>6, <1>7 DEF B!Next, BP!Next, B!Step, BP!Step

(***************************************************************************)
(* So is Onboarding.                                                       *)
(***************************************************************************)
LEMMA SameOnboarding == (O!Init => OP!Init) /\ (O!Next => OP!Next)
  BY DEF O!Init, OP!Init, O!Next, OP!Next, O!Handle, OP!Handle, O!handle_start,
         OP!handle_start, O!handle_text, OP!handle_text, O!LanguageNamed, OP!LanguageNamed,
         O!WordSent, OP!WordSent, O!ReviewAsked, OP!ReviewAsked, O!OtherMessage, OP!OtherMessage, O!CommitFails,
         OP!CommitFails, O!Raises, OP!Raises, O!MessageGone, OP!MessageGone, O!_handle_lang,
         OP!_handle_lang, O!LangFails, OP!LangFails, O!Expire, OP!Expire, O!Restart,
         OP!Restart, O!first_seen, OP!first_seen, O!ensure_profile, OP!ensure_profile,
         O!SendQuestion, OP!SendQuestion, O!Fault, OP!Fault, O!Buttons, OP!Buttons, O!row,
         OP!row, O!memory, OP!memory, O!ghosts, OP!ghosts, O!vars, OP!vars, O!DefaultLang,
         OP!DefaultLang, O!NoLang, OP!NoLang, O!_parse_lang_code, OP!_parse_lang_code

(***************************************************************************)
(* A step of the whole is one of each part, or leaves that part alone.     *)
(***************************************************************************)
LEMMA StepOfBoot == [Next]_vars => [B!Next]_process
  BY DEF Next, Process, Update, vars

LEMMA StepOfOnboarding == [Next]_vars => [O!Next]_dialog
  BY DEF Next, Process, Update, vars, O!Next

\* The variables of a part, as the part groups them.
LEMMA SameVariables ==
  /\ UNCHANGED process => UNCHANGED BP!vars
  /\ UNCHANGED dialog  => UNCHANGED OP!vars
  BY DEF process, dialog, BP!vars, BP!database, OP!vars, OP!row, OP!memory, OP!ghosts
-----------------------------------------------------------------------------
(***************************************************************************)
(* With whatever the handlers do, the process is the one of Boot.          *)
(***************************************************************************)
THEOREM KeepsBoot == Spec => B!Init /\ [][B!Next]_process
<1>1. Init => B!Init
  BY DEF Init
<1> QED
  BY <1>1, StepOfBoot, PTL DEF Spec

(***************************************************************************)
(* With every start and end of the process, the dialog is the one of       *)
(* Onboarding.                                                             *)
(***************************************************************************)
THEOREM KeepsOnboarding == Spec => O!Init /\ [][O!Next]_dialog
<1>1. Init => O!Init
  BY DEF Init
<1> QED
  BY <1>1, StepOfOnboarding, PTL DEF Spec

(***************************************************************************)
(* The inductive invariants of both parts hold of the whole.               *)
(***************************************************************************)
THEOREM Inductive == Spec => [](BP!IInv /\ OP!IInv)
<1>1. Init => BP!IInv /\ OP!IInv
  <2>1. B!Init => BP!IInv
    BY SameBoot, BP!InitInductive, EnvironmentAssumption DEF EnvironmentType, BP!EnvironmentType
  <2>2. O!Init => OP!IInv
    BY SameOnboarding, OP!InitInductive, LanguageAssumption
       DEF DefaultLang, NoLang, OP!DefaultLang, OP!NoLang
  <2> QED
    BY <2>1, <2>2 DEF Init
<1>2. BP!IInv /\ OP!IInv /\ [Next]_vars => BP!IInv' /\ OP!IInv'
  <2>1. [Next]_vars => [BP!Next]_(BP!vars) /\ [OP!Next]_(OP!vars)
    BY StepOfBoot, StepOfOnboarding, SameBoot, SameOnboarding, SameVariables
  <2>2. BP!IInv /\ [BP!Next]_(BP!vars) => BP!IInv'
    BY BP!StepInductive, EnvironmentAssumption DEF EnvironmentType, BP!EnvironmentType
  <2>3. OP!IInv /\ [OP!Next]_(OP!vars) => OP!IInv'
    BY OP!StepInductive, LanguageAssumption
       DEF DefaultLang, NoLang, OP!DefaultLang, OP!NoLang
  <2> QED
    BY <2>1, <2>2, <2>3
<1> QED
  BY <1>1, <1>2, PTL DEF Spec

(***************************************************************************)
(* What the invariants say, under the names of the whole.                  *)
(***************************************************************************)
LEMMA InvBoot ==
  BP!IInv => MigratedBeforeTraffic /\ FailsFast /\ GreenMeansConfigured
<1>1. BP!IInv => BP!MigratedBeforeTraffic /\ BP!GreenMeansConfigured
  BY BP!InvMigrated, BP!InvConfigured, EnvironmentAssumption
     DEF EnvironmentType, BP!EnvironmentType
<1>2. BP!IInv => BP!FailsFast
  BY DEF BP!IInv, BP!Trace, BP!FailsFast
<1>3. BP!MigratedBeforeTraffic => MigratedBeforeTraffic
  BY DEF MigratedBeforeTraffic, B!MigratedBeforeTraffic, BP!MigratedBeforeTraffic,
         B!Schema, BP!Schema, B!Statements, BP!Statements, B!Latest, BP!Latest,
         B!Revisions, BP!Revisions, B!Baseline, BP!Baseline, B!DataModel, BP!DataModel,
         B!AskedColumn, BP!AskedColumn
<1>4. BP!FailsFast => FailsFast
  BY DEF FailsFast, B!FailsFast, BP!FailsFast
<1>5. BP!GreenMeansConfigured => GreenMeansConfigured
  BY DEF GreenMeansConfigured, B!GreenMeansConfigured, BP!GreenMeansConfigured
<1> QED
  BY <1>1, <1>2, <1>3, <1>4, <1>5

LEMMA InvTypes == BP!IInv /\ OP!IInv => TypeOK
<1>1. BP!IInv => B!TypeOK
  BY DEF BP!IInv, BP!TypeOK, B!TypeOK, BP!Stages, B!Stages,
         B!Schema, BP!Schema, B!Statements, BP!Statements, B!Latest, BP!Latest,
         B!Revisions, BP!Revisions, B!Baseline, BP!Baseline, B!DataModel, BP!DataModel,
         B!AskedColumn, BP!AskedColumn
<1>2. OP!IInv => O!TypeOK
  BY DEF OP!IInv, OP!TypeOK, O!TypeOK, OP!Kinds, O!Kinds, OP!Buttons, O!Buttons, OP!DefaultLang, O!DefaultLang
<1> QED
  BY <1>1, <1>2 DEF TypeOK

LEMMA InvOnboarding == OP!IInv => AskedOnce
  BY DEF OP!IInv, OP!AskedOnce, AskedOnce, O!AskedOnce

(***************************************************************************)
(* A step of the whole does to the language what a step of Onboarding may. *)
(***************************************************************************)
LEMMA StepLanguage ==
  ASSUME OP!IInv, [Next]_vars
  PROVE  /\ [target_lang' # target_lang /\ ledger' = ledger => since \subseteq {"review", "other"}]_(O!vars)
         /\ [\A b \in pressed : b \in ledger' \ ledger => target_lang' = target_lang]_(O!vars)
<1>1. [OP!Next]_(OP!vars)
  BY StepOfOnboarding, SameOnboarding, SameVariables
<1>2. [target_lang' # target_lang /\ ledger' = ledger => since \subseteq {"review", "other"}]_(OP!vars)
  BY <1>1, OP!StepReply, LanguageAssumption
     DEF DefaultLang, NoLang, OP!DefaultLang, OP!NoLang
<1>3. [\A b \in pressed : b \in ledger' \ ledger => target_lang' = target_lang]_(OP!vars)
  BY <1>1, OP!StepReplay, LanguageAssumption
     DEF DefaultLang, NoLang, OP!DefaultLang, OP!NoLang
<1> QED
  BY <1>2, <1>3
     DEF O!vars, O!row, O!memory, O!ghosts, OP!vars, OP!row, OP!memory, OP!ghosts

(***************************************************************************)
(* Every variable of the whole keeps its type.                             *)
(***************************************************************************)
THEOREM TypeCorrect == Spec => []TypeOK
  BY Inductive, InvTypes, PTL

(***************************************************************************)
(* Nothing ticks, answers or handles on less than the whole schema,        *)
(* whatever earlier processes have left behind.                            *)
(***************************************************************************)
THEOREM SchemaFirst == Spec => []MigratedBeforeTraffic
  BY Inductive, InvBoot, PTL

(***************************************************************************)
(* A process that ends with EX_CONFIG leaves no trace.                     *)
(***************************************************************************)
THEOREM ConfigFirst == Spec => []FailsFast
  BY Inductive, InvBoot, PTL

(***************************************************************************)
(* A green container has its settings.                                     *)
(***************************************************************************)
THEOREM GreenIsConfigured == Spec => []GreenMeansConfigured
  BY Inductive, InvBoot, PTL

(***************************************************************************)
(* Over all restarts of the process the question is asked at most once.    *)
(***************************************************************************)
THEOREM QuestionOnce == Spec => []AskedOnce
  BY Inductive, InvOnboarding, PTL

(***************************************************************************)
(* Over all restarts no text changes the language once a word, an answer   *)
(* or a press was handled since the question.                              *)
(***************************************************************************)
THEOREM ReplyCloses == Spec => ReplyClosesQuestion
  BY Inductive, StepLanguage, PTL DEF Spec, ReplyClosesQuestion, O!ReplyClosesQuestion

(***************************************************************************)
(* A button that has had its effect changes nothing when another process   *)
(* gets it again.                                                          *)
(***************************************************************************)
THEOREM Replay == Spec => ReplayHarmless
  BY Inductive, StepLanguage, PTL DEF Spec, ReplayHarmless, O!ReplayHarmless
=============================================================================
