------------------------------- MODULE SpacedBro -------------------------------
(***************************************************************************)
(* The process of Boot and, while it polls Telegram, the handlers of       *)
(* Onboarding: what the handlers keep in memory ends with the process, the *)
(* row outlives it, and handlers run only where polling has begun.         *)
(***************************************************************************)
EXTENDS Config, Languages

CONSTANTS MaxCrashes,                       \* of Boot
          Texts, ReviewIntents, MaxFaults   \* of Onboarding

VARIABLES env, at, op, objects, version, up, exit, touched, crashes
VARIABLES known, target_lang, onboarding_asked, pending_lang, questions,
          ledger, broken, since, chosen, pressed, faults

B == INSTANCE Boot
O == INSTANCE Onboarding

\* The variables of the two.
process == <<env, at, op, objects, version, up, exit, touched, crashes>>
dialog  == <<known, target_lang, onboarding_asked, pending_lang, questions,
             ledger, broken, since, chosen, pressed, faults>>
vars    == <<process, dialog>>
-----------------------------------------------------------------------------
\* There are rows only where there is a table for them.
Init == B!Init /\ O!Init /\ (known => "users" \in objects)

\* asyncio.run returns or the process is killed: its objects are gone.
Process ==
  /\ B!Next
  /\ IF at' = 0 THEN O!Restart ELSE UNCHANGED dialog

\* An update reaches its handler.
Update == "polling" \in up /\ O!Handle /\ UNCHANGED process

Next == Process \/ Update

\* The event loop runs _run to its end, and the policy starts it again.
Fairness == WF_vars(Process /\ B!Start) /\ WF_vars(Process /\ B!Step)

Spec == Init /\ [][Next]_vars /\ Fairness
-----------------------------------------------------------------------------
(* Properties of the parts, of the whole *)

\* Everything has its type.
TypeOK == B!TypeOK /\ O!TypeOK

\* Nothing ticks, answers or handles on less than this release's schema.
MigratedBeforeTraffic == B!MigratedBeforeTraffic

\* EX_CONFIG comes before the port and before the database.
FailsFast == B!FailsFast

\* A green container has its settings.
GreenMeansConfigured == B!GreenMeansConfigured

\* With good settings and a sound schema the bot comes to serve.
Serves == B!Serves

\* The language question is in the chat at most once.
AskedOnce == O!AskedOnce

\* After a reply to the question no text changes the language.
ReplyClosesQuestion == O!ReplyClosesQuestion

\* A button delivered again changes nothing, also by another process.
ReplayHarmless == O!ReplayHarmless
=============================================================================
