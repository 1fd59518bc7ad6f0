------------------------------ MODULE Onboarding ------------------------------
(***************************************************************************)
(* The profile row of one user and the question which language to learn:  *)
(* handle_start, handle_text and _handle_lang of bot/handlers.py over      *)
(* services.ensure_profile, the users repository, the "pending_lang" entry *)
(* of the context store and the callback ledger.                           *)
(*                                                                         *)
(* Up to the reply a handler does not await, so each is one step.  A reply *)
(* without buttons, delivered or not, changes nothing and is left out.     *)
(***************************************************************************)
EXTENDS Languages, Integers, FiniteSets

CONSTANTS Texts,         \* what the user may write
          ReviewIntents, \* those review.is_review_intent takes
          MaxFaults      \* bound: failed commits and failed sends

VARIABLES
  known,            \* the user has a row
  target_lang,      \* its columns; the defaults while there is none
  onboarding_asked,
  pending_lang,     \* the store's entry: the question is open
  questions,        \* questions in the chat, each with [English] and [Skip]
  ledger,           \* CallbackLedger: the callback ids handled since the start
  broken,           \* the users session is left in a failed transaction: every
                    \* handler raises in ensure_profile, nobody rolls back
  since,            \* ghost: the kinds of what was handled since the question
  chosen,           \* ghost: the user has named a language
  pressed,          \* ghost: buttons that have had their effect, restarts or not
  faults            \* ghost: faults so far

row    == <<known, target_lang, onboarding_asked>>
memory == <<pending_lang, ledger, broken>>
ghosts == <<since, chosen, pressed>>
vars   == <<row, memory, questions, ghosts, faults>>
-----------------------------------------------------------------------------
\* A reply is an answer, a word or a press.  The other two are no reply: a text
\* that asks for a review, and a photo or a command.
Kinds == {"reply", "review", "other"}

\* A button is <<question, payload>>; the pair is also its callback id.
Buttons == (1 .. questions) \X {DefaultLang, "skip"}

Fault == faults < MaxFaults /\ faults' = faults + 1

\* Every handler begins with it; a row is created with the defaults.
ensure_profile == ~broken /\ known' = TRUE

Init ==
  \* A row older than onboarding_asked has FALSE there and any language.
  /\ known \in BOOLEAN
  /\ target_lang \in (IF known THEN LANG_CODES ELSE {DefaultLang})
  /\ onboarding_asked = FALSE
  /\ pending_lang = FALSE
  /\ questions = 0
  /\ ledger = {}
  /\ broken = FALSE
  /\ since = {"reply"}  \* nothing is open
  /\ chosen = FALSE /\ pressed = {}
  /\ faults = 0
-----------------------------------------------------------------------------
(* Messages *)

\* A failed send may have reached the chat nevertheless.
SendQuestion ==
  \/ questions' = questions + 1 /\ UNCHANGED faults
  \/ questions' \in {questions, questions + 1} /\ Fault

\* Mutant: the flag is set once the send has returned.
handle_start_FlagsWhenSent ==
  /\ ensure_profile
  /\ ~onboarding_asked
  /\ pending_lang' = TRUE
  /\ SendQuestion
  /\ onboarding_asked' = (faults' = faults)
  /\ since' = {}
  /\ UNCHANGED <<target_lang, ledger, broken, chosen, pressed>>

\* /start; with the flag set it is a plain welcome, see OtherMessage.
handle_start ==
  /\ ensure_profile
  /\ ~onboarding_asked
  /\ onboarding_asked' = TRUE
  /\ pending_lang' = TRUE
  /\ SendQuestion
  /\ since' = {}
  /\ UNCHANGED <<target_lang, ledger, broken, chosen, pressed>>

\* handle_text, the open question answered with a language.
LanguageNamed(t) ==
  /\ ensure_profile
  /\ pending_lang
  /\ _parse_lang_code(t) # NoLang
  /\ target_lang' = _parse_lang_code(t)
  /\ pending_lang' = FALSE
  /\ since' = since \cup {"reply"} /\ chosen' = TRUE
  /\ UNCHANGED <<onboarding_asked, questions, ledger, broken, pressed, faults>>

\* Mutant: the question stays open after a text that is no answer.
WordSent_KeepsAsking(t) ==
  /\ ensure_profile
  /\ pending_lang => _parse_lang_code(t) = NoLang
  /\ since' = since \cup {"reply"}
  /\ UNCHANGED <<target_lang, onboarding_asked, memory, questions, chosen, pressed, faults>>

\* handle_text, a word to learn: an open question counts as skipped.
WordSent(t) ==
  /\ ensure_profile
  /\ pending_lang => _parse_lang_code(t) = NoLang
  /\ pending_lang' = FALSE
  /\ since' = since \cup {"reply"}
  /\ UNCHANGED <<target_lang, onboarding_asked, questions, ledger, broken, chosen, pressed, faults>>

\* handle_text, a text that asks for a review: it returns before it looks at the
\* question, which stays open.
ReviewAsked ==
  /\ ensure_profile
  /\ since' = since \cup {"review"}
  /\ UNCHANGED <<target_lang, onboarding_asked, memory, questions, chosen, pressed, faults>>

handle_text ==
  \E t \in Texts : IF t \in ReviewIntents THEN ReviewAsked ELSE LanguageNamed(t) \/ WordSent(t)

\* /start again, /review and a photo: their handlers do not look at it either.
OtherMessage ==
  /\ ensure_profile
  /\ since' = since \cup {"other"}
  /\ UNCHANGED <<target_lang, onboarding_asked, memory, questions, chosen, pressed, faults>>

\* A message's commit fails: creating the row, or later (touch_activity,
\* mark_onboarding_asked, set_target_lang), all before the store changes.
CommitFails ==
  /\ ~broken /\ Fault
  /\ known' \in {known, TRUE}
  /\ broken' = TRUE
  /\ UNCHANGED <<target_lang, onboarding_asked, pending_lang, questions, ledger, ghosts>>
-----------------------------------------------------------------------------
(* Buttons *)

\* handle_callback up to its dispatch.
first_seen(b) == ensure_profile /\ b \in Buttons \ ledger /\ ledger' = ledger \cup {b}

\* The question was deleted: the id is used up, nothing else happens.
MessageGone(b) ==
  /\ first_seen(b)
  /\ UNCHANGED <<target_lang, onboarding_asked, pending_lang, broken, questions, ghosts, faults>>

\* Mutant: the question stays open.
_handle_lang_KeepsAsking(b) ==
  /\ first_seen(b)
  /\ target_lang' = (IF b[2] = "skip" THEN target_lang ELSE b[2])
  /\ since' = since \cup {"reply"}
  /\ chosen' = (chosen \/ b[2] # "skip")
  /\ pressed' = pressed \cup {b}
  /\ UNCHANGED <<onboarding_asked, pending_lang, broken, questions, faults>>

\* Mutant: the payload of [Skip] is stored as well.
_handle_lang_AnyPayload(b) ==
  /\ first_seen(b)
  /\ pending_lang' = FALSE
  /\ target_lang' = b[2]
  /\ since' = since \cup {"reply"}
  /\ chosen' = TRUE
  /\ pressed' = pressed \cup {b}
  /\ UNCHANGED <<onboarding_asked, broken, questions, faults>>

_handle_lang(b) ==
  /\ first_seen(b)
  /\ pending_lang' = FALSE
  /\ target_lang' = (IF b[2] = "skip" THEN target_lang ELSE b[2])
  /\ since' = since \cup {"reply"}
  /\ chosen' = (chosen \/ b[2] # "skip")
  /\ pressed' = pressed \cup {b}
  /\ UNCHANGED <<onboarding_asked, broken, questions, faults>>

\* set_target_lang fails: the id and the question are used up by then.
LangFails(b) ==
  /\ first_seen(b)
  /\ b[2] # "skip"
  /\ Fault
  /\ pending_lang' = FALSE
  /\ broken' = TRUE
  /\ since' = since \cup {"reply"}
  /\ UNCHANGED <<target_lang, onboarding_asked, questions, chosen, pressed>>
-----------------------------------------------------------------------------
\* The store's entry outlives its TTL.
Expire ==
  /\ pending_lang
  /\ pending_lang' = FALSE
  /\ UNCHANGED <<row, ledger, broken, questions, ghosts, faults>>

\* Store, ledger and session are in memory.
Restart ==
  /\ pending_lang' = FALSE
  /\ ledger' = {}
  /\ broken' = FALSE
  /\ UNCHANGED <<row, questions, ghosts, faults>>

\* On a failed session every handler ends in the error handler.
Raises == broken /\ UNCHANGED vars

\* What happens while the bot polls Telegram.
Handle ==
  \/ handle_start \/ handle_text \/ OtherMessage \/ CommitFails \/ Raises
  \/ \E b \in Buttons : MessageGone(b) \/ _handle_lang(b) \/ LangFails(b)
  \/ Expire

Next == Handle \/ Restart

Spec == Init /\ [][Next]_vars
-----------------------------------------------------------------------------
(* Properties *)

TypeOK ==
  /\ known \in BOOLEAN /\ onboarding_asked \in BOOLEAN
  /\ target_lang \in LANG_CODES
  /\ pending_lang \in BOOLEAN
  /\ questions \in Nat
  /\ ledger \subseteq Buttons
  /\ broken \in BOOLEAN
  /\ since \subseteq Kinds /\ chosen \in BOOLEAN
  /\ pressed \subseteq Buttons
  /\ faults \in Nat

(***************************************************************************)
(* The question is in the chat at most once, whatever fails around its     *)
(* send and however often the process restarts (telegram-bot "Start        *)
(* command": asked once).                                                  *)
(***************************************************************************)
AskedOnce == questions <= 1

(***************************************************************************)
(* A reply closes the question for good: once a word, an answer or a press *)
(* was handled, no text changes the language (handle_text "the question is *)
(* skipped").  A text that asks for a review, a photo and a command do not *)
(* close it: the first text after them may still be taken for the answer.  *)
(***************************************************************************)
ReplyClosesQuestion ==
  [][target_lang' # target_lang /\ ledger' = ledger => since \subseteq {"review", "other"}]_vars

(***************************************************************************)
(* A language button that is delivered again, also after a restart emptied *)
(* the ledger, changes nothing any more ("Callback idempotency").          *)
(***************************************************************************)
ReplayHarmless ==
  [][\A b \in pressed : b \in ledger' \ ledger => target_lang' = target_lang]_vars

(***************************************************************************)
(* A language the user has named changes on two confirmations, never on    *)
(* one (user-memory spec "Single confirm insufficient").                   *)
(***************************************************************************)
SingleConfirmInsufficient ==
  [][chosen /\ target_lang' # target_lang => Cardinality(pressed') >= 2]_vars
=============================================================================
