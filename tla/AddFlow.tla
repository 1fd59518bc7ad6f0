-------------------------------- MODULE AddFlow --------------------------------
(***************************************************************************)
(* Adding words, for one user: handle_text / handle_photo and the Add,     *)
(* Save, Regenerate, Skip and Boost buttons of bot/handlers.py, over the   *)
(* context store and the callback ledger of bot/state.py and the rows of   *)
(* db/repositories.py.                                                     *)
(*                                                                         *)
(* Handlers run on one event loop and interleave only at awaits: a handler *)
(* that calls the LLM is two steps, the request (which leaves a task) and  *)
(* its answer; every other handler is one step.  A message is delivered in *)
(* the step that stores what its buttons refer to: nobody can press them   *)
(* before, so delivering it earlier changes nothing.                       *)
(*                                                                         *)
(* Opaque tokens (callbacks.new_token) are numbers: the place the message  *)
(* that carries them takes in the chat, which no other message carries.    *)
(***************************************************************************)
EXTENDS Integers, Sequences, FiniteSets

CONSTANTS Fronts,          \* words as the user may write them
          normalize_front, \* their normal forms
          Backs,           \* what the LLM may answer as a translation
          MaxChat,         \* bound: messages with buttons in the chat
          MaxFaults        \* bound: lost calls, failures, presses without effect

\* No translation is on the message.
NoBack == "no back"

ASSUME NormalAssumption == DOMAIN normalize_front = Fronts
ASSUME BacksAssumption  == NoBack \notin Backs

VARIABLES
  rows,        \* the user's cards, in order of creation: [front, back]
  candidates,  \* {} or the stored candidates: [ref, fronts]
  confirm,     \* {} or the stored Confirmation: [key, front, back]
  chat,        \* messages with buttons: [kind, ref, fronts, back]
  ledger,      \* CallbackLedger: the callback ids handled since the start
  tasks,       \* back generations awaited: [for, ref, front, back]
  broken,      \* the items session is left in a failed transaction: every
               \* later use raises, nobody rolls back
  applied,     \* ghost: buttons that have had their effect, restarts or not
  twice,       \* ghost: buttons that have had it again
  refused,     \* ghost: buttons whose press was answered without effect
  rejected,    \* ghost: keys of confirmations whose regeneration has ended
  faults       \* ghost: faults so far

store  == <<candidates, confirm>>
ghosts == <<applied, twice, refused, rejected>>
vars   == <<rows, store, chat, ledger, tasks, broken, ghosts, faults>>
-----------------------------------------------------------------------------
(* Messages and their buttons *)

\* The buttons under a message, one set per front.  Each has a [Skip] too: see
\* Skip.
Labels ==
  [candidates  |-> {"add"},
   confirm     |-> {"save", "regen"},
   boost       |-> {"boost"},
   retry_add   |-> {"add"},
   retry_regen |-> {"regen"}]

\* A button is <<message, label, front>>; that triple is also its callback id.
Buttons ==
  UNION {{<<m, l, f>> : l \in Labels[chat[m].kind], f \in chat[m].fronts} : m \in DOMAIN chat}

Message(b) == chat[b[1]]

NextRef == Len(chat) + 1

Fault == faults < MaxFaults /\ faults' = faults + 1

\* message.answer with buttons: delivered, or the call fails; a chat at its
\* bound loses the message.
Answer(kind, ref, fs, back) ==
  \/ /\ Len(chat) < MaxChat
     /\ chat' = Append(chat, [kind |-> kind, ref |-> ref, fronts |-> fs, back |-> back])
     /\ UNCHANGED faults
  \/ /\ IF Len(chat) = MaxChat THEN UNCHANGED faults ELSE Fault
     /\ UNCHANGED chat

\* Mutant: fronts are compared as they are written.
find_by_front_Exact(f) == {i \in DOMAIN rows : rows[i].front = f}

\* ItemRepository.find_by_front: ids of the rows with that normal form.
find_by_front(f) ==
  {i \in DOMAIN rows : normalize_front[rows[i].front] = normalize_front[f]}

\* Mutant: the id is not recorded.
first_seen_Forgets(b) == b \in Buttons \ ledger /\ UNCHANGED ledger

\* handle_callback up to its dispatch.
first_seen(b) == b \in Buttons \ ledger /\ ledger' = ledger \cup {b}

\* The press reached its handler's effect.
Applied(b) ==
  /\ applied' = applied \cup {b}
  /\ twice' = twice \cup ({b} \cap applied)
  /\ UNCHANGED <<refused, rejected>>

Refused(b) == refused' = refused \cup {b} /\ UNCHANGED <<applied, twice, rejected>>

\* The stored entry the button refers to, if there is one.
Candidate(b) == {c \in candidates : c.ref = Message(b).ref /\ b[3] \in c.fronts}
Confirmed(b) == {c \in confirm : c.key = Message(b).ref}
-----------------------------------------------------------------------------
(* Texts and photos *)

\* Mutant: new candidates are added to the ones stored.
_store_candidates_Merges(ref, fs) ==
  candidates' = candidates \cup {[ref |-> ref, fronts |-> fs]}

\* The candidates of an earlier message, if any, are replaced.
_store_candidates(ref, fs) == candidates' = {[ref |-> ref, fronts |-> fs]}

\* handle_text and handle_photo at the LLM's answer: what they do before it
\* leaves nothing the answer depends on.  An LLMError, or no candidates, is a
\* message without buttons and changes nothing.
ExtractionReturns ==
  /\ \E fs \in (SUBSET Fronts) \ {{}} :
       /\ _store_candidates(NextRef, fs)
       /\ Answer("candidates", NextRef, fs, NoBack)
  /\ UNCHANGED <<rows, confirm, ledger, tasks, broken, ghosts>>
-----------------------------------------------------------------------------
(* Buttons *)

\* A word that is known already is offered for a boost.
OfferBoost(f) == Answer("boost", 0, {f}, NoBack)

\* _handle_add up to the LLM.
_handle_add(b) ==
  /\ first_seen(b)
  /\ b[2] = "add"
  /\ Candidate(b) # {}
  /\ ~broken
  /\ Applied(b)
  /\ IF find_by_front(b[3]) # {}
     THEN OfferBoost(b[3]) /\ UNCHANGED tasks
     ELSE /\ tasks' = tasks \cup {[for |-> "add", ref |-> Message(b).ref,
                                     front |-> b[3], back |-> NoBack]}
          /\ UNCHANGED <<chat, faults>>
  /\ UNCHANGED <<rows, store, broken>>

\* _handle_regen up to the LLM; the key is looked at here and not again.
_handle_regen(b) ==
  /\ first_seen(b)
  /\ b[2] = "regen"
  /\ \E c \in Confirmed(b) :
       tasks' = tasks \cup {[for |-> "regen", ref |-> c.key,
                               front |-> c.front, back |-> c.back]}
  /\ Applied(b)
  /\ UNCHANGED <<rows, store, chat, broken, faults>>

\* Mutant: a regenerated card keeps its key.
ConfirmWith_SameKey(t, back) ==
  LET key == IF t.for = "regen" THEN t.ref ELSE NextRef
  IN  /\ confirm' = {[key |-> key, front |-> t.front, back |-> back]}
      /\ Answer("confirm", key, {t.front}, back)

\* The new card replaces whatever confirmation is stored by now.
ConfirmWith(t, back) ==
  /\ confirm' = {[key |-> NextRef, front |-> t.front, back |-> back]}
  /\ Answer("confirm", NextRef, {t.front}, back)

Rejected(t) ==
  /\ rejected' = rejected \cup (IF t.for = "regen" THEN {t.ref} ELSE {})
  /\ UNCHANGED <<applied, twice, refused>>

\* generate_back returns: the card is shown with Save, Regenerate, Skip.
GenerationReturns(t) ==
  /\ \E back \in Backs : ConfirmWith(t, back)
  /\ tasks' = tasks \ {t}
  /\ Rejected(t)
  /\ UNCHANGED <<rows, candidates, ledger, broken>>

\* generate_back raises LLMError in _handle_add: a retry bound to the token.
AddFails(t) ==
  /\ t.for = "add"
  /\ tasks' = tasks \ {t}
  /\ Answer("retry_add", t.ref, {t.front}, NoBack)
  /\ UNCHANGED <<rows, store, ledger, broken, ghosts>>

\* Mutant: the key is not rotated.
RegenFails_SameKey(t) ==
  /\ t.for = "regen"
  /\ tasks' = tasks \ {t}
  /\ confirm' = {[key |-> t.ref, front |-> t.front, back |-> t.back]}
  /\ Answer("retry_regen", t.ref, {t.front}, NoBack)
  /\ Rejected(t)
  /\ UNCHANGED <<rows, candidates, ledger, broken>>

\* ... in _handle_regen: the rejected card is stored again under a new key,
\* which only the retry button carries.
RegenFails(t) ==
  /\ t.for = "regen"
  /\ tasks' = tasks \ {t}
  /\ confirm' = {[key |-> NextRef, front |-> t.front, back |-> t.back]}
  /\ Answer("retry_regen", NextRef, {t.front}, NoBack)
  /\ Rejected(t)
  /\ UNCHANGED <<rows, candidates, ledger, broken>>

\* Mutant: the confirmation stays stored after it has been saved.
SaveSucceeds_Keeps(b) ==
  /\ \E c \in Confirmed(b) : rows' = Append(rows, [front |-> c.front, back |-> c.back])
  /\ Applied(b)
  /\ UNCHANGED <<confirm, chat, broken, faults>>

SaveSucceeds(b) ==
  /\ \E c \in Confirmed(b) : rows' = Append(rows, [front |-> c.front, back |-> c.back])
  /\ confirm' = {}
  /\ Applied(b)
  /\ UNCHANGED <<chat, broken, faults>>

\* Known by now: the boost offer; the confirmation stays.
SaveIsDuplicate(b) ==
  /\ OfferBoost(b[3])
  /\ Refused(b)
  /\ UNCHANGED <<rows, confirm, broken>>

\* `except Exception`: a short message without buttons; the id is spent, the
\* confirmation stays, and nobody rolls the session back.
SaveRaises(b) ==
  /\ broken' = TRUE
  /\ Refused(b)
  /\ UNCHANGED <<rows, confirm, chat>>

\* _handle_save.  The duplicate check and the INSERT are one step, so the UNIQUE
\* constraint (the IntegrityError branch) has nothing to catch.
_handle_save(b) ==
  /\ first_seen(b)
  /\ b[2] = "save"
  /\ Confirmed(b) # {}
  /\ \/ broken /\ SaveRaises(b) /\ UNCHANGED faults
     \/ ~broken /\ Fault /\ SaveRaises(b)
     \/ ~broken /\ find_by_front(b[3]) # {} /\ SaveIsDuplicate(b)
     \/ ~broken /\ find_by_front(b[3]) = {} /\ SaveSucceeds(b)
  /\ UNCHANGED <<candidates, tasks>>

\* The [Skip] of message m drops whatever confirmation is stored: all [Skip]s
\* carry NO_PAYLOAD.  Its id is not tracked: a replay does nothing, or what the
\* [Skip] of another message does.
Skip(m) ==
  /\ confirm # {}
  /\ confirm' = {}
  /\ UNCHANGED <<rows, candidates, chat, ledger, tasks, broken, ghosts, faults>>

\* _handle_boost: ItemRepository.boost resets the schedule of the card (CardLife)
\* and leaves front and back alone.
_handle_boost(b) ==
  /\ first_seen(b)
  /\ b[2] = "boost"
  /\ ~broken
  /\ \/ Applied(b) /\ UNCHANGED <<broken, faults>>
     \/ Fault /\ broken' = TRUE /\ Refused(b)
  /\ UNCHANGED <<rows, store, chat, tasks>>

\* The entry the button refers to is not stored (NOPE): only the id is spent.
StaleButton(b) ==
  /\ first_seen(b)
  /\ \/ b[2] = "add" /\ Candidate(b) = {}
     \/ b[2] \in {"save", "regen"} /\ Confirmed(b) = {}
  /\ UNCHANGED <<rows, store, chat, tasks, broken, ghosts, faults>>

\* callback.message is None, or the broken session raises out of the handler:
\* the id is spent on a button that still had its use.
PressWasted(b) ==
  /\ first_seen(b)
  /\ \/ Fault
     \/ broken /\ b[2] \in {"add", "boost"} /\ UNCHANGED faults
  /\ Refused(b)
  /\ UNCHANGED <<rows, store, chat, tasks, broken>>
-----------------------------------------------------------------------------
(* The environment *)

\* ContextStore entries expire after two hours; get and pop then see nothing.
Expire ==
  /\ \/ candidates # {} /\ candidates' = {} /\ UNCHANGED confirm
     \/ confirm # {} /\ confirm' = {} /\ UNCHANGED candidates
  /\ UNCHANGED <<rows, chat, ledger, tasks, broken, ghosts, faults>>

\* Store, ledger, tasks and sessions live in the process; rows and the chat
\* survive it.
Restart ==
  /\ Fault
  /\ candidates' = {} /\ confirm' = {}
  /\ ledger' = {} /\ tasks' = {}
  /\ broken' = FALSE
  /\ UNCHANGED <<rows, chat, ghosts>>

Init ==
  /\ rows = <<>>
  /\ candidates = {} /\ confirm = {}
  /\ chat = <<>> /\ ledger = {}
  /\ tasks = {}
  /\ broken = FALSE
  /\ applied = {} /\ twice = {} /\ refused = {} /\ rejected = {}
  /\ faults = 0

Next ==
  \/ ExtractionReturns
  \/ \E t \in tasks : GenerationReturns(t) \/ AddFails(t) \/ RegenFails(t)
  \/ \E b \in Buttons :
       \/ _handle_add(b) \/ _handle_save(b) \/ _handle_regen(b)
       \/ _handle_boost(b) \/ StaleButton(b) \/ PressWasted(b)
  \/ \E m \in DOMAIN chat : Skip(m)
  \/ Expire \/ Restart

Spec == Init /\ [][Next]_vars
-----------------------------------------------------------------------------
(* Properties *)

Refs == Nat \ {0}

TypeOK ==
  /\ rows \in Seq([front : Fronts, back : Backs])
  /\ \A c \in candidates : /\ c.ref \in Refs
                           /\ c.fronts \in (SUBSET Fronts) \ {{}}
  /\ \A c, d \in candidates : c = d
  /\ \A c \in confirm : c.key \in Refs /\ c.front \in Fronts /\ c.back \in Backs
  /\ \A c, d \in confirm : c = d
  /\ ledger \subseteq Buttons
  /\ \A t \in tasks : /\ t.for \in {"add", "regen"} /\ t.ref \in Refs
                      /\ t.front \in Fronts
                      /\ t.back \in Backs <=> t.for = "regen"
  /\ broken \in BOOLEAN
  /\ applied \subseteq Buttons /\ twice \subseteq applied
  /\ refused \subseteq Buttons
  /\ rejected \subseteq Refs
  /\ faults \in Nat

(***************************************************************************)
(* What is saved is what was on the message whose [Save] was pressed: the  *)
(* store is read under a key, after regenerations, other Adds and expiry   *)
(* (learning-items "Confirm back"; the key of state.Confirmation).         *)
(***************************************************************************)
SavedIsWhatWasShown ==
  [][Len(rows') > Len(rows) =>
       LET r == rows'[Len(rows')]
       IN  \E b \in ledger' \ ledger :
             /\ b[2] = "save"
             /\ Message(b).fronts = {r.front} /\ Message(b).back = r.back]_vars

(***************************************************************************)
(* Once the regeneration of a card has ended, well or not, that card is    *)
(* not saved any more by its own [Save] (_retry_markup, _handle_regen).    *)
(***************************************************************************)
RejectedNeverSaved ==
  [][Len(rows') > Len(rows) =>
       \A b \in ledger' \ ledger : Message(b).ref \notin rejected]_vars

(***************************************************************************)
(* No two cards of the user have the same normal form, however many [Save]s*)
(* of spellings of one word race (the UNIQUE constraint of db/models.py is *)
(* never what keeps them apart).                                           *)
(***************************************************************************)
OneCardPerWord ==
  \A i, j \in DOMAIN rows :
    normalize_front[rows[i].front] = normalize_front[rows[j].front] => i = j

(***************************************************************************)
(* As long as a confirmation is stored, the message that shows it offers a *)
(* way on: [Save], or [Try again] once its regeneration failed, has not    *)
(* been used up, unless a press of it was refused.                         *)
(***************************************************************************)
ConfirmationIsUsable ==
  \A c \in confirm, b \in ledger :
    /\ Message(b).ref = c.key
    /\ \/ Message(b).kind = "confirm" /\ b[2] = "save"
       \/ Message(b).kind = "retry_regen" /\ b[2] = "regen"
    => b \in refused \/ \E t \in tasks : t.for = "regen" /\ t.ref = c.key

(***************************************************************************)
(* Over double taps, redeliveries and restarts no Add, Save or Regenerate  *)
(* button has its effect twice: a restart empties the ledger, but with it  *)
(* the store those buttons refer to ("Callback idempotency").              *)
(***************************************************************************)
NoReplayedEffect == \A b \in twice : b[2] = "boost"

(***************************************************************************)
(* The same for Boost, as the telegram-bot spec has it.                    *)
(***************************************************************************)
BoostOnce == \A b \in twice : b[2] # "boost"

(***************************************************************************)
(* A button under a card binds to exactly that card (_confirmation_markup):*)
(* its [Skip] drops no other confirmation.                                 *)
(***************************************************************************)
SkipBindsToItsCard ==
  [][\A m \in DOMAIN chat, c \in confirm :
       Skip(m) /\ chat[m].kind = "confirm" => chat[m].ref = c.key]_vars

(***************************************************************************)
(* The flow keeps the promise of Dictionary: on offer is the stored        *)
(* confirmation whose message the user has, with its [Save].               *)
(***************************************************************************)
Offered ==
  {[id |-> c.key, front |-> c.front, back |-> c.back] :
     c \in {d \in confirm : d.key \in DOMAIN chat /\ chat[d.key].kind = "confirm"}}

Promise == INSTANCE Dictionary WITH
  cards <- {rows[i] : i \in DOMAIN rows},
  offer <- Offered,
  made  <- {m \in DOMAIN chat : chat[m].kind = "confirm"}

ImplementsDictionary == Promise!Spec
=============================================================================
