--------------------------- MODULE OnboardingProofs ---------------------------
(***************************************************************************)
(* Proofs about Onboarding, for any texts, languages and number of faults. *)
(***************************************************************************)
EXTENDS Onboarding, TLAPS

\* The question is sent by a step that finds onboarding_asked unset, so its
\* buttons and its open entry in the store come from one and the same send;
\* a reply closes it for good, while what is no reply leaves it open.
IInv ==
  /\ TypeOK
  /\ questions # 0 => onboarding_asked
  /\ AskedOnce
  /\ pending_lang => since \subseteq {"review", "other"}
  /\ pending_lang => pressed = {}
  /\ \A b \in pressed : b[2] = "skip" \/ target_lang = b[2]

LEMMA InitInductive == Init => IInv
<1> SUFFICES ASSUME Init PROVE IInv
  OBVIOUS
<1>1. target_lang \in LANG_CODES
  BY LanguageAssumption DEF Init
<1>2. questions \in Nat /\ questions <= 1 /\ ~(questions # 0) /\ faults \in Nat
  BY DEF Init
<1>3. /\ known \in BOOLEAN /\ onboarding_asked \in BOOLEAN /\ pending_lang \in BOOLEAN
      /\ broken \in BOOLEAN /\ since \subseteq Kinds /\ chosen \in BOOLEAN /\ ~pending_lang
  BY DEF Init, Kinds
<1>4. ledger = {} /\ pressed = {}
  BY DEF Init
<1> QED
  BY <1>1, <1>2, <1>3, <1>4 DEF IInv, TypeOK, AskedOnce

LEMMA ButtonPayload ==
  ASSUME NEW b \in Buttons
  PROVE  b[2] \in {"en", "skip"}
  BY DEF Buttons, DefaultLang

(***************************************************************************)
(* A question more in the chat leaves the buttons that are there.          *)
(***************************************************************************)
LEMMA ButtonsStay ==
  ASSUME questions \in Nat, questions' \in Nat, questions <= questions'
  PROVE  Buttons \subseteq Buttons'
  BY DEF Buttons

\* While no question is in the chat there is no button.
LEMMA NoButtonYet ==
  ASSUME questions = 0
  PROVE  Buttons = {}
  BY DEF Buttons

LEMMA ParsedIsACode ==
  ASSUME NEW t, _parse_lang_code(t) # NoLang
  PROVE  _parse_lang_code(t) \in LANG_CODES
  BY LanguageAssumption DEF _parse_lang_code

(***************************************************************************)
(* One step per action; the actions that leave the question alone share    *)
(* the facts about buttons.                                                *)
(***************************************************************************)
LEMMA StepInductive == IInv /\ [Next]_vars => IInv'
<1> SUFFICES ASSUME IInv, [Next]_vars PROVE IInv'
  OBVIOUS
<1> USE DEF IInv, TypeOK, AskedOnce
<1>1. CASE handle_start
  <2>1. questions = 0 /\ pressed = {} /\ ledger = {}
    BY <1>1, NoButtonYet DEF handle_start
  <2>2. questions' \in {0, 1} /\ faults' \in Nat
    BY <1>1, <2>1 DEF handle_start, SendQuestion, Fault
  <2>3. /\ known' \in BOOLEAN /\ onboarding_asked' /\ onboarding_asked' \in BOOLEAN
        /\ pending_lang' \in BOOLEAN /\ since' = {}
        /\ target_lang' = target_lang /\ broken' = broken /\ chosen' = chosen
        /\ pressed' = {} /\ ledger' = {}
    BY <1>1, <2>1 DEF handle_start, ensure_profile
  <2>4. questions' \in Nat /\ questions' <= 1
    BY <2>2
  <2> QED
    BY <2>2, <2>3, <2>4
<1>2. ASSUME NEW t \in Texts, LanguageNamed(t) PROVE IInv'
  <2>1. target_lang' \in LANG_CODES
    BY <1>2, ParsedIsACode DEF LanguageNamed
  <2>2. pressed = {} /\ Buttons' = Buttons
    BY <1>2 DEF LanguageNamed, Buttons
  <2> QED
    BY <1>2, <2>1, <2>2 DEF LanguageNamed, ensure_profile, Kinds
<1>3. ASSUME NEW t \in Texts, WordSent(t) PROVE IInv'
  <2>1. Buttons' = Buttons
    BY <1>3 DEF WordSent, Buttons
  <2> QED
    BY <1>3, <2>1 DEF WordSent, ensure_profile, Kinds
<1>10. CASE ReviewAsked \/ OtherMessage
  <2>1. /\ known' \in BOOLEAN /\ since' \subseteq Kinds
        /\ since \subseteq {"review", "other"} => since' \subseteq {"review", "other"}
    BY <1>10 DEF ReviewAsked, OtherMessage, ensure_profile, Kinds
  <2>2. UNCHANGED <<target_lang, onboarding_asked, memory, questions, chosen, pressed, faults>>
    BY <1>10 DEF ReviewAsked, OtherMessage
  <2>3. Buttons' = Buttons
    BY <2>2 DEF Buttons
  <2> QED
    BY <2>1, <2>2, <2>3 DEF memory
<1>4. CASE Expire \/ Restart
  <2>1. Buttons' = Buttons /\ faults' = faults /\ questions' = questions
    BY <1>4 DEF Expire, Restart, Buttons
  <2>2. pending_lang' => pending_lang
    BY <1>4 DEF Expire, Restart, memory
  <2>3. /\ target_lang' = target_lang /\ pressed' = pressed
        /\ onboarding_asked' = onboarding_asked /\ since' = since /\ chosen' = chosen
    BY <1>4 DEF Expire, Restart, row, ghosts
  <2>4. /\ known' \in BOOLEAN /\ pending_lang' \in BOOLEAN /\ broken' \in BOOLEAN
        /\ ledger' \subseteq Buttons
    BY <1>4 DEF Expire, Restart, row, memory
  <2> QED
    BY <2>1, <2>2, <2>3, <2>4
<1>9. CASE CommitFails
  <2>1. Buttons' = Buttons
    BY <1>9 DEF CommitFails, Buttons
  <2>2. faults' \in Nat
    BY <1>9 DEF CommitFails, Fault
  <2> QED
    BY <1>9, <2>1, <2>2 DEF CommitFails, ghosts
<1>5. ASSUME NEW b \in Buttons, MessageGone(b) PROVE IInv'
  <2>1. Buttons' = Buttons
    BY <1>5 DEF MessageGone, Buttons
  <2> QED
    BY <1>5, <2>1 DEF MessageGone, first_seen, ensure_profile, ghosts
<1>6. ASSUME NEW b \in Buttons, _handle_lang(b) PROVE IInv'
  <2>1. Buttons' = Buttons
    BY <1>6 DEF _handle_lang, Buttons
  <2>2. b[2] \in {"en", "skip"}
    BY ButtonPayload
  <2>3. target_lang' \in LANG_CODES
    BY <1>6, <2>2, LanguageAssumption DEF _handle_lang, DefaultLang
  <2>4. ASSUME NEW c \in pressed' PROVE c[2] = "skip" \/ target_lang' = c[2]
    <3>1. c \in Buttons /\ c[2] \in {"en", "skip"}
      BY <1>6, <2>4, ButtonPayload DEF _handle_lang
    <3> QED
      BY <1>6, <2>2, <2>4, <3>1 DEF _handle_lang
  <2> QED
    BY <1>6, <2>1, <2>3, <2>4 DEF _handle_lang, first_seen, ensure_profile, Kinds
<1>7. ASSUME NEW b \in Buttons, LangFails(b) PROVE IInv'
  <2>1. Buttons' = Buttons
    BY <1>7 DEF LangFails, Buttons
  <2>2. faults' \in Nat
    BY <1>7 DEF LangFails, Fault
  <2> QED
    BY <1>7, <2>1, <2>2 DEF LangFails, first_seen, ensure_profile, Kinds
<1>8. CASE UNCHANGED vars
  <2>1. Buttons' = Buttons
    BY <1>8 DEF vars, Buttons
  <2> QED
    BY <1>8, <2>1 DEF vars, row, memory, ghosts
<1> QED
  BY <1>1, <1>2, <1>3, <1>4, <1>5, <1>6, <1>7, <1>8, <1>9, <1>10
     DEF Next, Handle, handle_text, Raises

(***************************************************************************)
(* What a step may not do, from the invariant.                             *)
(***************************************************************************)
LEMMA StepReply ==
  IInv /\ [Next]_vars
    => [target_lang' # target_lang /\ ledger' = ledger => since \subseteq {"review", "other"}]_vars
<1> SUFFICES ASSUME IInv, [Next]_vars, target_lang' # target_lang, ledger' = ledger
             PROVE  since \subseteq {"review", "other"}
  OBVIOUS
<1>1. CASE \E t \in Texts : LanguageNamed(t)
  BY <1>1 DEF LanguageNamed, IInv
<1>2. ASSUME NEW b \in Buttons, first_seen(b) PROVE FALSE
  BY <1>2 DEF first_seen
<1> QED
  BY <1>1, <1>2
     DEF Next, Handle, handle_text, handle_start, WordSent, ReviewAsked, OtherMessage, CommitFails, Raises,
         MessageGone, _handle_lang, LangFails, Expire, Restart, vars, row

LEMMA StepReplay ==
  IInv /\ [Next]_vars
    => [\A b \in pressed : b \in ledger' \ ledger => target_lang' = target_lang]_vars
<1> SUFFICES ASSUME IInv, [Next]_vars, NEW b \in pressed, b \in ledger' \ ledger
             PROVE  target_lang' = target_lang
  OBVIOUS
<1>1. ASSUME NEW c \in Buttons, _handle_lang(c) PROVE target_lang' = target_lang
  <2>1. b = c
    BY <1>1 DEF _handle_lang, first_seen
  <2> QED
    BY <1>1, <2>1 DEF _handle_lang, IInv
<1> QED
  BY <1>1
     DEF Next, Handle, handle_text, handle_start, LanguageNamed, WordSent, ReviewAsked,
         OtherMessage, CommitFails, Raises, MessageGone, LangFails, Expire, Restart, vars, row, memory
-----------------------------------------------------------------------------
(***************************************************************************)
(* The inductive invariant of onboarding: one question, open only until    *)
(* a reply, whose pressed          buttons agree with the stored language.  *)
(***************************************************************************)
THEOREM Inductive == Spec => []IInv
  BY InitInductive, StepInductive, PTL DEF Spec

(***************************************************************************)
(* Every variable of onboarding keeps its type.                            *)
(***************************************************************************)
THEOREM TypeCorrect == Spec => []TypeOK
<1>1. IInv => TypeOK
  BY DEF IInv
<1> QED
  BY <1>1, Inductive, PTL

(***************************************************************************)
(* The question is in the chat at most once.                               *)
(***************************************************************************)
THEOREM QuestionOnce == Spec => []AskedOnce
<1>1. IInv => AskedOnce
  BY DEF IInv
<1> QED
  BY <1>1, Inductive, PTL

(***************************************************************************)
(* After a word, an answer or a press no text changes the language; before *)
(* one, requests for a review, photos and commands leave the question open.*)
(***************************************************************************)
THEOREM ReplyCloses == Spec => ReplyClosesQuestion
  BY Inductive, StepReply, PTL DEF Spec, ReplyClosesQuestion

(***************************************************************************)
(* A language button delivered again changes nothing.                      *)
(***************************************************************************)
THEOREM Replay == Spec => ReplayHarmless
  BY Inductive, StepReplay, PTL DEF Spec, ReplayHarmless
=============================================================================
