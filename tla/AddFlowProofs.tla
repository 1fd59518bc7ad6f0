----------------------------- MODULE AddFlowProofs -----------------------------
(***************************************************************************)
(* Proofs about AddFlow, for any words, translations, normal forms, and    *)
(* any number of messages and faults.                                      *)
(***************************************************************************)
EXTENDS AddFlow, TLAPS

Kinds == {"candidates", "confirm", "boost", "retry_add", "retry_regen"}

Msg == [kind : Kinds, ref : Nat, fronts : SUBSET Fronts, back : Backs \cup {NoBack}]

\* What a message at place m refers to: itself, but a retry of an Add refers to
\* candidates sent before it.
Placed(m) ==
  /\ chat[m].kind \in {"candidates", "confirm", "retry_regen"} => chat[m].ref = m
  /\ chat[m].kind = "retry_add" => chat[m].ref \in 1 .. m

ChatInv == chat \in Seq(Msg) /\ \A m \in DOMAIN chat : Placed(m)

\* A task holds on to a message that is there.
TaskInv == \A t \in tasks : t.ref \in 1 .. Len(chat)

\* The stored confirmation is the card on the message with its key, if that
\* message was delivered, and was not rejected.
StoreInv ==
  /\ rejected \subseteq 1 .. Len(chat)
  /\ \A c \in confirm :
       /\ c.key \notin rejected
       /\ \A m \in DOMAIN chat :
            m = c.key /\ chat[m].kind = "confirm" =>
              chat[m].fronts = {c.front} /\ chat[m].back = c.back

\* A button that has had its effect is in the ledger, or what it refers to is
\* no longer stored; it never comes back, since every new reference is new.
Spent ==
  \A b \in applied :
    \/ b \in ledger
    \/ b[2] = "boost"
    \/ b[2] = "add" /\ Candidate(b) = {}
    \/ b[2] \in {"save", "regen"} /\ Confirmed(b) = {}

IInv ==
  /\ TypeOK /\ ChatInv /\ TaskInv /\ StoreInv
  /\ Spent /\ NoReplayedEffect /\ ConfirmationIsUsable
-----------------------------------------------------------------------------
(* The chat *)

\* How a step may change the chat: one message more at most.
Grows(kind, ref, fs, back) ==
  /\ chat' \in Seq(Msg)
  /\ Len(chat') \in {Len(chat), Len(chat) + 1}
  /\ \A m \in DOMAIN chat : chat'[m] = chat[m]
  /\ Len(chat') = Len(chat) + 1 =>
       chat'[Len(chat) + 1] = [kind |-> kind, ref |-> ref, fronts |-> fs, back |-> back]

LEMMA AnswerGrows ==
  ASSUME chat \in Seq(Msg), faults \in Nat,
         NEW kind \in Kinds, NEW ref \in Nat, NEW fs \in SUBSET Fronts,
         NEW back \in Backs \cup {NoBack},
         Answer(kind, ref, fs, back)
  PROVE  Grows(kind, ref, fs, back) /\ faults' \in Nat
<1> DEFINE m == [kind |-> kind, ref |-> ref, fronts |-> fs, back |-> back]
<1>1. m \in Msg
  BY DEF Msg
<1>2. faults' \in Nat
  BY DEF Answer, Fault
<1>3. CASE chat' = Append(chat, m)
  BY <1>1, <1>2, <1>3 DEF Grows
<1>4. CASE UNCHANGED chat
  BY <1>2, <1>4 DEF Grows
<1> QED
  BY <1>3, <1>4 DEF Answer

LEMMA SameChatGrows ==
  ASSUME chat \in Seq(Msg), UNCHANGED chat, NEW kind, NEW ref, NEW fs, NEW back
  PROVE  Grows(kind, ref, fs, back)
  BY DEF Grows

\* A button tells on which message it is.
LEMMA ButtonFields ==
  ASSUME chat \in Seq(Msg), NEW b \in Buttons
  PROVE  /\ b[1] \in 1 .. Len(chat) /\ b[3] \in chat[b[1]].fronts
         /\ b[2] \in {"add", "save", "regen", "boost"}
         /\ b[2] = "save" => chat[b[1]].kind = "confirm"
         /\ b[2] = "regen" => chat[b[1]].kind \in {"confirm", "retry_regen"}
         /\ b[2] = "add" => chat[b[1]].kind \in {"candidates", "retry_add"}
<1>1. PICK m \in DOMAIN chat : \E l \in Labels[chat[m].kind], f \in chat[m].fronts : b = <<m, l, f>>
  BY DEF Buttons
<1>2. b[1] = m /\ b[2] \in Labels[chat[m].kind] /\ b[3] \in chat[m].fronts
  BY <1>1
<1>3. m \in 1 .. Len(chat) /\ chat[m] \in Msg
  OBVIOUS
<1>4. chat[m].kind \in Kinds
  BY <1>3 DEF Msg
<1> QED
  BY <1>2, <1>3, <1>4 DEF Labels, Kinds

\* The buttons in the chat stay there.
LEMMA ButtonsStay ==
  ASSUME chat \in Seq(Msg), NEW kind, NEW ref, NEW fs, NEW back, Grows(kind, ref, fs, back)
  PROVE  Buttons \subseteq Buttons'
<1> SUFFICES ASSUME NEW m \in DOMAIN chat, NEW l \in Labels[chat[m].kind], NEW f \in chat[m].fronts
             PROVE  <<m, l, f>> \in Buttons'
  BY DEF Buttons
<1>1. m \in DOMAIN chat' /\ chat'[m] = chat[m]
  BY DEF Grows
<1> QED
  BY <1>1 DEF Buttons, Labels
-----------------------------------------------------------------------------
(* What a step may do to the parts of IInv *)

\* The chat and what its messages refer to.
LEMMA ChatKept ==
  ASSUME ChatInv, NEW kind, NEW ref, NEW fs, NEW back, Grows(kind, ref, fs, back),
         kind = "retry_add" => ref \in 1 .. Len(chat),
         kind \in {"candidates", "confirm", "retry_regen"} => ref = NextRef
  PROVE  ChatInv'
<1> SUFFICES ASSUME NEW m \in DOMAIN chat'
             PROVE  Placed(m)'
  BY DEF ChatInv, Grows
<1>1. CASE m \in DOMAIN chat
  BY <1>1 DEF Grows, ChatInv, Placed
<1>2. CASE m \notin DOMAIN chat
  <2>1. Len(chat') = Len(chat) + 1 /\ m = Len(chat) + 1
    BY <1>2 DEF Grows, ChatInv
  <2> QED
    BY <2>1 DEF Grows, Placed, NextRef
<1> QED
  BY <1>1, <1>2

\* A stored entry is dropped or kept, or it is under the new reference.
Fresh == \A c \in confirm' : c \in confirm \/ c.key = NextRef
FreshCandidates == \A c \in candidates' : c \in candidates \/ c.ref = NextRef

\* The messages a button of the chat refers to are there.
LEMMA RefIsOld ==
  ASSUME ChatInv, NEW b \in Buttons, b[2] \in {"add", "save", "regen"}
  PROVE  /\ Message(b).ref \in 1 .. Len(chat)
         /\ b[2] # "add" => Message(b).ref = b[1]
<1>1. b[1] \in DOMAIN chat /\ Placed(b[1]) /\ b[1] \in 1 .. Len(chat)
  BY ButtonFields DEF ChatInv
<1>2. /\ b[2] = "save" => chat[b[1]].kind = "confirm"
      /\ b[2] = "regen" => chat[b[1]].kind \in {"confirm", "retry_regen"}
      /\ b[2] = "add" => chat[b[1]].kind \in {"candidates", "retry_add"}
  BY ButtonFields DEF ChatInv
<1> QED
  BY <1>1, <1>2 DEF Placed, Message

\* What an old button refers to does not come back.
LEMMA StaleStays ==
  ASSUME ChatInv, NEW b \in Buttons, NEW kind, NEW ref, NEW fs, NEW back,
         Grows(kind, ref, fs, back)
  PROVE  /\ Message(b)' = Message(b)
         /\ b[2] = "add" /\ FreshCandidates /\ Candidate(b) = {} => Candidate(b)' = {}
         /\ b[2] \in {"save", "regen"} /\ Fresh /\ Confirmed(b) = {} => Confirmed(b)' = {}
<1>1. Message(b)' = Message(b)
  BY ButtonFields DEF ChatInv, Grows, Message
<1>2. b[2] \in {"add", "save", "regen"} => Message(b).ref # NextRef
  BY RefIsOld DEF NextRef, ChatInv
<1>3. ASSUME b[2] = "add", FreshCandidates, Candidate(b) = {}
      PROVE  Candidate(b)' = {}
  BY <1>1, <1>2, <1>3 DEF Candidate, FreshCandidates
<1>4. ASSUME b[2] \in {"save", "regen"}, Fresh, Confirmed(b) = {}
      PROVE  Confirmed(b)' = {}
  BY <1>1, <1>2, <1>4 DEF Confirmed, Fresh
<1> QED
  BY <1>1, <1>3, <1>4

\* Buttons that have had their effect stay without one.
LEMMA SpentKept ==
  ASSUME IInv, NEW kind, NEW ref, NEW fs, NEW back, Grows(kind, ref, fs, back),
         Fresh, FreshCandidates,
         applied' \subseteq applied \cup ledger',
         ledger \subseteq ledger' \/ (confirm' = {} /\ candidates' = {})
  PROVE  Spent'
<1> SUFFICES ASSUME NEW b \in applied', b \notin ledger', b[2] # "boost"
             PROVE  \/ b[2] = "add" /\ Candidate(b)' = {}
                    \/ b[2] \in {"save", "regen"} /\ Confirmed(b)' = {}
  BY DEF Spent
<1>1. b \in applied /\ b \in Buttons
  BY DEF IInv, TypeOK
<1>2. b[2] \in {"add", "save", "regen"}
  BY <1>1, ButtonFields DEF IInv, ChatInv
<1>3. CASE b \in ledger
  BY <1>2, <1>3 DEF Candidate, Confirmed
<1>4. CASE b \notin ledger
  <2>1. \/ b[2] = "add" /\ Candidate(b) = {}
        \/ b[2] \in {"save", "regen"} /\ Confirmed(b) = {}
    BY <1>1, <1>4 DEF IInv, Spent
  <2> QED
    BY <1>1, <2>1, StaleStays DEF IInv
<1> QED
  BY <1>3, <1>4

\* The stored confirmation stays what its message shows.
LEMMA StoreKept ==
  ASSUME IInv, NEW kind \in Kinds, NEW ref \in Nat, NEW fs, NEW back,
         Grows(kind, ref, fs, back),
         rejected' \subseteq 1 .. Len(chat'),
         \A c \in confirm' :
           \/ /\ c.key = NextRef
              /\ kind = "confirm" => fs = {c.front} /\ back = c.back
              /\ rejected' \subseteq 1 .. Len(chat)
           \/ c \in confirm /\ kind # "confirm" /\ rejected' = rejected
  PROVE  StoreInv'
<1> SUFFICES ASSUME NEW c \in confirm'
             PROVE  /\ c.key \notin rejected'
                    /\ \A m \in DOMAIN chat' :
                         m = c.key /\ chat'[m].kind = "confirm" =>
                           chat'[m].fronts = {c.front} /\ chat'[m].back = c.back
  BY DEF StoreInv
<1>1. chat \in Seq(Msg) /\ chat' \in Seq(Msg) /\ NextRef = Len(chat) + 1
  BY DEF IInv, ChatInv, Grows, NextRef
<1>2. c.key \notin rejected'
  BY <1>1 DEF IInv, StoreInv
<1>3. ASSUME NEW m \in DOMAIN chat', m = c.key, chat'[m].kind = "confirm"
      PROVE  chat'[m].fronts = {c.front} /\ chat'[m].back = c.back
  <2>1. CASE m \in DOMAIN chat
    <3>1. c.key # NextRef
      BY <1>1, <1>3, <2>1
    <3>2. c \in confirm /\ chat'[m] = chat[m]
      BY <2>1, <3>1 DEF Grows
    <3> QED
      BY <1>3, <2>1, <3>2 DEF IInv, StoreInv
  <2>2. CASE m \notin DOMAIN chat
    <3>1. Len(chat') = Len(chat) + 1 /\ m = Len(chat) + 1
      BY <1>1, <2>2 DEF Grows
    <3> QED
      BY <1>3, <3>1 DEF Grows
  <2> QED
    BY <2>1, <2>2
<1> QED
  BY <1>2, <1>3

\* A press leaves the stored confirmation a way on.
LEMMA UsableKept ==
  ASSUME IInv, NEW kind, NEW ref, NEW fs, NEW back, Grows(kind, ref, fs, back),
         Fresh, refused \subseteq refused',
         \A b \in ledger' :
           \/ b \in ledger
           \/ b \in refused'
           \/ b \in Buttons /\ b[2] \notin {"save", "regen"}
           \/ b \in Buttons /\ Confirmed(b) = {}
           \/ b \in Buttons /\ \E t \in tasks' : t.for = "regen" /\ t.ref = Message(b).ref,
         \/ \A t \in tasks : t.for = "regen" => t \in tasks'
         \/ \A c \in confirm' : c.key = NextRef
  PROVE  ConfirmationIsUsable'
<1> SUFFICES ASSUME NEW c \in confirm', NEW b \in ledger',
                    Message(b)'.ref = c.key,
                    \/ Message(b)'.kind = "confirm" /\ b[2] = "save"
                    \/ Message(b)'.kind = "retry_regen" /\ b[2] = "regen",
                    b \notin refused'
             PROVE  \E t \in tasks' : t.for = "regen" /\ t.ref = c.key
  BY DEF ConfirmationIsUsable
<1>1. b \in Buttons /\ b[2] \in {"save", "regen"} /\ ChatInv
  BY DEF IInv, TypeOK
<1>2. Message(b)' = Message(b) /\ Message(b).ref # NextRef
  BY <1>1, StaleStays, RefIsOld DEF NextRef, ChatInv
<1>3. c \in confirm /\ c.key # NextRef
  BY <1>2 DEF Fresh
<1>4. CASE b \in ledger
  <2>1. \E t \in tasks : t.for = "regen" /\ t.ref = c.key
    BY <1>2, <1>3, <1>4 DEF IInv, ConfirmationIsUsable
  <2> QED
    BY <1>3, <2>1
<1>5. CASE b \notin ledger
  <2>1. Confirmed(b) # {}
    BY <1>2, <1>3 DEF Confirmed
  <2> QED
    BY <1>1, <1>2, <1>5, <2>1
<1> QED
  BY <1>4, <1>5

\* Whatever the chat gains, what is in the ledger and in the ghosts is a button.
LEMMA ButtonTypes ==
  ASSUME ChatInv, NEW kind, NEW ref, NEW fs, NEW back, Grows(kind, ref, fs, back),
         ledger' \subseteq Buttons, applied' \subseteq Buttons, refused' \subseteq Buttons
  PROVE  ledger' \subseteq Buttons' /\ applied' \subseteq Buttons' /\ refused' \subseteq Buttons'
  BY ButtonsStay DEF ChatInv

\* Who holds a task.
LEMMA TasksKept ==
  ASSUME ChatInv, TaskInv, NEW kind, NEW ref, NEW fs, NEW back, Grows(kind, ref, fs, back),
         \A t \in tasks' : t \in tasks \/ t.ref \in 1 .. Len(chat)
  PROVE  TaskInv'
  BY DEF ChatInv, TaskInv, Grows

\* A press that has its effect has it for the first time.
LEMMA PressApplied ==
  ASSUME IInv, NEW b, first_seen(b), Applied(b),
         b[2] = "add" => Candidate(b) # {},
         b[2] \in {"save", "regen"} => Confirmed(b) # {}
  PROVE  /\ b \in Buttons /\ ledger' = ledger \cup {b} /\ ledger' \subseteq Buttons
         /\ applied' \subseteq Buttons /\ applied' \subseteq applied \cup ledger'
         /\ twice' \subseteq applied'
         /\ refused' = refused /\ refused' \subseteq Buttons /\ rejected' = rejected
         /\ NoReplayedEffect'
<1>1. b \in Buttons /\ b \notin ledger /\ ledger' = ledger \cup {b}
  BY DEF first_seen
<1>2. ledger \subseteq Buttons /\ applied \subseteq Buttons /\ twice \subseteq applied
        /\ refused \subseteq Buttons
  BY DEF IInv, TypeOK
<1>3. b \in applied => b[2] = "boost"
  BY <1>1 DEF IInv, Spent
<1>4. NoReplayedEffect'
  BY <1>3 DEF Applied, IInv, NoReplayedEffect
<1> QED
  BY <1>1, <1>2, <1>4 DEF Applied

LEMMA PressRefused ==
  ASSUME IInv, NEW b, first_seen(b), Refused(b)
  PROVE  /\ b \in Buttons /\ ledger' = ledger \cup {b} /\ ledger' \subseteq Buttons
         /\ applied' = applied /\ applied' \subseteq Buttons /\ twice' \subseteq applied'
         /\ refused' = refused \cup {b} /\ refused' \subseteq Buttons /\ rejected' = rejected
         /\ NoReplayedEffect'
<1>1. b \in Buttons /\ ledger' = ledger \cup {b}
  BY DEF first_seen
<1>2. ledger \subseteq Buttons /\ applied \subseteq Buttons /\ twice \subseteq applied
        /\ refused \subseteq Buttons /\ NoReplayedEffect
  BY DEF IInv, TypeOK
<1> QED
  BY <1>1, <1>2 DEF Refused, NoReplayedEffect

\* A step that records nothing about buttons.
LEMMA GhostsKept ==
  ASSUME IInv, UNCHANGED <<ledger, applied, twice, refused>>
  PROVE  /\ ledger' \subseteq Buttons /\ applied' \subseteq Buttons
         /\ twice' \subseteq applied' /\ refused' \subseteq Buttons
         /\ NoReplayedEffect'
  BY DEF IInv, TypeOK, NoReplayedEffect
\* The rejected cards are messages of the chat.
LEMMA RejectedOld ==
  ASSUME ChatInv, StoreInv, NEW kind, NEW ref, NEW fs, NEW back, Grows(kind, ref, fs, back),
         rejected' \subseteq rejected \cup 1 .. Len(chat)
  PROVE  /\ rejected' \subseteq 1 .. Len(chat) /\ rejected' \subseteq 1 .. Len(chat')
         /\ rejected' \subseteq Refs
<1>1. rejected' \subseteq 1 .. Len(chat)
  BY DEF StoreInv
<1>2. Len(chat) \in Nat /\ Len(chat') \in Nat /\ Len(chat) <= Len(chat')
  BY DEF ChatInv, Grows
<1> QED
  BY <1>1, <1>2 DEF Refs
-----------------------------------------------------------------------------
(* The actions *)

LEMMA InitInv == Init => IInv
<1> SUFFICES ASSUME Init PROVE IInv
  OBVIOUS
<1>1. rows \in Seq([front : Fronts, back : Backs]) /\ ChatInv /\ faults \in Nat
  BY DEF Init, ChatInv
<1>2. /\ candidates = {} /\ confirm = {} /\ ledger = {} /\ tasks = {}
      /\ applied = {} /\ twice = {} /\ refused = {} /\ rejected = {} /\ broken = FALSE
  BY DEF Init
<1>3. TypeOK
  BY <1>1, <1>2 DEF TypeOK
<1>4. TaskInv /\ StoreInv /\ Spent /\ NoReplayedEffect /\ ConfirmationIsUsable
  BY <1>2 DEF TaskInv, StoreInv, Spent, NoReplayedEffect, ConfirmationIsUsable
<1> QED
  BY <1>1, <1>3, <1>4 DEF IInv

LEMMA ExtractionInv ==
  ASSUME IInv, ExtractionReturns
  PROVE  IInv'
<1> USE DEF ghosts
<1>1. PICK fs \in (SUBSET Fronts) \ {{}} :
        /\ candidates' = {[ref |-> NextRef, fronts |-> fs]}
        /\ Answer("candidates", NextRef, fs, NoBack)
  BY DEF ExtractionReturns, _store_candidates
<1>2. NextRef \in Refs /\ NextRef \in Nat /\ faults \in Nat /\ ChatInv /\ TaskInv
  BY DEF NextRef, Refs, IInv, TypeOK, ChatInv
<1>3. Grows("candidates", NextRef, fs, NoBack) /\ faults' \in Nat
  BY <1>1, <1>2, AnswerGrows DEF Kinds, ChatInv
<1>4. UNCHANGED <<rows, confirm, ledger, tasks, broken, applied, twice, refused, rejected>>
  BY DEF ExtractionReturns
<1>5. TypeOK'
  <2>1. ledger' \subseteq Buttons' /\ applied' \subseteq Buttons' /\ refused' \subseteq Buttons'
    BY <1>2, <1>3, <1>4, GhostsKept, ButtonTypes
  <2>2. /\ \A c \in candidates' : c.ref \in Refs /\ c.fronts \in (SUBSET Fronts) \ {{}}
        /\ \A c, d \in candidates' : c = d
    BY <1>1, <1>2
  <2> QED
    BY <1>3, <1>4, <2>1, <2>2 DEF IInv, TypeOK
<1>6. ChatInv' /\ TaskInv'
  BY <1>2, <1>3, <1>4, ChatKept, TasksKept
<1>7. StoreInv'
  <2>1. rejected' \subseteq 1 .. Len(chat')
    BY <1>2, <1>3, <1>4, RejectedOld DEF IInv
  <2>2. "candidates" \in Kinds
    BY DEF Kinds
  <2> QED
    BY <1>2, <1>3, <1>4, <2>1, <2>2, StoreKept
<1>8. Spent'
  BY <1>1, <1>3, <1>4, SpentKept DEF Fresh, FreshCandidates
<1>9. ConfirmationIsUsable'
  BY <1>3, <1>4, UsableKept DEF Fresh
<1> QED
  BY <1>4, <1>5, <1>6, <1>7, <1>8, <1>9, GhostsKept DEF IInv

\* A generation has ended: the new confirmation takes the place of the old.
LEMMA ConfirmInv ==
  ASSUME IInv, NEW t \in tasks, NEW card \in Backs, NEW kind \in {"confirm", "retry_regen"},
         NEW fs \in SUBSET Fronts, NEW back \in Backs \cup {NoBack},
         kind = "confirm" => fs = {t.front} /\ back = card,
         confirm' = {[key |-> NextRef, front |-> t.front, back |-> card]},
         Answer(kind, NextRef, fs, back),
         tasks' = tasks \ {t}, Rejected(t),
         UNCHANGED <<rows, candidates, ledger, broken>>
  PROVE  IInv'
<1>1. /\ NextRef \in Refs /\ NextRef \in Nat /\ NextRef = Len(chat) + 1
      /\ faults \in Nat /\ ChatInv /\ TaskInv /\ StoreInv
      /\ t.front \in Fronts /\ kind \in Kinds
  BY DEF NextRef, Refs, IInv, TypeOK, ChatInv, Kinds
<1>2. Grows(kind, NextRef, fs, back) /\ faults' \in Nat
  BY <1>1, AnswerGrows DEF ChatInv
<1>3. UNCHANGED <<applied, twice, refused>> /\ rejected' \subseteq rejected \cup {t.ref}
  BY DEF Rejected
<1>4. rejected' \subseteq rejected \cup 1 .. Len(chat)
  BY <1>1, <1>3 DEF TaskInv
<1>5. /\ rejected' \subseteq 1 .. Len(chat) /\ rejected' \subseteq 1 .. Len(chat')
      /\ rejected' \subseteq Refs
  BY <1>1, <1>2, <1>4, RejectedOld
<1>6. TypeOK'
  <2>1. ledger' \subseteq Buttons' /\ applied' \subseteq Buttons' /\ refused' \subseteq Buttons'
    BY <1>1, <1>2, <1>3, GhostsKept, ButtonTypes
  <2>2. /\ \A c \in confirm' : c.key \in Refs /\ c.front \in Fronts /\ c.back \in Backs
        /\ \A c, d \in confirm' : c = d
    BY <1>1
  <2> QED
    BY <1>2, <1>3, <1>5, <2>1, <2>2 DEF IInv, TypeOK
<1>7. ChatInv'
  BY <1>1, <1>2, ChatKept
<1>8. TaskInv'
  BY <1>1, <1>2, TasksKept
<1>9. StoreInv'
  <2>1. \A c \in confirm' :
          /\ c.key = NextRef
          /\ kind = "confirm" => fs = {c.front} /\ back = c.back
    OBVIOUS
  <2> QED
    BY <1>1, <1>2, <1>5, <2>1, StoreKept
<1>10. Spent'
  BY <1>2, <1>3, SpentKept DEF Fresh, FreshCandidates
<1>11. ConfirmationIsUsable'
  BY <1>2, <1>3, UsableKept DEF Fresh
<1> QED
  BY <1>3, <1>6, <1>7, <1>8, <1>9, <1>10, <1>11, GhostsKept DEF IInv

LEMMA GenerationInv ==
  ASSUME IInv, NEW t \in tasks, GenerationReturns(t)
  PROVE  IInv'
<1>1. t.front \in Fronts
  BY DEF IInv, TypeOK
<1>2. PICK card \in Backs :
        /\ confirm' = {[key |-> NextRef, front |-> t.front, back |-> card]}
        /\ Answer("confirm", NextRef, {t.front}, card)
  BY DEF GenerationReturns, ConfirmWith
<1> QED
  BY <1>1, <1>2, ConfirmInv DEF GenerationReturns

LEMMA RegenFailsInv ==
  ASSUME IInv, NEW t \in tasks, RegenFails(t)
  PROVE  IInv'
<1>1. t.front \in Fronts /\ t.back \in Backs
  BY DEF IInv, TypeOK, RegenFails
<1> QED
  BY <1>1, ConfirmInv DEF RegenFails

LEMMA AddFailsInv ==
  ASSUME IInv, NEW t \in tasks, AddFails(t)
  PROVE  IInv'
<1> USE DEF store, ghosts
<1>1. /\ t.ref \in 1 .. Len(chat) /\ t.ref \in Nat /\ {t.front} \in SUBSET Fronts
      /\ faults \in Nat /\ ChatInv /\ TaskInv /\ StoreInv /\ "retry_add" \in Kinds
  BY DEF IInv, TypeOK, TaskInv, Refs, Kinds
<1>2. Grows("retry_add", t.ref, {t.front}, NoBack) /\ faults' \in Nat
  BY <1>1, AnswerGrows DEF AddFails, ChatInv
<1>3. /\ UNCHANGED <<rows, candidates, confirm, ledger, broken, applied, twice, refused, rejected>>
      /\ tasks' = tasks \ {t} /\ t.for # "regen"
  BY DEF AddFails
<1>4. TypeOK'
  <2>1. ledger' \subseteq Buttons' /\ applied' \subseteq Buttons' /\ refused' \subseteq Buttons'
    BY <1>1, <1>2, <1>3, GhostsKept, ButtonTypes
  <2> QED
    BY <1>2, <1>3, <2>1 DEF IInv, TypeOK
<1>5. ChatInv' /\ TaskInv'
  BY <1>1, <1>2, <1>3, ChatKept, TasksKept
<1>6. StoreInv'
  <2>1. rejected' \subseteq 1 .. Len(chat')
    BY <1>1, <1>2, <1>3, RejectedOld
  <2> QED
    BY <1>1, <1>2, <1>3, <2>1, StoreKept
<1>7. Spent'
  BY <1>2, <1>3, SpentKept DEF Fresh, FreshCandidates
<1>8. ConfirmationIsUsable'
  BY <1>2, <1>3, UsableKept DEF Fresh
<1> QED
  BY <1>3, <1>4, <1>5, <1>6, <1>7, <1>8, GhostsKept DEF IInv

\* The tasks a press may begin.
NewTasks ==
  \A t \in tasks' :
    \/ t \in tasks
    \/ /\ t.for \in {"add", "regen"} /\ t.front \in Fronts
       /\ t.back \in Backs <=> t.for = "regen"
       /\ t.ref \in 1 .. Len(chat)

\* The handler of a press has done no more than this.
LEMMA PressInv ==
  ASSUME IInv, NEW b \in Buttons, ledger' = ledger \cup {b},
         NEW fs, Grows("boost", 0, fs, NoBack),
         applied' \subseteq applied \cup {b}, twice' \subseteq applied',
         refused' \subseteq refused \cup {b}, refused \subseteq refused',
         NoReplayedEffect',
         rows' \in Seq([front : Fronts, back : Backs]),
         confirm' \subseteq confirm, tasks \subseteq tasks',
         NewTasks,
         broken' \in BOOLEAN, faults' \in Nat,
         UNCHANGED <<candidates, rejected>>,
         \/ b \in refused' \/ b[2] \notin {"save", "regen"} \/ Confirmed(b) = {} \/ confirm' = {}
         \/ \E t \in tasks' : t.for = "regen" /\ t.ref = Message(b).ref
  PROVE  IInv'
<1>1. ChatInv /\ TaskInv /\ StoreInv /\ chat \in Seq(Msg) /\ "boost" \in Kinds
  BY DEF IInv, ChatInv, Kinds
<1>2. ledger' \subseteq Buttons /\ applied' \subseteq Buttons /\ refused' \subseteq Buttons
  BY DEF IInv, TypeOK
<1>3. TypeOK'
  <2>1. ledger' \subseteq Buttons' /\ applied' \subseteq Buttons' /\ refused' \subseteq Buttons'
    BY <1>1, <1>2, ButtonTypes
  <2>2. \A t \in tasks' : /\ t.for \in {"add", "regen"} /\ t.ref \in Refs
                          /\ t.front \in Fronts
                          /\ t.back \in Backs <=> t.for = "regen"
    <3>1. 1 .. Len(chat) \subseteq Refs
      BY <1>1 DEF Refs
    <3> QED
      BY <3>1 DEF IInv, TypeOK, NewTasks
  <2>3. /\ \A c \in confirm' : c.key \in Refs /\ c.front \in Fronts /\ c.back \in Backs
        /\ \A c, d \in confirm' : c = d
    BY DEF IInv, TypeOK
  <2>4. /\ \A c \in candidates' : c.ref \in Refs /\ c.fronts \in (SUBSET Fronts) \ {{}}
        /\ \A c, d \in candidates' : c = d
        /\ rejected' \subseteq Refs
    BY DEF IInv, TypeOK
  <2> QED
    BY <2>1, <2>2, <2>3, <2>4 DEF TypeOK
<1>4. ChatInv'
  BY <1>1, ChatKept
<1>5. TaskInv'
  BY <1>1, TasksKept DEF NewTasks
<1>6. StoreInv'
  <2>1. rejected' \subseteq 1 .. Len(chat')
    BY <1>1, RejectedOld
  <2> QED
    BY <1>1, <2>1, StoreKept
<1>7. Spent'
  BY SpentKept DEF Fresh, FreshCandidates
<1>8. ConfirmationIsUsable'
  <2>1. CASE confirm' = {}
    BY <2>1 DEF ConfirmationIsUsable
  <2>2. CASE confirm' # {}
    BY <2>2, UsableKept DEF Fresh
  <2> QED
    BY <2>1, <2>2
<1> QED
  BY <1>3, <1>4, <1>5, <1>6, <1>7, <1>8 DEF IInv

\* The offer of a boost is a message more, or nothing.
LEMMA BoostOffer ==
  ASSUME IInv, NEW b \in Buttons,
         OfferBoost(b[3]) \/ (UNCHANGED chat /\ faults' \in Nat)
  PROVE  Grows("boost", 0, {b[3]}, NoBack) /\ faults' \in Nat
<1>1. chat \in Seq(Msg) /\ faults \in Nat
  BY DEF IInv, TypeOK, ChatInv
<1>2. {b[3]} \in SUBSET Fronts
  <2>1. b[1] \in 1 .. Len(chat) /\ b[3] \in chat[b[1]].fronts
    BY <1>1, ButtonFields
  <2>2. chat[b[1]] \in Msg
    BY <1>1, <2>1
  <2> QED
    BY <2>1, <2>2 DEF Msg
<1>3. CASE OfferBoost(b[3])
  BY <1>1, <1>2, <1>3, AnswerGrows DEF OfferBoost, Kinds
<1>4. CASE UNCHANGED chat /\ faults' \in Nat
  BY <1>1, <1>4, SameChatGrows
<1> QED
  BY <1>3, <1>4

\* A press that is refused and begins nothing.
LEMMA RefusedInv ==
  ASSUME IInv, NEW b, first_seen(b), Refused(b),
         OfferBoost(b[3]) \/ (UNCHANGED chat /\ faults' \in Nat),
         broken' \in BOOLEAN, UNCHANGED <<rows, candidates, confirm, tasks>>
  PROVE  IInv'
<1>1. /\ b \in Buttons /\ ledger' = ledger \cup {b} /\ NoReplayedEffect'
      /\ applied' \subseteq applied \cup {b} /\ twice' \subseteq applied'
      /\ b \in refused' /\ refused' = refused \cup {b} /\ rejected' = rejected
  BY PressRefused
<1>2. Grows("boost", 0, {b[3]}, NoBack) /\ faults' \in Nat
  BY <1>1, BoostOffer
<1>3. NewTasks
  BY DEF NewTasks
<1>4. rows' \in Seq([front : Fronts, back : Backs])
  BY DEF IInv, TypeOK
<1> QED
  BY <1>1, <1>2, <1>3, <1>4, PressInv

\* A press that has its effect, without a task.
LEMMA AppliedInv ==
  ASSUME IInv, NEW b, first_seen(b), Applied(b),
         b[2] \in {"save", "boost"}, b[2] = "save" => Confirmed(b) # {} /\ confirm' = {},
         b[2] = "boost" => confirm' = confirm,
         rows' \in Seq([front : Fronts, back : Backs]),
         broken' \in BOOLEAN, UNCHANGED <<candidates, chat, tasks, faults>>
  PROVE  IInv'
<1>1. /\ b \in Buttons /\ ledger' = ledger \cup {b} /\ NoReplayedEffect'
      /\ twice' \subseteq applied' /\ refused' = refused /\ rejected' = rejected
  BY PressApplied
<1>2. applied' \subseteq applied \cup {b} /\ refused' \subseteq refused \cup {b}
  BY <1>1 DEF Applied
<1>3. Grows("boost", 0, {b[3]}, NoBack) /\ faults' \in Nat
  <2>1. faults' \in Nat
    BY DEF IInv, TypeOK
  <2> QED
    BY <1>1, <2>1, BoostOffer
<1>4. NewTasks
  BY DEF NewTasks
<1>5. confirm' \subseteq confirm /\ (b[2] \notin {"save", "regen"} \/ confirm' = {})
  OBVIOUS
<1> QED
  BY <1>1, <1>2, <1>3, <1>4, <1>5, PressInv

\* What a press finds as it is.
LEMMA PressFinds ==
  ASSUME IInv
  PROVE  /\ rows \in Seq([front : Fronts, back : Backs]) /\ broken \in BOOLEAN /\ faults \in Nat
  BY DEF IInv, TypeOK

LEMMA AddInv ==
  ASSUME IInv, NEW b \in Buttons, _handle_add(b)
  PROVE  IInv'
<1> USE DEF store
<1>1. first_seen(b) /\ Applied(b) /\ b[2] = "add" /\ Candidate(b) # {}
  BY DEF _handle_add
<1>2. /\ UNCHANGED <<rows, candidates, confirm, broken>>
      /\ OfferBoost(b[3]) \/ UNCHANGED <<chat, faults>>
  BY DEF _handle_add
<1>3. Grows("boost", 0, {b[3]}, NoBack) /\ faults' \in Nat
  BY <1>2, BoostOffer, PressFinds
<1>4. /\ ledger' = ledger \cup {b} /\ NoReplayedEffect' /\ twice' \subseteq applied'
      /\ refused' = refused /\ rejected' = rejected /\ applied' \subseteq applied \cup {b}
  BY <1>1, PressApplied DEF Applied
<1>5. \A t \in tasks' :
        \/ t \in tasks
        \/ /\ t.for = "add" /\ t.front \in Fronts /\ t.back = NoBack
           /\ t.ref \in 1 .. Len(chat) /\ t.back \notin Backs
  <2>1. Message(b).ref \in 1 .. Len(chat)
    BY <1>1, RefIsOld DEF IInv
  <2>2. b[3] \in Fronts
    BY <1>1 DEF Candidate, IInv, TypeOK
  <2> QED
    BY <2>1, <2>2, BacksAssumption DEF _handle_add
<1>6. tasks \subseteq tasks'
  BY DEF _handle_add
<1>7. NewTasks
  BY <1>5 DEF NewTasks
<1>8. confirm' \subseteq confirm /\ refused' \subseteq refused \cup {b} /\ b[2] \notin {"save", "regen"}
  BY <1>1, <1>2, <1>4
<1> QED
  BY <1>2, <1>3, <1>4, <1>6, <1>7, <1>8, PressFinds, PressInv

LEMMA RegenInv ==
  ASSUME IInv, NEW b \in Buttons, _handle_regen(b)
  PROVE  IInv'
<1> USE DEF store
<1>1. first_seen(b) /\ Applied(b) /\ b[2] = "regen"
  BY DEF _handle_regen
<1>2. PICK c \in Confirmed(b) :
        tasks' = tasks \cup {[for |-> "regen", ref |-> c.key,
                               front |-> c.front, back |-> c.back]}
  BY DEF _handle_regen
<1>3. UNCHANGED <<rows, candidates, confirm, broken, chat, faults>>
  BY DEF _handle_regen
<1>4. Grows("boost", 0, {b[3]}, NoBack) /\ faults' \in Nat
  BY <1>3, BoostOffer, PressFinds
<1>5. /\ ledger' = ledger \cup {b} /\ NoReplayedEffect' /\ twice' \subseteq applied'
      /\ refused' = refused /\ rejected' = rejected /\ applied' \subseteq applied \cup {b}
  BY <1>1, <1>2, PressApplied DEF Applied
<1>6. /\ c.key = Message(b).ref /\ c.key \in 1 .. Len(chat)
      /\ c.front \in Fronts /\ c.back \in Backs
  BY <1>1, RefIsOld DEF Confirmed, IInv, TypeOK
<1> DEFINE n == [for |-> "regen", ref |-> c.key, front |-> c.front, back |-> c.back]
<1>7. n \in tasks' /\ n.for = "regen" /\ n.ref = Message(b).ref
  BY <1>2, <1>6
<1>8. NewTasks
  BY <1>2, <1>6 DEF NewTasks
<1>9. tasks \subseteq tasks' /\ confirm' \subseteq confirm /\ refused' \subseteq refused \cup {b}
  BY <1>2, <1>3, <1>5
<1> HIDE DEF n
<1> QED
  BY <1>3, <1>4, <1>5, <1>7, <1>8, <1>9, PressFinds, PressInv

LEMMA SaveInv ==
  ASSUME IInv, NEW b \in Buttons, _handle_save(b)
  PROVE  IInv'
<1>1. first_seen(b) /\ b[2] = "save" /\ Confirmed(b) # {} /\ UNCHANGED <<candidates, tasks>>
  BY DEF _handle_save
<1>2. CASE SaveRaises(b)
  <2>1. faults' \in Nat
    BY <1>2, PressFinds DEF _handle_save, Fault, SaveIsDuplicate, SaveSucceeds, Refused, Applied,
       OfferBoost, Answer
  <2> QED
    BY <1>1, <1>2, <2>1, RefusedInv DEF SaveRaises
<1>3. CASE SaveIsDuplicate(b)
  BY <1>1, <1>3, PressFinds, RefusedInv DEF SaveIsDuplicate
<1>4. CASE SaveSucceeds(b)
  <2>1. PICK c \in Confirmed(b) : rows' = Append(rows, [front |-> c.front, back |-> c.back])
    BY <1>4 DEF SaveSucceeds
  <2>2. Applied(b) /\ confirm' = {} /\ UNCHANGED <<chat, broken, faults>>
    BY <1>4 DEF SaveSucceeds
  <2>3. rows' \in Seq([front : Fronts, back : Backs])
    BY <2>1, PressFinds DEF Confirmed, IInv, TypeOK
  <2> QED
    BY <1>1, <2>2, <2>3, PressFinds, AppliedInv
<1> QED
  BY <1>2, <1>3, <1>4 DEF _handle_save

LEMMA BoostInv ==
  ASSUME IInv, NEW b \in Buttons, _handle_boost(b)
  PROVE  IInv'
<1> USE DEF store
<1>1. first_seen(b) /\ b[2] = "boost" /\ UNCHANGED <<rows, candidates, confirm, chat, tasks>>
  BY DEF _handle_boost
<1>2. CASE Applied(b) /\ UNCHANGED <<broken, faults>>
  BY <1>1, <1>2, PressFinds, AppliedInv
<1>3. CASE Fault /\ broken' = TRUE /\ Refused(b)
  <2>1. faults' \in Nat
    BY <1>3, PressFinds DEF Fault
  <2> QED
    BY <1>1, <1>3, <2>1, RefusedInv
<1> QED
  BY <1>2, <1>3 DEF _handle_boost

LEMMA StaleInv ==
  ASSUME IInv, NEW b \in Buttons, StaleButton(b)
  PROVE  IInv'
<1> USE DEF store, ghosts
<1>1. /\ ledger' = ledger \cup {b}
      /\ UNCHANGED <<rows, candidates, confirm, chat, tasks, broken, applied, twice, refused, rejected, faults>>
      /\ b[2] \notin {"save", "regen"} \/ Confirmed(b) = {}
  BY DEF StaleButton, first_seen
<1>2. /\ NoReplayedEffect' /\ twice' \subseteq applied' /\ applied' \subseteq applied \cup {b}
      /\ refused' \subseteq refused \cup {b} /\ refused \subseteq refused'
      /\ confirm' \subseteq confirm /\ tasks \subseteq tasks'
  BY <1>1 DEF IInv, TypeOK, NoReplayedEffect
<1>3. Grows("boost", 0, {b[3]}, NoBack) /\ faults' \in Nat
  BY <1>1, BoostOffer, PressFinds
<1>4. NewTasks
  BY <1>1 DEF NewTasks
<1>5. rows' \in Seq([front : Fronts, back : Backs]) /\ broken' \in BOOLEAN
  BY <1>1, PressFinds
<1> QED
  BY <1>1, <1>2, <1>3, <1>4, <1>5, PressInv

LEMMA WastedInv ==
  ASSUME IInv, NEW b \in Buttons, PressWasted(b)
  PROVE  IInv'
<1> USE DEF store
<1>1. first_seen(b) /\ Refused(b) /\ UNCHANGED <<rows, candidates, confirm, chat, tasks, broken>>
  BY DEF PressWasted
<1>2. faults' \in Nat
  BY PressFinds DEF PressWasted, Fault
<1> QED
  BY <1>1, <1>2, PressFinds, RefusedInv

\* Entries of the store are dropped, with or without the rest of the memory.
LEMMA DropInv ==
  ASSUME IInv, confirm' \subseteq confirm, candidates' \subseteq candidates,
         UNCHANGED <<rows, chat, applied, twice, refused, rejected>>,
         broken' \in BOOLEAN, faults' \in Nat,
         \/ UNCHANGED <<ledger, tasks>>
         \/ confirm' = {} /\ candidates' = {} /\ ledger' = {} /\ tasks' = {}
  PROVE  IInv'
<1>1. ChatInv /\ TaskInv /\ StoreInv /\ chat \in Seq(Msg) /\ "boost" \in Kinds
  BY DEF IInv, ChatInv, Kinds
<1>2. Grows("boost", 0, {}, NoBack)
  BY <1>1, SameChatGrows
<1>3. TypeOK'
  <2>1. ledger' \subseteq Buttons' /\ applied' \subseteq Buttons' /\ refused' \subseteq Buttons'
    BY DEF IInv, TypeOK, Buttons
  <2>2. /\ \A c \in confirm' : c.key \in Refs /\ c.front \in Fronts /\ c.back \in Backs
        /\ \A c, d \in confirm' : c = d
        /\ \A c \in candidates' : c.ref \in Refs /\ c.fronts \in (SUBSET Fronts) \ {{}}
        /\ \A c, d \in candidates' : c = d
    BY DEF IInv, TypeOK
  <2>3. \A t \in tasks' : t \in tasks
    OBVIOUS
  <2> QED
    BY <2>1, <2>2, <2>3 DEF IInv, TypeOK
<1>4. ChatInv' /\ TaskInv'
  BY <1>1, <1>2, ChatKept, TasksKept
<1>5. StoreInv'
  <2>1. rejected' \subseteq 1 .. Len(chat')
    BY <1>1, <1>2, RejectedOld
  <2> QED
    BY <1>1, <1>2, <2>1, StoreKept
<1>6. Spent'
  BY <1>2, SpentKept DEF Fresh, FreshCandidates
<1>7. ConfirmationIsUsable'
  <2>1. CASE confirm' = {}
    BY <2>1 DEF ConfirmationIsUsable
  <2>2. CASE UNCHANGED <<ledger, tasks>>
    BY <1>2, <2>2, UsableKept DEF Fresh
  <2> QED
    BY <2>1, <2>2
<1>8. NoReplayedEffect'
  BY DEF IInv, NoReplayedEffect
<1> QED
  BY <1>3, <1>4, <1>5, <1>6, <1>7, <1>8 DEF IInv

LEMMA StepInv ==
  ASSUME IInv, [Next]_vars
  PROVE  IInv'
<1>1. ASSUME NEW b \in Buttons,
             \/ _handle_add(b) \/ _handle_save(b) \/ _handle_regen(b)
             \/ _handle_boost(b) \/ StaleButton(b) \/ PressWasted(b)
      PROVE  IInv'
  BY <1>1, AddInv, SaveInv, RegenInv, BoostInv, StaleInv, WastedInv
<1>2. ASSUME NEW t \in tasks, GenerationReturns(t) \/ AddFails(t) \/ RegenFails(t)
      PROVE  IInv'
  BY <1>2, GenerationInv, AddFailsInv, RegenFailsInv
<1>3. CASE Expire \/ (\E m \in DOMAIN chat : Skip(m)) \/ UNCHANGED vars
  <2>1. /\ confirm' \subseteq confirm /\ candidates' \subseteq candidates
        /\ UNCHANGED <<rows, chat, ledger, tasks, broken, applied, twice, refused, rejected, faults>>
    BY <1>3 DEF Expire, Skip, vars, store, ghosts
  <2> QED
    BY <2>1, PressFinds, DropInv
<1>4. CASE Restart
  <2>1. faults' \in Nat
    BY <1>4, PressFinds DEF Restart, Fault
  <2>2. /\ confirm' = {} /\ candidates' = {} /\ ledger' = {} /\ tasks' = {} /\ broken' = FALSE
        /\ UNCHANGED <<rows, chat, applied, twice, refused, rejected>>
    BY <1>4 DEF Restart, ghosts
  <2> QED
    BY <2>1, <2>2, DropInv
<1> QED
  BY <1>1, <1>2, <1>3, <1>4, ExtractionInv DEF Next

(***************************************************************************)
(* IInv holds in every reachable state.                                    *)
(***************************************************************************)
THEOREM Inductive == Spec => []IInv
<1>1. Init => IInv
  BY InitInv
<1>2. IInv /\ [Next]_vars => IInv'
  BY StepInv
<1> QED
  BY <1>1, <1>2, PTL DEF Spec

(***************************************************************************)
(* Type correctness, with at most one candidate list and one confirmation  *)
(* stored.                                                                 *)
(***************************************************************************)
THEOREM TypeCorrect == Spec => []TypeOK
<1>1. IInv => TypeOK
  BY DEF IInv
<1> QED
  BY <1>1, Inductive, PTL

(***************************************************************************)
(* A stored confirmation has a way on that no handler has used up.         *)
(***************************************************************************)
THEOREM WayOn == Spec => []ConfirmationIsUsable
<1>1. IInv => ConfirmationIsUsable
  BY DEF IInv
<1> QED
  BY <1>1, Inductive, PTL

(***************************************************************************)
(* Whatever is pressed twice, delivered twice or delivered again after a   *)
(* restart, no Add, Save or Regenerate button has its effect again.        *)
(***************************************************************************)
THEOREM NotTwice == Spec => []NoReplayedEffect
<1>1. IInv => NoReplayedEffect
  BY DEF IInv
<1> QED
  BY <1>1, Inductive, PTL

-----------------------------------------------------------------------------
(* What is saved *)

\* Only _handle_save adds a row; with what it finds then.
LEMMA OnlySaves ==
  ASSUME IInv, [Next]_vars, rows' # rows
  PROVE  \E b \in Buttons, c \in confirm :
           /\ b \notin ledger /\ ledger' = ledger \cup {b} /\ b[2] = "save"
           /\ c.key = Message(b).ref /\ c.key = b[1]
           /\ Message(b).kind = "confirm"
           /\ Message(b).fronts = {c.front} /\ Message(b).back = c.back /\ b[3] = c.front
           /\ c.key \notin rejected
           /\ find_by_front(c.front) = {}
           /\ rows' = Append(rows, [front |-> c.front, back |-> c.back])
           /\ confirm' = {} /\ UNCHANGED chat
<1>1. PICK b \in Buttons : _handle_save(b) /\ SaveSucceeds(b)
  BY DEF Next, vars, ghosts, store, ExtractionReturns, GenerationReturns, AddFails, RegenFails,
         _handle_add, _handle_save, _handle_regen, _handle_boost, StaleButton, PressWasted,
         SaveIsDuplicate, SaveRaises, Skip, Expire, Restart
<1>2. /\ b \notin ledger /\ ledger' = ledger \cup {b} /\ b[2] = "save"
      /\ confirm' = {} /\ UNCHANGED chat
  BY <1>1 DEF _handle_save, first_seen, SaveSucceeds
<1>3. PICK c \in Confirmed(b) : rows' = Append(rows, [front |-> c.front, back |-> c.back])
  BY <1>1 DEF SaveSucceeds
<1>4. c \in confirm /\ c.key = Message(b).ref
  BY DEF Confirmed
<1>5. /\ b[1] \in DOMAIN chat /\ Message(b).kind = "confirm" /\ b[3] \in Message(b).fronts
      /\ Message(b).ref = b[1]
  BY <1>2, ButtonFields, RefIsOld DEF IInv, ChatInv, Message
<1>6. /\ Message(b).fronts = {c.front} /\ Message(b).back = c.back /\ c.key \notin rejected
  BY <1>4, <1>5 DEF IInv, StoreInv, Message
<1>7. b[3] = c.front
  BY <1>5, <1>6
<1>8. find_by_front(b[3]) = {}
  BY <1>1, <1>2, <1>3 DEF _handle_save, SaveSucceeds, SaveIsDuplicate, SaveRaises, IInv, TypeOK
<1> QED
  BY <1>2, <1>3, <1>4, <1>5, <1>6, <1>7, <1>8

(***************************************************************************)
(* Every row is what was on the message whose [Save] was pressed.          *)
(***************************************************************************)
THEOREM SavesWhatWasShown == Spec => SavedIsWhatWasShown
<1> DEFINE WasShown ==
      Len(rows') > Len(rows) =>
        LET r == rows'[Len(rows')]
        IN  \E b \in ledger' \ ledger :
              /\ b[2] = "save"
              /\ Message(b).fronts = {r.front} /\ Message(b).back = r.back
<1>1. ASSUME IInv, [Next]_vars
      PROVE  [WasShown]_vars
  <2> SUFFICES ASSUME rows' # rows
               PROVE  WasShown
    OBVIOUS
  <2>1. PICK b \in Buttons, c \in confirm :
          /\ b \notin ledger /\ ledger' = ledger \cup {b} /\ b[2] = "save"
          /\ Message(b).fronts = {c.front} /\ Message(b).back = c.back
          /\ rows' = Append(rows, [front |-> c.front, back |-> c.back])
    BY <1>1, OnlySaves
  <2>2. rows \in Seq([front : Fronts, back : Backs])
    BY <1>1 DEF IInv, TypeOK
  <2>3. rows'[Len(rows')] = [front |-> c.front, back |-> c.back]
    BY <2>1, <2>2
  <2> QED
    BY <2>1, <2>3
<1> HIDE DEF WasShown
<1>2. Spec => [][WasShown]_vars
  BY <1>1, Inductive, PTL DEF Spec
<1> QED
  BY <1>2 DEF WasShown, SavedIsWhatWasShown

(***************************************************************************)
(* No row is added by the [Save] of a card whose regeneration has ended.   *)
(***************************************************************************)
THEOREM NeverSavesRejected == Spec => RejectedNeverSaved
<1> DEFINE Accepted ==
      Len(rows') > Len(rows) => \A b \in ledger' \ ledger : Message(b).ref \notin rejected
<1>1. ASSUME IInv, [Next]_vars
      PROVE  [Accepted]_vars
  <2> SUFFICES ASSUME rows' # rows
               PROVE  Accepted
    OBVIOUS
  <2>1. PICK b \in Buttons, c \in confirm :
          /\ ledger' = ledger \cup {b} /\ c.key = Message(b).ref /\ c.key \notin rejected
    BY <1>1, OnlySaves
  <2> QED
    BY <2>1
<1> HIDE DEF Accepted
<1>2. Spec => [][Accepted]_vars
  BY <1>1, Inductive, PTL DEF Spec
<1> QED
  BY <1>2 DEF Accepted, RejectedNeverSaved

\* One more row, of a word that no row has, is the only row of that word.
LEMMA NewWord ==
  ASSUME rows \in Seq([front : Fronts, back : Backs]), OneCardPerWord, NEW r,
         find_by_front(r.front) = {}, rows' = Append(rows, r)
  PROVE  OneCardPerWord'
<1>1. /\ DOMAIN rows' = DOMAIN rows \cup {Len(rows) + 1}
      /\ rows'[Len(rows) + 1] = r
      /\ \A i \in DOMAIN rows : rows'[i] = rows[i]
  OBVIOUS
<1>2. \A i \in DOMAIN rows : normalize_front[rows[i].front] # normalize_front[r.front]
  BY DEF find_by_front
<1> SUFFICES ASSUME NEW i \in DOMAIN rows', NEW j \in DOMAIN rows',
                    normalize_front[rows'[i].front] = normalize_front[rows'[j].front]
             PROVE  i = j
  BY DEF OneCardPerWord
<1>3. CASE i \in DOMAIN rows /\ j \in DOMAIN rows
  BY <1>1, <1>3 DEF OneCardPerWord
<1>4. CASE i \notin DOMAIN rows \/ j \notin DOMAIN rows
  BY <1>1, <1>2, <1>4
<1> QED
  BY <1>3, <1>4

(***************************************************************************)
(* A word has one card, however many [Save]s of its spellings race: what   *)
(* the UNIQUE constraint of db/models.py states is already kept by the     *)
(* check in _handle_save.                                                  *)
(***************************************************************************)
THEOREM OneCard == Spec => []OneCardPerWord
<1>1. Init => OneCardPerWord
  BY DEF Init, OneCardPerWord
<1>2. ASSUME IInv, OneCardPerWord, [Next]_vars
      PROVE  OneCardPerWord'
  <2>1. CASE rows' = rows
    BY <1>2, <2>1 DEF OneCardPerWord
  <2>2. CASE rows' # rows
    <3>1. PICK c \in confirm : /\ find_by_front(c.front) = {}
                              /\ rows' = Append(rows, [front |-> c.front, back |-> c.back])
      BY <1>2, <2>2, OnlySaves
    <3> DEFINE r == [front |-> c.front, back |-> c.back]
    <3>2. r.front = c.front
      OBVIOUS
    <3>3. rows \in Seq([front : Fronts, back : Backs]) /\ find_by_front(r.front) = {}
            /\ rows' = Append(rows, r)
      BY <1>2, <3>1, <3>2 DEF IInv, TypeOK
    <3> HIDE DEF r
    <3> QED
      BY <1>2, <3>3, NewWord
  <2> QED
    BY <2>1, <2>2
<1> QED
  BY <1>1, <1>2, Inductive, PTL DEF Spec
-----------------------------------------------------------------------------
(* The flow implements Dictionary *)

Shown == {m \in DOMAIN chat : chat[m].kind = "confirm"}
Kept  == {rows[i] : i \in DOMAIN rows}

\* A message that is no confirmation offers nothing and takes nothing back.
LEMMA OtherMessage ==
  ASSUME chat \in Seq(Msg), NEW kind, NEW ref, NEW fs, NEW back,
         Grows(kind, ref, fs, back), kind # "confirm"
  PROVE  /\ Shown' = Shown
         /\ \A m : m \in DOMAIN chat' /\ chat'[m].kind = "confirm"
                   <=> m \in DOMAIN chat /\ chat[m].kind = "confirm"
<1>1. ASSUME NEW m
      PROVE  m \in DOMAIN chat' /\ chat'[m].kind = "confirm"
             <=> m \in DOMAIN chat /\ chat[m].kind = "confirm"
  <2>1. m \in DOMAIN chat => m \in DOMAIN chat' /\ chat'[m] = chat[m]
    BY DEF Grows
  <2>2. m \in DOMAIN chat' /\ m \notin DOMAIN chat => chat'[m].kind = kind
    BY DEF Grows
  <2> QED
    BY <2>1, <2>2
<1> QED
  BY <1>1 DEF Shown

\* The confirmation stays, and other messages at most come: a stutter.
LEMMA OfferStays ==
  ASSUME chat \in Seq(Msg), NEW kind, NEW ref, NEW fs, NEW back,
         Grows(kind, ref, fs, back), kind # "confirm", UNCHANGED <<rows, confirm>>
  PROVE  UNCHANGED <<Kept, Offered, Shown>>
<1>1. UNCHANGED Shown
  BY OtherMessage
<1>2. \A d \in confirm : d.key \in DOMAIN chat' /\ chat'[d.key].kind = "confirm"
                         <=> d.key \in DOMAIN chat /\ chat[d.key].kind = "confirm"
  BY OtherMessage
<1>3. Offered' = Offered
  BY <1>2 DEF Offered
<1> QED
  BY <1>1, <1>3 DEF Kept

\* A card and its message: a new offer, or none if the message is lost.
LEMMA OfferMade ==
  ASSUME ChatInv, NEW front, NEW back,
         confirm' = {[key |-> NextRef, front |-> front, back |-> back]},
         Grows("confirm", NextRef, {front}, back)
  PROVE  \/ Offered' = {} /\ Shown' = Shown
         \/ \E o \in Offered' : /\ Offered' = {o} /\ o.id \notin Shown
                                /\ Shown' = Shown \cup {o.id}
<1> DEFINE o == [id |-> NextRef, front |-> front, back |-> back]
<1>1. chat \in Seq(Msg) /\ NextRef \notin DOMAIN chat
  BY DEF ChatInv, NextRef
<1>2. CASE Len(chat') = Len(chat)
  <2>1. DOMAIN chat' = DOMAIN chat /\ \A m \in DOMAIN chat : chat'[m] = chat[m]
    BY <1>1, <1>2 DEF Grows
  <2>2. Shown' = Shown
    BY <2>1 DEF Shown
  <2>3. Offered' = {}
    BY <1>1, <2>1 DEF Offered
  <2> QED
    BY <2>2, <2>3
<1>3. CASE Len(chat') = Len(chat) + 1
  <2>1. DOMAIN chat' = DOMAIN chat \cup {NextRef}
    BY <1>1, <1>3 DEF Grows, NextRef
  <2>2. chat'[NextRef].kind = "confirm" /\ \A m \in DOMAIN chat : chat'[m] = chat[m]
    BY <1>1, <1>3 DEF Grows, NextRef
  <2>3. Shown' = Shown \cup {NextRef} /\ NextRef \notin Shown
    BY <1>1, <2>1, <2>2 DEF Shown
  <2>4. Offered' = {o}
    <3> DEFINE new == [key |-> NextRef, front |-> front, back |-> back]
    <3>1. {d \in confirm' : d.key \in DOMAIN chat' /\ chat'[d.key].kind = "confirm"} = {new}
      BY <2>1, <2>2
    <3>2. Offered' = {[id |-> c.key, front |-> c.front, back |-> c.back] : c \in {new}}
      BY <3>1 DEF Offered
    <3> QED
      BY <3>2
  <2> QED
    BY <2>3, <2>4
<1> QED
  BY <1>1, <1>2, <1>3 DEF Grows

\* A failed regeneration takes the card back.
LEMMA OfferTaken ==
  ASSUME ChatInv, NEW front, NEW back,
         confirm' = {[key |-> NextRef, front |-> front, back |-> back]},
         Grows("retry_regen", NextRef, {front}, NoBack)
  PROVE  Offered' = {} /\ Shown' = Shown
<1>1. chat \in Seq(Msg) /\ NextRef \notin DOMAIN chat
  BY DEF ChatInv, NextRef
<1>2. Shown' = Shown /\ ~(NextRef \in DOMAIN chat' /\ chat'[NextRef].kind = "confirm")
  BY <1>1, OtherMessage
<1> QED
  BY <1>2 DEF Offered

\* What is saved is the card on offer, and no other has its normal form.
LEMMA OfferKept ==
  ASSUME IInv, [Next]_vars, rows' # rows
  PROVE  /\ \E o \in Offered :
              /\ \A c \in Kept : normalize_front[c.front] # normalize_front[o.front]
              /\ Kept' = Kept \cup {[front |-> o.front, back |-> o.back]}
         /\ Offered' = {} /\ Shown' = Shown
<1>1. PICK b \in Buttons, c \in confirm :
        /\ c.key = b[1] /\ Message(b).kind = "confirm"
        /\ find_by_front(c.front) = {}
        /\ rows' = Append(rows, [front |-> c.front, back |-> c.back])
        /\ confirm' = {} /\ UNCHANGED chat
  BY OnlySaves
<1> DEFINE o == [id |-> c.key, front |-> c.front, back |-> c.back]
<1>2. rows \in Seq([front : Fronts, back : Backs]) /\ chat \in Seq(Msg)
  BY DEF IInv, TypeOK, ChatInv
<1>3. o \in Offered
  BY <1>1, <1>2, ButtonFields DEF Offered, Message
<1>4. \A d \in Kept : normalize_front[d.front] # normalize_front[o.front]
  BY <1>1 DEF Kept, find_by_front
<1>5. Kept' = Kept \cup {[front |-> c.front, back |-> c.back]}
  <2> DEFINE r == [front |-> c.front, back |-> c.back]
  <2>1. Len(rows') = Len(rows) + 1 /\ DOMAIN rows' = DOMAIN rows \cup {Len(rows) + 1}
    BY <1>1, <1>2
  <2>2. rows'[Len(rows) + 1] = r /\ \A i \in DOMAIN rows : rows'[i] = rows[i]
    BY <1>1, <1>2
  <2> QED
    BY <2>1, <2>2 DEF Kept
<1>6. Offered' = {} /\ Shown' = Shown
  BY <1>1 DEF Offered, Shown
<1> QED
  BY <1>3, <1>4, <1>5, <1>6

\* A step of the flow makes, withdraws or keeps an offer, or none of these.
LEMMA StepMaps ==
  ASSUME IInv, [Next]_vars
  PROVE  \/ UNCHANGED <<Kept, Offered, Shown>>
         \/ /\ UNCHANGED Kept
            /\ \E o \in Offered' : /\ Offered' = {o} /\ o.id \notin Shown
                                   /\ Shown' = Shown \cup {o.id}
         \/ Offered' = {} /\ UNCHANGED <<Kept, Shown>>
         \/ /\ \E o \in Offered :
                 /\ \A c \in Kept : normalize_front[c.front] # normalize_front[o.front]
                 /\ Kept' = Kept \cup {[front |-> o.front, back |-> o.back]}
            /\ Offered' = {} /\ UNCHANGED Shown
<1>1. ChatInv /\ chat \in Seq(Msg) /\ faults \in Nat /\ NextRef \in Nat
  BY DEF IInv, ChatInv, TypeOK, NextRef
<1>2. CASE rows' # rows
  BY <1>2, OfferKept
<1>3. CASE ExtractionReturns
  <2>1. PICK fs \in SUBSET Fronts : Answer("candidates", NextRef, fs, NoBack)
    BY <1>3 DEF ExtractionReturns
  <2>2. Grows("candidates", NextRef, fs, NoBack)
    BY <1>1, <2>1, AnswerGrows DEF Kinds
  <2> QED
    BY <1>1, <1>3, <2>2, OfferStays DEF ExtractionReturns
<1>4. ASSUME NEW t \in tasks, GenerationReturns(t)
      PROVE  \/ Offered' = {} /\ UNCHANGED <<Kept, Shown>>
             \/ /\ UNCHANGED Kept
                /\ \E o \in Offered' : /\ Offered' = {o} /\ o.id \notin Shown
                                       /\ Shown' = Shown \cup {o.id}
  <2>1. PICK back \in Backs : ConfirmWith(t, back)
    BY <1>4 DEF GenerationReturns
  <2>2. {t.front} \in SUBSET Fronts
    BY DEF IInv, TypeOK
  <2>3. Grows("confirm", NextRef, {t.front}, back)
    BY <1>1, <2>1, <2>2, AnswerGrows DEF ConfirmWith, Kinds
  <2>4. UNCHANGED Kept
    BY <1>4 DEF GenerationReturns, Kept
  <2> QED
    BY <1>1, <2>1, <2>3, <2>4, OfferMade DEF ConfirmWith
<1>5. ASSUME NEW t \in tasks, AddFails(t)
      PROVE  UNCHANGED <<Kept, Offered, Shown>>
  <2>1. {t.front} \in SUBSET Fronts /\ t.ref \in Nat
    BY DEF IInv, TypeOK, Refs
  <2>2. Grows("retry_add", t.ref, {t.front}, NoBack)
    BY <1>1, <1>5, <2>1, AnswerGrows DEF AddFails, Kinds
  <2> QED
    BY <1>1, <1>5, <2>2, OfferStays DEF AddFails, store
<1>6. ASSUME NEW t \in tasks, RegenFails(t)
      PROVE  Offered' = {} /\ UNCHANGED <<Kept, Shown>>
  <2>1. {t.front} \in SUBSET Fronts
    BY DEF IInv, TypeOK
  <2>2. Grows("retry_regen", NextRef, {t.front}, NoBack)
    BY <1>1, <1>6, <2>1, AnswerGrows DEF RegenFails, Kinds
  <2>3. Offered' = {} /\ Shown' = Shown
    BY <1>1, <1>6, <2>2, OfferTaken DEF RegenFails
  <2> QED
    BY <1>6, <2>3 DEF RegenFails, Kept
<1>7. ASSUME NEW f \in Fronts, OfferBoost(f), UNCHANGED <<rows, confirm>>
      PROVE  UNCHANGED <<Kept, Offered, Shown>>
  <2>1. Grows("boost", 0, {f}, NoBack)
    BY <1>1, <1>7, AnswerGrows DEF OfferBoost, Kinds
  <2> QED
    BY <1>1, <1>7, <2>1, OfferStays
<1>8. ASSUME UNCHANGED <<rows, confirm, chat>>
      PROVE  UNCHANGED <<Kept, Offered, Shown>>
  BY <1>8 DEF Kept, Offered, Shown
<1>9. ASSUME confirm' = {}, UNCHANGED <<rows, chat>>
      PROVE  Offered' = {} /\ UNCHANGED <<Kept, Shown>>
  BY <1>9 DEF Kept, Offered, Shown
<1>10. ASSUME NEW b \in Buttons, _handle_add(b) \/ _handle_save(b), rows' = rows
       PROVE  \/ UNCHANGED <<Kept, Offered, Shown>>
              \/ Offered' = {} /\ UNCHANGED <<Kept, Shown>>
  <2>1. b[3] \in Fronts
    <3>1. b[1] \in DOMAIN chat /\ b[3] \in chat[b[1]].fronts
      BY <1>1, ButtonFields
    <3>2. chat[b[1]] \in Msg
      BY <1>1, <3>1
    <3> QED
      BY <3>1, <3>2 DEF Msg
  <2>2. CASE _handle_add(b)
    <3>1. UNCHANGED <<rows, confirm>> /\ (OfferBoost(b[3]) \/ UNCHANGED chat)
      BY <2>2 DEF _handle_add, store
    <3> QED
      BY <2>1, <3>1, <1>7, <1>8
  <2>3. CASE _handle_save(b)
    <3>1. SaveRaises(b) \/ SaveIsDuplicate(b) \/ SaveSucceeds(b)
      BY <2>3 DEF _handle_save
    <3> QED
      BY <1>7, <1>8, <1>9, <1>10, <2>1, <3>1 DEF SaveRaises, SaveIsDuplicate, SaveSucceeds
  <2> QED
    BY <1>10, <2>2, <2>3
<1>11. ASSUME NEW b \in Buttons,
              _handle_regen(b) \/ _handle_boost(b) \/ StaleButton(b) \/ PressWasted(b)
       PROVE  UNCHANGED <<Kept, Offered, Shown>>
  <2>1. UNCHANGED <<rows, confirm, chat>>
    BY <1>11 DEF _handle_regen, _handle_boost, StaleButton, PressWasted, store
  <2> QED
    BY <2>1, <1>8
<1>12. CASE Expire \/ Restart \/ (\E m \in DOMAIN chat : Skip(m)) \/ UNCHANGED vars
  <2>1. UNCHANGED <<rows, chat>> /\ (confirm' = {} \/ UNCHANGED confirm)
    BY <1>12 DEF Expire, Restart, Skip, vars, store
  <2> QED
    BY <2>1, <1>8, <1>9
<1> QED
  BY <1>2, <1>3, <1>4, <1>5, <1>6, <1>10, <1>11, <1>12 DEF Next

(***************************************************************************)
(* The add flow implements Dictionary: whatever answers, failures, expiry  *)
(* and restarts do, the user is offered one card at a time, none again,    *)
(* and keeps the one on offer, one for each normal form.                   *)
(***************************************************************************)
THEOREM KeepsPromise == Spec => ImplementsDictionary
<1>1. Init => Promise!Init
  BY DEF Init, Promise!Init, Offered
<1>2. ASSUME IInv, [Next]_vars
      PROVE  [Promise!Next]_(Promise!dictionary)
  BY <1>2, StepMaps
  DEF Kept, Shown, Promise!Next, Promise!Propose, Promise!Withdraw, Promise!Keep, Promise!dictionary
<1> QED
  BY <1>1, <1>2, Inductive, PTL DEF Spec, ImplementsDictionary, Promise!Spec
=============================================================================
