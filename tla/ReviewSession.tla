----------------------------- MODULE ReviewSession -----------------------------
(***************************************************************************)
(* The on-demand review session of one user: bot/review.py behind          *)
(* handlers.handle_callback, with the store and the ledger of bot/state.py *)
(* and the rows behind db/repositories.py.                                 *)
(*                                                                         *)
(* Handlers run on one event loop and interleave only at awaits.  Every    *)
(* handler below is one step, except a rating: it persists, clears         *)
(* `pending` and awaits callback.answer, and only after that await reads   *)
(* the due queue again and presents the next card (RateApplied, then       *)
(* Continue or AckFails).  Any other update may be handled in between.     *)
(*                                                                         *)
(* Time is in ticks of at least a minute, so a tick is not shorter than a  *)
(* Telegram call (60 s): one at most passes in an await.                   *)
(* A row is its due time: advance adds an interval, always positive.       *)
(***************************************************************************)
EXTENDS Integers, Sequences, FiniteSets

CONSTANTS Items,       \* the user's card ids
          Grades,      \* the quality buttons
          Delays,      \* per grade, the intervals it can lead to, in ticks
          NewInterval, \* interval of a boosted card, in ticks
          FirstDue,    \* due times of the rows at the start
          TTL,         \* DEFAULT_TTL_SECONDS, in ticks
          MaxNow,      \* bound: ticks
          MaxFaults,   \* bound: lost calls, storage failures, stale presses
          MaxChat      \* bound: messages with buttons in the chat

ASSUME ItemsAssumption == Items \subseteq Nat \ {0} /\ IsFiniteSet(Items)
ASSUME GradesAssumption == Grades # {} /\ {"show", "boost"} \cap Grades = {}
ASSUME TimeAssumption ==
  /\ Delays \in [Grades -> SUBSET (Nat \ {0})]
  /\ NewInterval \in Nat \ {0}
  /\ TTL \in Nat \ {0}
  /\ FirstDue \subseteq Nat
  /\ MaxNow \in Nat
ASSUME FaultsAssumption == MaxFaults \in Nat

VARIABLES
  now,       \* the clock
  next_at,   \* next_review_at of each row
  session,   \* {} or the one ReviewSession stored under the user's key
  chat,      \* messages with buttons, in order of delivery: [kind, item]
  ledger,    \* CallbackLedger: the callback ids handled since the start
  acking,    \* ratings persisted whose callback.answer is awaited
  broken,    \* the sessions, of "users" and "items", left in a failed
             \* transaction: every later use raises, nobody rolls back
  boosted,   \* ghost: cards boosted while on screen
  lost,      \* ghost: a message for the card on screen was not delivered
  faults     \* ghost: faults so far

vars == <<now, next_at, session, chat, ledger, acking, broken, boosted, lost, faults>>
-----------------------------------------------------------------------------
(* State helpers *)

Kinds == {"front", "quality", "boost"}

\* A button is <<message, label>>; that pair is also its callback id.  Every
\* front and quality message carries a [Stop] too: see Stop.
Labels == [front |-> {"show"}, quality |-> Grades, boost |-> {"boost"}]

Buttons == UNION {{<<m, l>> : l \in Labels[chat[m].kind]} : m \in DOMAIN chat}

ItemOf(b) == chat[b[1]].item

\* ContextStore.get: an expired entry is as good as absent.
Live == {s \in session : now < s.expires}

OnScreen(i) == \E s \in Live : s.pending = i

\* ContextStore.set under the session key; a new entry starts a new TTL.
_set_session(total, rated, pending) ==
  session' = {[total |-> total, rated |-> rated, pending |-> pending,
               expires |-> now + TTL]}

\* Mutant: due compares with the start of the next tick.
due_Early == {i \in Items : next_at[i] <= now + 1}

\* ItemRepository.due: next_review_at <= now ...
due == {i \in Items : next_at[i] <= now}

\* ... ORDER BY next_review_at, id
Oldest(S) ==
  CHOOSE i \in S : \A j \in S :
    next_at[i] < next_at[j] \/ (next_at[i] = next_at[j] /\ i <= j)

\* A message with buttons is sent; Telegram delivers it or the call fails.
Delivered(kind, i) ==
  /\ Len(chat) < MaxChat
  /\ chat' = Append(chat, [kind |-> kind, item |-> i])

Fault == faults < MaxFaults /\ faults' = faults + 1

\* A chat at its bound loses the message like a failed call.
NotDelivered ==
  /\ IF Len(chat) = MaxChat THEN UNCHANGED faults ELSE Fault
  /\ lost' = TRUE
  /\ UNCHANGED chat

\* Mutant: a card whose front is in the chat already is not sent again.
Present_Once(i) ==
  \/ /\ \A m \in DOMAIN chat : chat[m] # [kind |-> "front", item |-> i]
     /\ Delivered("front", i) /\ lost' = FALSE /\ UNCHANGED faults
  \/ /\ \E m \in DOMAIN chat : chat[m] = [kind |-> "front", item |-> i]
     /\ lost' = FALSE /\ UNCHANGED <<chat, faults>>

\* Presenting a card: delivered to the user, or lost on the way.
Present(i) ==
  \/ Delivered("front", i) /\ lost' = FALSE /\ UNCHANGED faults
  \/ NotDelivered

Usable(sessions) == broken \cap sessions = {}

\* handle_callback up to its dispatch: ensure_profile commits the activity, then
\* an unseen id is recorded.
first_seen(b) ==
  /\ Usable({"users"})
  /\ b \in Buttons \ ledger
  /\ ledger' = ledger \cup {b}
-----------------------------------------------------------------------------
(* /review, or a natural-language trigger *)

\* Nothing is due: the stored session is dropped.  A broken session raises
\* before anything is stored and _on_error answers: nothing changes.
start_review_session ==
  /\ Usable({"users", "items"})
  /\ IF due = {}
     THEN session' = {} /\ lost' = FALSE /\ UNCHANGED <<chat, faults>>
     ELSE LET first == Oldest(due)
          IN  /\ _set_session(Cardinality(due), {}, first)
              /\ Present(first)
  /\ boosted' = {}
  /\ UNCHANGED <<now, next_at, ledger, acking, broken>>

-----------------------------------------------------------------------------
(* Buttons of the card on screen *)

\* No live session, a session that moved on, or a message that is gone: the
\* id is spent and nothing else happens.
StaleButton(b) ==
  /\ first_seen(b)
  /\ b[2] # "boost"
  /\ Fault
  /\ ~OnScreen(ItemOf(b))
  /\ UNCHANGED <<now, next_at, session, chat, acking, broken, boosted, lost>>

MessageGone(b) ==
  /\ first_seen(b)
  /\ Fault
  /\ lost' = (lost \/ OnScreen(ItemOf(b)))
  /\ UNCHANGED <<now, next_at, session, chat, acking, broken, boosted>>

\* The reveal sends the quality buttons; no state of the card changes.
_show_answer(b) ==
  /\ first_seen(b)
  /\ b[2] = "show"
  /\ OnScreen(ItemOf(b))
  /\ Usable({"items"})
  /\ \/ Delivered("quality", ItemOf(b)) /\ UNCHANGED <<lost, faults>>
     \/ NotDelivered
  /\ UNCHANGED <<now, next_at, session, acking, broken, boosted>>

\* Mutant: [Stop] puts the card off by the new interval.
Stop_Penalty(i) ==
  /\ Usable({"users"})
  /\ OnScreen(i)
  /\ session' = {} /\ boosted' = {} /\ lost' = FALSE
  /\ next_at' = [next_at EXCEPT ![i] = now + NewInterval]
  /\ UNCHANGED <<now, chat, ledger, acking, broken, faults>>

\* Any [Stop] of card i.  Its id is not tracked: a replay finds no session, or
\* does what the [Stop] of the card's new message does.
Stop(i) ==
  /\ Usable({"users"})
  /\ OnScreen(i)
  /\ \E m \in DOMAIN chat : chat[m].item = i /\ chat[m].kind # "boost"
  /\ session' = {} /\ boosted' = {} /\ lost' = FALSE
  /\ UNCHANGED <<now, next_at, chat, ledger, acking, broken, faults>>

\* The guard of a rating that reaches _rate_card.
RatePressed(b) ==
  /\ first_seen(b)
  /\ b[2] \in Grades
  /\ OnScreen(ItemOf(b))

\* Mutant: the card stays pending until the next one is presented.
Rated_KeepsPending(b, d) ==
  /\ RatePressed(b)
  /\ Usable({"items"})
  /\ next_at' = [next_at EXCEPT ![ItemOf(b)] = now + d]
  /\ \E s \in Live :
       LET rated == s.rated \cup {ItemOf(b)}
       IN  /\ _set_session(s.total, rated, s.pending)
           /\ acking' = acking \cup {[at |-> now, total |-> s.total, rated |-> rated]}
  /\ UNCHANGED <<now, chat, broken, boosted, lost, faults>>

\* Mutant: the handler goes on with the rated cards from before this one.
Rated_StaleRated(b, d) ==
  /\ RatePressed(b)
  /\ Usable({"items"})
  /\ next_at' = [next_at EXCEPT ![ItemOf(b)] = now + d]
  /\ \E s \in Live :
       /\ _set_session(s.total, s.rated, 0)
       /\ acking' = acking \cup {[at |-> now, total |-> s.total, rated |-> s.rated]}
  /\ UNCHANGED <<now, chat, broken, boosted, lost, faults>>

\* advance and update_srs commit an interval of d; the session is between cards
\* while callback.answer is awaited.
Rated(b, d) ==
  /\ RatePressed(b)
  /\ Usable({"items"})
  /\ next_at' = [next_at EXCEPT ![ItemOf(b)] = now + d]
  /\ \E s \in Live :
       LET rated == s.rated \cup {ItemOf(b)}
       IN  /\ _set_session(s.total, rated, 0)
           /\ acking' = acking \cup {[at |-> now, total |-> s.total, rated |-> rated]}
  /\ UNCHANGED <<now, chat, broken, boosted, lost, faults>>

RateApplied(b) == b[2] \in Grades /\ \E d \in Delays[b[2]] : Rated(b, d)

\* The commit fails: the row keeps its state, [Try again | Stop] is sent, and
\* nobody rolls the session back.
RateFails(b) ==
  /\ RatePressed(b)
  /\ Usable({"items"})
  /\ broken' = broken \cup {"items"}
  /\ \/ Delivered("front", ItemOf(b)) /\ UNCHANGED lost
     \/ UNCHANGED chat /\ lost' = TRUE
  /\ Fault
  /\ UNCHANGED <<now, next_at, session, acking, boosted>>

\* items.get raises on a broken session, outside every try: the id is spent,
\* and _on_error has no message to answer.
Raises(b) ==
  /\ first_seen(b)
  /\ "items" \in broken
  /\ b[2] = "boost" \/ OnScreen(ItemOf(b))
  /\ UNCHANGED <<now, next_at, session, chat, acking, broken, boosted, lost, faults>>
-----------------------------------------------------------------------------
(* The rest of _rate_card, after the await *)

\* Mutant: the cards rated in this session are not excluded.
_next_due_id_All(exclude) == due

\* The due queue, re-read, minus the cards rated in this session.
_next_due_id(exclude) == due \ exclude

\* Mutant: with nothing left the session is not ended.
Continue_NoEnd(a) ==
  /\ a \in acking /\ Usable({"items"})
  /\ acking' = acking \ {a}
  /\ LET left == _next_due_id(a.rated)
     IN  IF left = {}
         THEN UNCHANGED <<session, chat, lost, boosted, faults>>
         ELSE /\ _set_session(a.total, a.rated, Oldest(left))
              /\ Present(Oldest(left))
              /\ boosted' = {}
  /\ UNCHANGED <<now, next_at, ledger, broken>>

\* Next due card or the end.  `rated` and `total` are the values from before
\* the await: whatever session is stored by now is replaced or dropped.
Continue(a) ==
  /\ a \in acking /\ Usable({"items"})
  /\ acking' = acking \ {a}
  /\ LET left == _next_due_id(a.rated)
     IN  IF left = {}
         THEN session' = {} /\ boosted' = {} /\ lost' = FALSE /\ UNCHANGED <<chat, faults>>
         ELSE /\ _set_session(a.total, a.rated, Oldest(left))
              /\ Present(Oldest(left))
              /\ boosted' = {}
  /\ UNCHANGED <<now, next_at, ledger, broken>>

\* callback.answer fails, or the due query raises: the handler ends there and
\* the session stays between cards.
AckFails(a) ==
  /\ a \in acking
  /\ acking' = acking \ {a}
  /\ IF Usable({"items"}) THEN Fault ELSE UNCHANGED faults
  /\ lost' = TRUE
  /\ UNCHANGED <<now, next_at, session, chat, ledger, broken, boosted>>
-----------------------------------------------------------------------------
(* [Boost] of an earlier duplicate notice *)

BoostPressed(b) ==
  /\ first_seen(b)
  /\ b[2] = "boost"
  /\ Usable({"items"})
  /\ UNCHANGED <<now, session, chat, acking, lost>>

\* Mutant: the interval is added to the old due time.
Boosted_FromDue(b) ==
  /\ BoostPressed(b)
  /\ next_at' = [next_at EXCEPT ![ItemOf(b)] = @ + NewInterval]
  /\ boosted' = boosted \cup {i \in {ItemOf(b)} : OnScreen(i)}
  /\ UNCHANGED <<broken, faults>>

Boosted(b) ==
  /\ BoostPressed(b)
  /\ next_at' = [next_at EXCEPT ![ItemOf(b)] = now + NewInterval]
  /\ boosted' = boosted \cup {i \in {ItemOf(b)} : OnScreen(i)}
  /\ UNCHANGED <<broken, faults>>

\* The commit fails, and nobody rolls the session back.
BoostFails(b) ==
  /\ BoostPressed(b)
  /\ Fault
  /\ broken' = broken \cup {"items"}
  /\ UNCHANGED <<next_at, boosted>>

Boost(b) == Boosted(b) \/ BoostFails(b)
-----------------------------------------------------------------------------
(* Environment *)

Tick ==
  /\ \A a \in acking : a.at = now
  /\ now < MaxNow
  /\ now' = now + 1
  /\ UNCHANGED <<next_at, session, chat, ledger, acking, broken, boosted, lost, faults>>

\* The commit of touch_activity fails (disk full, file locked), in any update:
\* the handler ends before the callback id is recorded.
ProfileFails ==
  /\ Usable({"users"})
  /\ Fault
  /\ broken' = broken \cup {"users"}
  /\ UNCHANGED <<now, next_at, session, chat, ledger, acking, boosted, lost>>

\* Store, ledger and tasks live in the process; rows and chat survive it.
Restart ==
  /\ session' = {}
  /\ ledger' = {}
  /\ acking' = {}
  /\ broken' = {}
  /\ boosted' = {} /\ lost' = FALSE
  /\ UNCHANGED <<now, next_at, chat, faults>>

Press(b) ==
  \/ StaleButton(b)  \/ MessageGone(b) \/ _show_answer(b) \/ RateApplied(b)
  \/ RateFails(b)    \/ Raises(b)      \/ Boost(b)

Init ==
  /\ now = 0
  /\ next_at \in [Items -> FirstDue]
  /\ session = {}
  /\ chat \in {<<>>} \cup {<<[kind |-> "boost", item |-> i]>> : i \in Items}
  /\ ledger = {}
  /\ acking = {}
  /\ broken = {}
  /\ boosted = {}
  /\ lost = FALSE
  /\ faults = 0

Next ==
  \/ start_review_session
  \/ \E b \in Buttons \ ledger : Press(b)
  \/ \E i \in Items : Stop(i)
  \/ \E a \in acking : Continue(a)
  \/ \E a \in acking : AckFails(a)
  \/ Tick
  \/ ProfileFails
  \/ Restart

\* A coroutine whose await has completed is resumed by the event loop.
Fairness == WF_vars(\E a \in acking : Continue(a) \/ AckFails(a))

Spec == Init /\ [][Next]_vars /\ Fairness

-----------------------------------------------------------------------------
(* Properties *)

TypeOK ==
  /\ now \in 0..MaxNow
  /\ next_at \in [Items -> Nat]
  /\ Cardinality(session) <= 1
  /\ \A s \in session : /\ s.total \in 1..Cardinality(Items)
                        /\ s.rated \subseteq Items
                        /\ s.pending \in Items \cup {0}
                        /\ s.expires \in 1..(MaxNow + TTL)
  /\ chat \in Seq([kind : Kinds, item : Items])
  /\ ledger \subseteq Buttons
  /\ \A a \in acking : a.rated \subseteq Items /\ a.rated # {}
  /\ lost \in BOOLEAN
  /\ broken \subseteq {"users", "items"}
  /\ boosted \subseteq Items
  /\ faults \in 0..MaxFaults

(***************************************************************************)
(* A rating reaches a row only while its card is the one on screen in a    *)
(* live session and the card is due (or was boosted while on screen).      *)
(* Since a rating ends dueness, no card is ever rated twice for one due    *)
(* period: not by a double tap on two grades, not by the retry after a     *)
(* failed save, not by the buttons of an earlier reveal, not across the    *)
(* await of a concurrent rating or a second /review.                       *)
(***************************************************************************)
RatedOnlyWhileDue ==
  [][\A i \in Items :
       next_at'[i] # next_at[i] /\ session' # session
         => OnScreen(i) /\ (next_at[i] <= now \/ i \in boosted)]_vars

(***************************************************************************)
(* Leaving a session (Stop, nothing left, a restart) has no penalty: no    *)
(* row changes, so unattended cards stay due (review.py, module doc).      *)
(***************************************************************************)
NoPenalty ==
  [][session # {} /\ session' = {} => next_at' = next_at]_vars

(***************************************************************************)
(* A card drops out of the pass once rated: it is never on screen again in *)
(* that session, even when it is due again before the session ends.        *)
(***************************************************************************)
NoRepeatInSession ==
  \A s \in session : s.pending \notin s.rated

(***************************************************************************)
(* The user is never stuck on a card: while it is on screen some button    *)
(* that moves it on (show or a grade) is still unspent, unless a message   *)
(* was lost or a failed commit has broken a database session.              *)
(***************************************************************************)
NeverStuck ==
  ~lost /\ broken = {} =>
    \A s \in Live : s.pending # 0 =>
      \E b \in Buttons \ ledger :
        ItemOf(b) = s.pending /\ b[2] \in Grades \cup {"show"}

(***************************************************************************)
(* "Offer next due or stop": a session between two cards goes on to a card *)
(* or ends, unless a call of the handler failed on the way.                *)
(***************************************************************************)
MovesOn ==
  (\E s \in session : s.pending = 0) ~> (lost \/ \A s \in session : s.pending # 0)

(***************************************************************************)
(* What review.py promises after a failed save: the rating can simply be   *)
(* retried.  While the profile can be read, a grade button of the card on  *)
(* screen can apply its rating.                                            *)
(***************************************************************************)
RetryCanSucceed ==
  \A b \in Buttons \ ledger :
    Usable({"users"}) /\ b[2] \in Grades /\ OnScreen(ItemOf(b)) => ENABLED RateApplied(b)

(***************************************************************************)
(* The session keeps the promise of Agenda: on show is the pending card of *)
(* the live session.                                                       *)
(***************************************************************************)
Promise == INSTANCE Agenda WITH
  clock  <- now,
  due_at <- next_at,
  card   <- {s.pending : s \in Live} \ {0}

ImplementsAgenda == Promise!Spec
=============================================================================
