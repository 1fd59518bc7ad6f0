--------------------------------- MODULE Study ---------------------------------
(***************************************************************************)
(* One card of CardLife in the sessions of ReviewSession, among the user's *)
(* other cards: a rating that the session applies is the engine's          *)
(* transition of the row, and the row's new due time is what the session's *)
(* next query reads (review._rate_card: advance, then update_srs).         *)
(***************************************************************************)
EXTENDS CardLife, FiniteSets

CONSTANTS Items, TTL, MaxFaults, MaxChat,  \* of ReviewSession
          Mine,                            \* the card of CardLife
          OtherIntervals,                  \* of the other cards' ratings
          OtherDue                         \* when other cards are due at first

ASSUME StudyAssumption ==
  /\ Items \subseteq Nat \ {0} /\ IsFiniteSet(Items) /\ Mine \in Items
  /\ OtherIntervals \subseteq 1..MAX_INTERVAL_MINUTES
  /\ OtherDue \subseteq Nat
  /\ TTL \in Nat \ {0}
  /\ MaxFaults \in Nat

VARIABLES next_at, session, chat, ledger, acking, broken, boosted, lost, faults

R == INSTANCE ReviewSession WITH
  Grades      <- Quality,
  Delays      <- [q \in Quality |-> 1..MAX_INTERVAL_MINUTES],
  NewInterval <- NEW_INTERVAL_MINUTES,
  FirstDue    <- OtherDue \cup {NEW_INTERVAL_MINUTES}

dialog     == <<next_at, session, chat, ledger, acking, broken, boosted, lost, faults>>
study_vars == <<now, card, dialog>>
-----------------------------------------------------------------------------
StudyInit == Init /\ R!Init /\ next_at[Mine] = card.next_review_at

RateMine(b) ==
  /\ R!RatePressed(b) /\ R!ItemOf(b) = Mine
  /\ Rate(b[2])
  /\ R!Rated(b, card'.interval_minutes)

RateOther(b) ==
  /\ R!RatePressed(b) /\ R!ItemOf(b) # Mine
  /\ \E d \in OtherIntervals : R!Rated(b, d)
  /\ UNCHANGED card

BoostCard(b) ==
  /\ R!Boosted(b)
  /\ IF R!ItemOf(b) = Mine THEN Boost ELSE UNCHANGED card

Time == Tick /\ R!Tick

\* No row is written.
NoWrite(b) ==
  \/ R!StaleButton(b) \/ R!MessageGone(b) \/ R!_show_answer(b)
  \/ R!RateFails(b)   \/ R!Raises(b)      \/ R!BoostFails(b)

Dialog ==
  /\ \/ R!start_review_session
     \/ \E b \in R!Buttons \ ledger : NoWrite(b)
     \/ \E i \in Items : R!Stop(i)
     \/ \E a \in acking : R!Continue(a) \/ R!AckFails(a)
     \/ R!ProfileFails
     \/ R!Restart
  /\ UNCHANGED card

StudyNext ==
  \/ \E b \in R!Buttons \ ledger : RateMine(b) \/ RateOther(b) \/ BoostCard(b)
  \/ Time
  \/ Dialog

StudySpec == StudyInit /\ [][StudyNext]_study_vars
-----------------------------------------------------------------------------
(* Properties *)

(***************************************************************************)
(* The interval is earned: a rating reaches the engine only when the       *)
(* interval promised by the rating before it has passed, or when the card  *)
(* was boosted while it was on screen.  No double tap, retry, replayed     *)
(* button or concurrent rating makes ease and interval grow without the    *)
(* time that stands for them.                                              *)
(***************************************************************************)
EarnedInterval ==
  [][card' # card /\ card'.last_review_at # NEVER =>
       \/ Mine \in boosted
       \/ /\ card.next_review_at <= now
          /\ \/ card.last_review_at = NEVER
             \/ now - card.last_review_at >= card.interval_minutes]_study_vars
=============================================================================
