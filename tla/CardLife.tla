------------------------------- MODULE CardLife -------------------------------
(***************************************************************************)
(* The life of one learning-item row: saved with the New state, then rated *)
(* (advance + update_srs) and boosted in any order and at any time.  A     *)
(* rating is not guarded by dueness: the review session applies it to the  *)
(* card on screen, which a boost may have re-queued in the meantime.       *)
(***************************************************************************)
EXTENDS Srs

CONSTANTS MaxReps,   \* bound: successful reviews in a row
          MaxEase,   \* bound: the ease a card is still rated at
          MaxNow     \* bound: the clock, in minutes

ASSUME BoundsAssumption ==
  /\ MaxReps \in Nat
  /\ MaxEase \in Nat
  /\ MaxNow \in Nat

VARIABLES now,  \* Clock.utc_now()
          card  \* the row's SRS columns

vars == <<now, card>>

Init ==
  /\ now = 0
  /\ card = new_state(0)

\* review._rate_card: the engine's result is persisted as it is.
Rate(q) ==
  /\ card.repetitions < MaxReps
  /\ card.ease <= MaxEase
  /\ card' \in advance(card, q, now)
  /\ UNCHANGED now

\* ItemRepository.boost
Boost ==
  /\ card' = boost(now)
  /\ UNCHANGED now

Tick ==
  /\ now < MaxNow
  /\ now' = now + 1
  /\ UNCHANGED card

Next == (\E q \in Quality : Rate(q)) \/ Boost \/ Tick

Spec == Init /\ [][Next]_vars

-----------------------------------------------------------------------------

\* Every column has its type and no review lies in the future.
TypeOK ==
  /\ now \in Nat
  /\ card \in SRSState
  /\ card.last_review_at <= now

(***************************************************************************)
(* The row stays in the engine's range: ease never below 1.3, interval     *)
(* between 10 minutes and 180 days (srs.py MIN_EASE, MIN_REVIEW_MINUTES,   *)
(* MAX_INTERVAL_MINUTES), however the grades are mixed.                    *)
(***************************************************************************)
InRange ==
  /\ card.ease >= MIN_EASE
  /\ card.interval_minutes >= MIN_REVIEW_MINUTES
  /\ card.interval_minutes <= MAX_INTERVAL_MINUTES

(***************************************************************************)
(* `review` is earned: only a card with a success behind it and an         *)
(* interval of at least one day is in review, although Hard keeps the      *)
(* status and Good below the threshold does too.                           *)
(***************************************************************************)
ReviewIsEarned ==
  card.status = "review" =>
    /\ card.repetitions >= 1
    /\ card.interval_minutes >= REVIEW_THRESHOLD_MINUTES

(***************************************************************************)
(* The fixed first steps (one day, three days) are never a step back: a    *)
(* card that still has them ahead of it has a shorter interval.            *)
(***************************************************************************)
EarlyIntervals ==
  /\ card.repetitions = 0 => card.interval_minutes <= NEW_INTERVAL_MINUTES
  /\ card.repetitions = 1 => card.interval_minutes <= ONE_DAY_MINUTES

(***************************************************************************)
(* For every card the program can hold the grades are ordered: a better    *)
(* grade never brings the card back sooner, whatever the truncation does.  *)
(***************************************************************************)
GradesOrdered ==
  \A a \in Intervals(card, "again"), h \in Intervals(card, "hard"),
     g \in Intervals(card, "good"), e \in Intervals(card, "easy") :
    a <= h /\ h <= g /\ g <= e

(***************************************************************************)
(* A successful review (Hard, Good or Easy) brings the card back later     *)
(* than the one before it did, until the interval is at its cap: no card   *)
(* is stuck at an interval, whatever ease and truncation leave of it.      *)
(***************************************************************************)
SuccessLengthens ==
  [][card'.repetitions > card.repetitions =>
       \/ card'.interval_minutes > card.interval_minutes
       \/ card'.interval_minutes = MAX_INTERVAL_MINUTES]_vars

(***************************************************************************)
(* A rating or a boost takes the card out of the due queue: whatever is    *)
(* written to the row, it is not due again at that instant.                *)
(***************************************************************************)
NeverDueAtOnce ==
  [][card' # card => card'.next_review_at > now']_vars
=============================================================================
