--------------------------------- MODULE Srs ---------------------------------
(***************************************************************************)
(* The pure SRS engine of srs.py: the New / Boost state and the transition *)
(* from a quality grade to the next state.  Intervals and instants are in  *)
(* minutes.  Every ease the engine reaches is a multiple of 0.05 (up to    *)
(* float noise below 1e-9), so ease is kept in hundredths.                 *)
(* Card content (front, back, context) passes through unchanged and is not *)
(* represented.                                                            *)
(***************************************************************************)
EXTENDS Integers

MIN_EASE                 == 130
MAX_INTERVAL_MINUTES     == 259200
MIN_REVIEW_MINUTES       == 10
NEW_INTERVAL_MINUTES     == 20
NEW_EASE                 == 250
ONE_DAY_MINUTES          == 1440
THREE_DAYS_MINUTES       == 4320
REVIEW_THRESHOLD_MINUTES == 1440
AGAIN_EASE_PENALTY       == 20
HARD_EASE_PENALTY        == 15
EASY_EASE_BONUS          == 15

Quality   == {"again", "hard", "good", "easy"}
SRSStatus == {"learning", "review"}

\* last_review_at = None
NEVER == -1

SRSState == [ repetitions      : Nat,
              ease             : Nat,
              interval_minutes : Nat,
              next_review_at   : Nat,
              last_review_at   : Nat \cup {NEVER},
              status           : SRSStatus ]

Larger(a, b)  == IF a >= b THEN a ELSE b
Smaller(a, b) == IF a <= b THEN a ELSE b

-----------------------------------------------------------------------------

new_state(now) ==
  [ repetitions      |-> 0,
    ease             |-> NEW_EASE,
    interval_minutes |-> NEW_INTERVAL_MINUTES,
    next_review_at   |-> now + NEW_INTERVAL_MINUTES,
    last_review_at   |-> NEVER,
    status           |-> "learning" ]

\* Everything but the content of the boosted card is reset.
boost(now) == new_state(now)

(***************************************************************************)
(* int(p / q) of a float product.  The product is off by less than one ulp *)
(* per factor, so truncation gives the floor, except that a product that   *)
(* is exactly an integer may come out just below it and lose one minute    *)
(* (int(50 * (2.5 - 0.2)) is 114).                                       *)
(***************************************************************************)
Truncations(p, q) ==
  {p \div q} \cup (IF p % q = 0 THEN {(p \div q) - 1} ELSE {})

\* The first two reviews, shared by Good and Easy; {} in the steady state.
_fixed_interval(s) ==
  IF s.repetitions = 0 THEN {ONE_DAY_MINUTES}
  ELSE IF s.repetitions = 1 THEN {THREE_DAYS_MINUTES} ELSE {}

_good_interval(s) ==
  IF s.repetitions < 2 THEN _fixed_interval(s)
  ELSE Truncations(s.interval_minutes * s.ease, 100)

\* Mutant: Easy does not share Good's first two steps.
_easy_interval_NoSteps(s) == Truncations(s.interval_minutes * s.ease * 13, 1000)

_easy_interval(s) ==
  IF s.repetitions < 2 THEN _fixed_interval(s)
  ELSE Truncations(s.interval_minutes * s.ease * 13, 1000)

\* Mutant: Hard restarts from the minimum like Again.
RawIntervals_HardRestarts(s, q) ==
  IF q = "good" THEN _good_interval(s)
  ELSE IF q = "easy" THEN _easy_interval(s) ELSE {MIN_REVIEW_MINUTES}

\* The raw interval a grade asks for, before the cap.
\* int(interval * 1.2) is the exact floor for every interval up to the cap.
RawIntervals(s, q) ==
  IF q = "again" THEN {MIN_REVIEW_MINUTES}
  ELSE IF q = "hard" THEN {Larger(MIN_REVIEW_MINUTES, (s.interval_minutes * 12) \div 10)}
  ELSE IF q = "good" THEN _good_interval(s)
  ELSE _easy_interval(s)

Intervals(s, q) == {Smaller(MAX_INTERVAL_MINUTES, raw) : raw \in RawIntervals(s, q)}

\* Mutant: the penalties are applied without the floor.
NextEase_NoFloor(s, q) ==
  IF q = "again" THEN s.ease - AGAIN_EASE_PENALTY
  ELSE IF q = "hard" THEN s.ease - HARD_EASE_PENALTY
  ELSE IF q = "easy" THEN s.ease + EASY_EASE_BONUS
  ELSE s.ease

NextEase(s, q) ==
  IF q = "again" THEN Larger(MIN_EASE, s.ease - AGAIN_EASE_PENALTY)
  ELSE IF q = "hard" THEN Larger(MIN_EASE, s.ease - HARD_EASE_PENALTY)
  ELSE IF q = "easy" THEN s.ease + EASY_EASE_BONUS
  ELSE s.ease

\* Mutant: Again keeps the status, as Hard does.
NextStatus_AgainKeeps(s, q, interval) ==
  IF q \in {"good", "easy"} /\ interval >= REVIEW_THRESHOLD_MINUTES
  THEN "review" ELSE s.status

\* Good and Easy promote at the threshold and never demote; Hard keeps the status.
NextStatus(s, q, interval) ==
  IF q = "again" THEN "learning"
  ELSE IF q # "hard" /\ interval >= REVIEW_THRESHOLD_MINUTES THEN "review"
  ELSE s.status

\* The state a grade leads to when its interval is truncated to `interval`.
Graded(s, q, interval, now) ==
  [ repetitions      |-> IF q = "again" THEN 0 ELSE s.repetitions + 1,
    ease             |-> NextEase(s, q),
    interval_minutes |-> interval,
    next_review_at   |-> now + interval,
    last_review_at   |-> now,
    status           |-> NextStatus(s, q, interval) ]

\* advance(state, quality, now): the set of states the truncation allows.
advance(s, q, now) == {Graded(s, q, i, now) : i \in Intervals(s, q)}
=============================================================================
