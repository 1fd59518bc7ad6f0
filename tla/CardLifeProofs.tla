---------------------------- MODULE CardLifeProofs ----------------------------
(***************************************************************************)
(* Proofs about CardLife, for every history of ratings and boosts and      *)
(* every value of the bounds, and about Study, which puts the card into    *)
(* the sessions.                                                           *)
(***************************************************************************)
EXTENDS Study, TLAPS

USE DEF MIN_EASE, MAX_INTERVAL_MINUTES, MIN_REVIEW_MINUTES,
        NEW_INTERVAL_MINUTES, NEW_EASE, ONE_DAY_MINUTES, THREE_DAYS_MINUTES,
        REVIEW_THRESHOLD_MINUTES, AGAIN_EASE_PENALTY, HARD_EASE_PENALTY,
        EASY_EASE_BONUS, NEVER, Quality, SRSStatus, Larger, Smaller

(***************************************************************************)
(* The part of a card that the engine reads, in range: what holds of every *)
(* reachable card, and what makes advance well behaved.                    *)
(***************************************************************************)
Healthy(s) ==
  /\ s.repetitions \in Nat
  /\ s.ease \in Nat /\ s.ease >= MIN_EASE
  /\ s.interval_minutes \in Nat
  /\ s.interval_minutes >= MIN_REVIEW_MINUTES
  /\ s.interval_minutes <= MAX_INTERVAL_MINUTES
  /\ s.status \in SRSStatus
  /\ s.repetitions = 0 => s.interval_minutes <= NEW_INTERVAL_MINUTES
  /\ s.repetitions = 1 => s.interval_minutes <= ONE_DAY_MINUTES
  /\ s.status = "review" => /\ s.repetitions >= 1
                            /\ s.interval_minutes >= REVIEW_THRESHOLD_MINUTES

IInv == TypeOK /\ Healthy(card)

-----------------------------------------------------------------------------

(***************************************************************************)
(* Truncation of a float product: within one minute below the quotient.    *)
(* (srs.py int(...) in _good_interval and _easy_interval.)                 *)
(***************************************************************************)
LEMMA TruncationBounds ==
  ASSUME NEW p \in Nat, NEW q \in Nat \ {0}, NEW t \in Truncations(p, q)
  PROVE  t \in Int /\ t * q <= p /\ p <= t * q + q
<1>1. /\ p \div q \in Int
      /\ p % q \in 0..(q - 1)
      /\ p = q * (p \div q) + (p % q)
  BY SMT
<1>2. CASE t = p \div q
  BY <1>1, <1>2, SMT
<1>3. CASE p % q = 0 /\ t = (p \div q) - 1
  <2> DEFINE d == p \div q
  <2>1. p = q * d /\ d \in Int
    BY <1>1, <1>3, SMT
  <2>2. t * q = q * d - q
    BY <2>1, <1>3, SMT
  <2> QED BY <2>1, <2>2, <1>3, SMT
<1> QED BY <1>2, <1>3 DEF Truncations

(***************************************************************************)
(* Truncation always has an outcome.                                       *)
(***************************************************************************)
LEMMA TruncationsNonEmpty ==
  ASSUME NEW p, NEW q
  PROVE  \E t : t \in Truncations(p, q)
<1>1. (p \div q) \in Truncations(p, q)
  BY DEF Truncations
<1> QED BY <1>1

(***************************************************************************)
(* An ease of at least 1.3 and an interval of at least ten minutes.        *)
(***************************************************************************)
LEMMA EaseProduct ==
  ASSUME NEW i \in Nat, NEW e \in Nat, e >= 130
  PROVE  i * e \in Nat /\ i * e >= 130 * i
<1> DEFINE d == e - 130
<1>1. d \in Nat /\ e = 130 + d
  OBVIOUS
<1>2. i * e = 130 * i + i * d
  BY <1>1, SMT
<1>3. i * d \in Nat
  BY <1>1, SMT
<1> QED BY <1>2, <1>3, SMT

(***************************************************************************)
(* Hard's growth: the factor 1.2, floored, never below the interval, and   *)
(* above it by at least two minutes from ten minutes on.                   *)
(***************************************************************************)
LEMMA HardGrowth ==
  ASSUME NEW i \in Nat, i >= 10
  PROVE  /\ (i * 12) \div 10 \in Nat
         /\ (i * 12) \div 10 > i
         /\ 10 * ((i * 12) \div 10) <= 12 * i
BY SMT

(***************************************************************************)
(* The steady-state intervals of Good and Easy (third review and later):   *)
(* Good is at least Hard's growth of any healthy card, Easy at least Good. *)
(***************************************************************************)
LEMMA SteadyGrowth ==
  ASSUME NEW i \in Nat, i >= 10, NEW p \in Nat, p >= 130 * i,
         NEW g \in Truncations(p, 100),
         NEW x \in Truncations(p * 13, 1000)
  PROVE  /\ g \in Int /\ x \in Int
         /\ (i * 12) \div 10 <= g
         /\ g <= x
<1>1. p * 13 \in Nat
  OBVIOUS
<1>2. g \in Int /\ g * 100 <= p /\ p <= g * 100 + 100
  BY TruncationBounds
<1>3. x \in Int /\ x * 1000 <= p * 13 /\ p * 13 <= x * 1000 + 1000
  BY <1>1, TruncationBounds
<1>4. 10 * ((i * 12) \div 10) <= 12 * i /\ (i * 12) \div 10 \in Nat
  BY HardGrowth
<1>5. g <= x
  BY <1>2, <1>3, SMT
<1>6. (i * 12) \div 10 <= g
  <2> DEFINE h == (i * 12) \div 10
  <2>1. h \in Nat /\ 10 * h <= 12 * i
    BY <1>4
  <2> HIDE DEF h
  <2>2. h <= g
    BY <2>1, <1>2, SMT
  <2> QED BY <2>2 DEF h
<1> QED BY <1>2, <1>3, <1>5, <1>6

(***************************************************************************)
(* What each grade's interval can be on a healthy card (srs.advance).      *)
(***************************************************************************)
LEMMA IntervalsOfGrades ==
  ASSUME NEW s, Healthy(s),
         NEW a \in Intervals(s, "again"), NEW h \in Intervals(s, "hard"),
         NEW g \in Intervals(s, "good"), NEW e \in Intervals(s, "easy")
  PROVE  /\ a = MIN_REVIEW_MINUTES
         /\ h \in Nat /\ g \in Nat /\ e \in Nat
         /\ a <= h /\ h <= g /\ g <= e /\ e <= MAX_INTERVAL_MINUTES
         /\ s.interval_minutes < h \/ h = MAX_INTERVAL_MINUTES
         /\ s.repetitions = 0 => h <= ONE_DAY_MINUTES /\ g = ONE_DAY_MINUTES /\ e = ONE_DAY_MINUTES
         /\ s.status = "review" => h >= REVIEW_THRESHOLD_MINUTES
<1> DEFINE i == s.interval_minutes
           H == (i * 12) \div 10
<1>1. i \in Nat /\ i >= 10 /\ i <= MAX_INTERVAL_MINUTES
  BY DEF Healthy
<1>2. H \in Nat /\ H > i /\ 10 * H <= 12 * i
  BY <1>1, HardGrowth
<1>3. a = MIN_REVIEW_MINUTES
  BY DEF Intervals, RawIntervals
<1>4. h = Smaller(MAX_INTERVAL_MINUTES, Larger(MIN_REVIEW_MINUTES, H))
  BY DEF Intervals, RawIntervals
<1>5. h = Smaller(MAX_INTERVAL_MINUTES, H)
  <2> HIDE DEF H, i
  <2> QED BY <1>1, <1>2, <1>4
<1>6. PICK rg \in _good_interval(s) : g = Smaller(MAX_INTERVAL_MINUTES, rg)
  BY DEF Intervals, RawIntervals
<1>7. PICK re \in _easy_interval(s) : e = Smaller(MAX_INTERVAL_MINUTES, re)
  BY DEF Intervals, RawIntervals
<1>8. s.repetitions \in Nat
  BY DEF Healthy
<1>9. rg \in Int /\ re \in Int /\ H <= rg /\ rg <= re
  <2>1. CASE s.repetitions = 0
    <3>1. rg = ONE_DAY_MINUTES /\ re = ONE_DAY_MINUTES
      BY <2>1 DEF _good_interval, _easy_interval, _fixed_interval
    <3>2. i <= NEW_INTERVAL_MINUTES
      BY <2>1 DEF Healthy
    <3> HIDE DEF H, i
    <3> QED BY <3>1, <3>2, <1>2, <1>1
  <2>2. CASE s.repetitions = 1
    <3>1. rg = THREE_DAYS_MINUTES /\ re = THREE_DAYS_MINUTES
      BY <2>2 DEF _good_interval, _easy_interval, _fixed_interval
    <3>2. i <= ONE_DAY_MINUTES
      BY <2>2 DEF Healthy
    <3> HIDE DEF H, i
    <3> QED BY <3>1, <3>2, <1>2, <1>1
  <2>3. CASE s.repetitions >= 2
    <3>1. /\ rg \in Truncations(i * s.ease, 100)
          /\ re \in Truncations(i * s.ease * 13, 1000)
      BY <2>3, <1>8 DEF _good_interval, _easy_interval
    <3>2. s.ease \in Nat /\ s.ease >= 130
      BY DEF Healthy
    <3>3. i >= 10 /\ i \in Nat
      BY <1>1
    <3> DEFINE p == i * s.ease
    <3>4. p \in Nat /\ p >= 130 * i
      BY <3>2, <3>3, EaseProduct
    <3>5. rg \in Truncations(p, 100) /\ re \in Truncations(p * 13, 1000)
      BY <3>1
    <3> HIDE DEF i, p
    <3>6. rg \in Int /\ re \in Int /\ (i * 12) \div 10 <= rg /\ rg <= re
      BY <3>3, <3>4, <3>5, SteadyGrowth
    <3> QED BY <3>6
  <2> QED BY <2>1, <2>2, <2>3, <1>8
<1>10. s.repetitions = 0 => /\ rg = ONE_DAY_MINUTES /\ re = ONE_DAY_MINUTES
                            /\ i <= NEW_INTERVAL_MINUTES
  BY DEF Healthy, _good_interval, _easy_interval, _fixed_interval
<1>11. s.status = "review" => i >= REVIEW_THRESHOLD_MINUTES
  BY DEF Healthy
<1> HIDE DEF H
<1>12. /\ h \in Nat /\ g \in Nat /\ e \in Nat
       /\ 10 <= h /\ h <= g /\ g <= e /\ e <= MAX_INTERVAL_MINUTES
       /\ i < h \/ h = MAX_INTERVAL_MINUTES
  <2> HIDE DEF i
  <2> QED BY <1>1, <1>2, <1>5, <1>6, <1>7, <1>9
<1>13. s.repetitions = 0 => h <= ONE_DAY_MINUTES /\ g = ONE_DAY_MINUTES /\ e = ONE_DAY_MINUTES
  <2> HIDE DEF i
  <2> QED BY <1>1, <1>2, <1>5, <1>6, <1>7, <1>10
<1>14. s.status = "review" => h >= REVIEW_THRESHOLD_MINUTES
  <2> HIDE DEF i
  <2> QED BY <1>1, <1>11, <1>12
<1> QED BY <1>3, <1>12, <1>13, <1>14

(***************************************************************************)
(* The graded state itself is healthy again (srs.advance).                 *)
(***************************************************************************)
LEMMA AdvanceHealthy ==
  ASSUME NEW s, Healthy(s), NEW q \in Quality, NEW t \in Nat,
         NEW n \in advance(s, q, t)
  PROVE  /\ Healthy(n)
         /\ n \in SRSState
         /\ n.last_review_at = t
         /\ n.next_review_at = t + n.interval_minutes
         /\ n.next_review_at > t
         /\ n.repetitions > s.repetitions =>
              \/ n.interval_minutes > s.interval_minutes
              \/ n.interval_minutes = MAX_INTERVAL_MINUTES
<1>1. PICK i \in Intervals(s, q) : n = Graded(s, q, i, t)
  BY DEF advance
<1>0. s.repetitions \in Nat
  BY DEF Healthy
<1>2. /\ i \in Nat /\ i >= MIN_REVIEW_MINUTES /\ i <= MAX_INTERVAL_MINUTES
      /\ q # "again" => s.interval_minutes < i \/ i = MAX_INTERVAL_MINUTES
      /\ q = "again" => i = MIN_REVIEW_MINUTES
      /\ s.repetitions = 0 => i <= ONE_DAY_MINUTES
      /\ s.status = "review" => i >= REVIEW_THRESHOLD_MINUTES \/ q = "again"
  <2>1. PICK rg : rg \in _good_interval(s)
    <3>1. CASE s.repetitions < 2
      BY <3>1, ONE_DAY_MINUTES \in {ONE_DAY_MINUTES},
         THREE_DAYS_MINUTES \in {THREE_DAYS_MINUTES}, <1>0 DEF _good_interval, _fixed_interval
    <3>2. CASE ~(s.repetitions < 2)
      <4>1. _good_interval(s) = Truncations(s.interval_minutes * s.ease, 100)
        BY <3>2 DEF _good_interval
      <4> QED BY <4>1, TruncationsNonEmpty
    <3> QED BY <3>1, <3>2
  <2>2. PICK re : re \in _easy_interval(s)
    <3>1. CASE s.repetitions < 2
      BY <3>1, ONE_DAY_MINUTES \in {ONE_DAY_MINUTES},
         THREE_DAYS_MINUTES \in {THREE_DAYS_MINUTES}, <1>0 DEF _easy_interval, _fixed_interval
    <3>2. CASE ~(s.repetitions < 2)
      <4>1. _easy_interval(s) = Truncations(s.interval_minutes * s.ease * 13, 1000)
        BY <3>2 DEF _easy_interval
      <4> QED BY <4>1, TruncationsNonEmpty
    <3> QED BY <3>1, <3>2
  <2>3. /\ rg \in RawIntervals(s, "good")
        /\ re \in RawIntervals(s, "easy")
        /\ \E r : r \in RawIntervals(s, "again")
        /\ \E r : r \in RawIntervals(s, "hard")
    BY <2>1, <2>2 DEF RawIntervals
  <2>4. \A k : (\E r : r \in RawIntervals(s, k)) => \E x : x \in Intervals(s, k)
    <3> USE DEF Intervals
    <3> HIDE DEF Smaller
    <3> QED OBVIOUS
  <2>5. PICK a, h, g, e : /\ a \in Intervals(s, "again") /\ h \in Intervals(s, "hard")
                         /\ g \in Intervals(s, "good") /\ e \in Intervals(s, "easy")
    BY <2>3, <2>4
  <2>6. s.interval_minutes \in Nat
    BY DEF Healthy
  <2>7. CASE q = "again"
    BY <2>5, <2>6, <2>7, IntervalsOfGrades
  <2>8. CASE q = "hard"
    BY <2>5, <2>6, <2>8, IntervalsOfGrades
  <2>9. CASE q = "good"
    BY <2>5, <2>6, <2>9, IntervalsOfGrades
  <2>10. CASE q = "easy"
    BY <2>5, <2>6, <2>10, IntervalsOfGrades
  <2> QED BY <2>7, <2>8, <2>9, <2>10
<1>3. NextEase(s, q) \in Nat /\ NextEase(s, q) >= MIN_EASE
  BY DEF Healthy, NextEase
<1>4. /\ NextStatus(s, q, i) \in SRSStatus
      /\ NextStatus(s, q, i) = "review" =>
           q # "again" /\ i >= REVIEW_THRESHOLD_MINUTES
  BY <1>2 DEF Healthy, NextStatus
<1>5. /\ n.repetitions = IF q = "again" THEN 0 ELSE s.repetitions + 1
      /\ n.ease = NextEase(s, q)
      /\ n.interval_minutes = i
      /\ n.next_review_at = t + i
      /\ n.last_review_at = t
      /\ n.status = NextStatus(s, q, i)
  BY <1>1 DEF Graded
<1>6. s.repetitions \in Nat
  BY DEF Healthy
<1>7. Healthy(n)
  BY <1>2, <1>3, <1>4, <1>5, <1>6 DEF Healthy
<1>8. n \in SRSState
  BY <1>1, <1>2, <1>3, <1>4, <1>6 DEF Graded, SRSState
<1> QED BY <1>2, <1>5, <1>6, <1>7, <1>8

(***************************************************************************)
(* A new or boosted card is healthy (srs.new_state, srs.boost).            *)
(***************************************************************************)
LEMMA NewHealthy ==
  ASSUME NEW t \in Nat
  PROVE  /\ Healthy(new_state(t))
         /\ new_state(t) \in SRSState
         /\ new_state(t).last_review_at <= t
         /\ new_state(t).next_review_at > t
         /\ new_state(t).repetitions = 0
BY DEF Healthy, new_state, SRSState

-----------------------------------------------------------------------------

LEMMA InitInv == Init => IInv
  BY NewHealthy DEF Init, IInv, TypeOK

LEMMA StepInv ==
  ASSUME IInv, [Next]_vars
  PROVE  IInv'
<1> USE DEF IInv, TypeOK
<1>1. ASSUME NEW q \in Quality, Rate(q) PROVE IInv'
  <2>1. card' \in advance(card, q, now) /\ now' = now
    BY <1>1 DEF Rate
  <2>2. Healthy(card') /\ card' \in SRSState /\ card'.last_review_at = now
    BY <2>1, AdvanceHealthy
  <2> QED BY <2>1, <2>2
<1>2. CASE Boost
  BY <1>2, NewHealthy DEF Boost, boost
<1>3. CASE Tick
  <2>1. card' = card /\ now' = now + 1
    BY <1>3 DEF Tick
  <2>2. card.last_review_at \in Int
    BY DEF SRSState
  <2> QED BY <2>1, <2>2
<1>4. CASE UNCHANGED vars
  BY <1>4 DEF vars
<1> QED BY <1>1, <1>2, <1>3, <1>4 DEF Next

(***************************************************************************)
(* Every column keeps its type, the ranges hold and the first steps of a   *)
(* card are short, under any history of Rate, Boost and Tick.              *)
(***************************************************************************)
THEOREM Inductive == Spec => []IInv
<1>1. IInv /\ [Next]_vars => IInv'
  BY StepInv
<1> QED BY InitInv, <1>1, PTL DEF Spec

(***************************************************************************)
(* The types hold.                                                         *)
(***************************************************************************)
THEOREM TypeCorrect == Spec => []TypeOK
<1>1. IInv => TypeOK
  BY DEF IInv
<1> QED BY <1>1, Inductive, PTL

(***************************************************************************)
(* Ease never drops below 1.3 and no interval leaves 10 minutes..180 days. *)
(***************************************************************************)
THEOREM RangeHolds == Spec => []InRange
<1>1. IInv => InRange
  BY DEF IInv, Healthy, InRange
<1> QED BY <1>1, Inductive, PTL

(***************************************************************************)
(* A card in review has a success behind it and an interval of a day.      *)
(***************************************************************************)
THEOREM ReviewEarned == Spec => []ReviewIsEarned
<1>1. IInv => ReviewIsEarned
  BY DEF IInv, Healthy, ReviewIsEarned
<1> QED BY <1>1, Inductive, PTL

(***************************************************************************)
(* On every reachable card, Again <= Hard <= Good <= Easy.                 *)
(***************************************************************************)
THEOREM GradeOrder == Spec => []GradesOrdered
<1>1. IInv => GradesOrdered
  <2> SUFFICES ASSUME Healthy(card),
                      NEW a \in Intervals(card, "again"), NEW h \in Intervals(card, "hard"),
                      NEW g \in Intervals(card, "good"), NEW e \in Intervals(card, "easy")
               PROVE  a <= h /\ h <= g /\ g <= e
    BY DEF IInv, GradesOrdered
  <2> QED BY IntervalsOfGrades
<1> QED BY <1>1, Inductive, PTL

(***************************************************************************)
(* A success lengthens the interval or leaves it at its cap: two minutes   *)
(* at least are gained by Hard, and no truncation takes back more.         *)
(***************************************************************************)
THEOREM SuccessGrows == Spec => SuccessLengthens
<1> DEFINE Longer == \/ card'.interval_minutes > card.interval_minutes
                     \/ card'.interval_minutes = MAX_INTERVAL_MINUTES
<1>1. IInv /\ [Next]_vars => [card'.repetitions > card.repetitions => Longer]_vars
  <2> SUFFICES ASSUME IInv, Next, card'.repetitions > card.repetitions
               PROVE  Longer
    BY DEF vars
  <2> USE DEF IInv, TypeOK
  <2>1. ASSUME NEW q \in Quality, Rate(q) PROVE Longer
    BY <2>1, AdvanceHealthy DEF Rate
  <2>2. CASE Boost
    <3>1. card'.repetitions = 0 /\ card.repetitions \in Nat
      BY <2>2, NewHealthy DEF Boost, boost, Healthy
    <3> QED BY <3>1
  <2>3. CASE Tick
    BY <2>3 DEF Tick, Healthy
  <2> QED BY <2>1, <2>2, <2>3 DEF Next
<1> QED BY <1>1, Inductive, PTL DEF Spec, SuccessLengthens

(***************************************************************************)
(* No rating or boost leaves the card due at the same instant.             *)
(***************************************************************************)
THEOREM NotDueAtOnce == Spec => NeverDueAtOnce
<1>1. IInv /\ [Next]_vars => [card' # card => card'.next_review_at > now']_vars
  <2> SUFFICES ASSUME IInv, Next, card' # card PROVE card'.next_review_at > now'
    BY DEF vars
  <2> USE DEF IInv, TypeOK
  <2>1. ASSUME NEW q \in Quality, Rate(q) PROVE card'.next_review_at > now'
    BY <2>1, AdvanceHealthy DEF Rate
  <2>2. CASE Boost
    BY <2>2, NewHealthy DEF Boost, boost
  <2>3. CASE Tick
    BY <2>3 DEF Tick
  <2> QED BY <2>1, <2>2, <2>3 DEF Next
<1> QED BY <1>1, Inductive, PTL DEF Spec, NeverDueAtOnce
-----------------------------------------------------------------------------
(* The card in its sessions *)

HIDE DEF MIN_EASE, MAX_INTERVAL_MINUTES, MIN_REVIEW_MINUTES,
         NEW_INTERVAL_MINUTES, NEW_EASE, ONE_DAY_MINUTES, THREE_DAYS_MINUTES,
         REVIEW_THRESHOLD_MINUTES, AGAIN_EASE_PENALTY, HARD_EASE_PENALTY,
         EASY_EASE_BONUS, NEVER, Quality, SRSStatus, Larger, Smaller

RP == INSTANCE ReviewSessionProofs WITH
  Grades      <- Quality,
  Delays      <- [q \in Quality |-> 1..MAX_INTERVAL_MINUTES],
  NewInterval <- NEW_INTERVAL_MINUTES,
  FirstDue    <- OtherDue \cup {NEW_INTERVAL_MINUTES}

\* What ReviewSession assumes of its constants.
LEMMA SessionAssumptions ==
  /\ Items \subseteq Nat \ {0} /\ IsFiniteSet(Items)
  /\ Quality # {} /\ {"show", "boost"} \cap Quality = {}
  /\ [q \in Quality |-> 1..MAX_INTERVAL_MINUTES] \in [Quality -> SUBSET (Nat \ {0})]
  /\ NEW_INTERVAL_MINUTES \in Nat \ {0}
  /\ TTL \in Nat \ {0}
  /\ OtherDue \cup {NEW_INTERVAL_MINUTES} \subseteq Nat
  /\ MaxNow \in Nat /\ MaxFaults \in Nat
<1>1. Quality # {} /\ {"show", "boost"} \cap Quality = {}
  BY DEF Quality
<1>2. NEW_INTERVAL_MINUTES \in Nat \ {0}
  BY DEF NEW_INTERVAL_MINUTES
<1>3. 1..MAX_INTERVAL_MINUTES \in SUBSET (Nat \ {0})
  OBVIOUS
<1> QED
  BY <1>1, <1>2, <1>3, StudyAssumption, BoundsAssumption

(***************************************************************************)
(* ReviewSession is the same module whether it is reached through its      *)
(* proofs or not.                                                          *)
(***************************************************************************)
LEMMA SameSession == (R!Init => RP!Init) /\ (R!Next => RP!Next)
  BY DEF R!Init, RP!Init, R!Next, RP!Next, R!Press, RP!Press,
         R!start_review_session, RP!start_review_session, R!StaleButton, RP!StaleButton,
         R!MessageGone, RP!MessageGone, R!_show_answer, RP!_show_answer,
         R!RateApplied, RP!RateApplied, R!Rated, RP!Rated,
         R!RatePressed, RP!RatePressed, R!RateFails, RP!RateFails, R!Raises, RP!Raises,
         R!Boost, RP!Boost, R!Boosted, RP!Boosted, R!BoostFails, RP!BoostFails,
         R!BoostPressed, RP!BoostPressed, R!Stop, RP!Stop, R!Continue, RP!Continue,
         R!AckFails, RP!AckFails, R!Tick, RP!Tick, R!ProfileFails, RP!ProfileFails,
         R!Restart, RP!Restart, R!first_seen, RP!first_seen, R!Usable, RP!Usable,
         R!Fault, RP!Fault, R!NotDelivered, RP!NotDelivered, R!Delivered, RP!Delivered,
         R!Present, RP!Present, R!due, RP!due, R!Oldest, RP!Oldest,
         R!_next_due_id, RP!_next_due_id, R!_set_session, RP!_set_session,
         R!OnScreen, RP!OnScreen, R!Live, RP!Live, R!ItemOf, RP!ItemOf,
         R!Buttons, RP!Buttons, R!Labels, RP!Labels, R!vars, RP!vars,
         R!Cardinality, RP!Cardinality

\* What the engine leaves in the row: the due time is the review plus the interval.
DueAfterReview ==
  card.last_review_at = NEVER \/ card.next_review_at = card.last_review_at + card.interval_minutes

\* The row of the session is the row of the engine.
SameRow == next_at[Mine] = card.next_review_at

StudyInv == IInv /\ RP!IInv /\ DueAfterReview /\ SameRow

(***************************************************************************)
(* A step of the study is one of the card's life or leaves the card alone. *)
(***************************************************************************)
LEMMA StepOfCard ==
  ASSUME [StudyNext]_study_vars
  PROVE  [Next]_vars
<1>1. ASSUME NEW b, RateMine(b)
      PROVE  Next
  BY <1>1 DEF RateMine, R!RatePressed, Next
<1>2. ASSUME NEW b, RateOther(b)
      PROVE  UNCHANGED vars
  BY <1>2 DEF RateOther, R!Rated, vars
<1>3. ASSUME NEW b, BoostCard(b)
      PROVE  [Next]_vars
  BY <1>3 DEF BoostCard, R!Boosted, R!BoostPressed, Next, vars
<1>4. ASSUME Dialog
      PROVE  UNCHANGED vars
  BY <1>4 DEF Dialog, NoWrite, R!start_review_session, R!StaleButton, R!MessageGone,
       R!_show_answer, R!RateFails, R!Raises, R!BoostFails, R!BoostPressed, R!Stop,
       R!Continue, R!AckFails, R!ProfileFails, R!Restart, vars
<1>5. Time => Next
  BY DEF Time, Next
<1>6. UNCHANGED study_vars => UNCHANGED vars
  BY DEF study_vars, vars
<1> QED
  BY <1>1, <1>2, <1>3, <1>4, <1>5, <1>6 DEF StudyNext

\* The engine's interval is one that the session knows.
LEMMA RatedInterval ==
  ASSUME IInv, NEW q \in Quality, Rate(q)
  PROVE  /\ card'.interval_minutes \in 1..MAX_INTERVAL_MINUTES
         /\ card'.next_review_at = now + card'.interval_minutes
         /\ card'.last_review_at = now
<1>1. card' \in advance(card, q, now) /\ now \in Nat
  BY DEF Rate, IInv, TypeOK
<1>2. /\ Healthy(card') /\ card'.last_review_at = now
      /\ card'.next_review_at = now + card'.interval_minutes
  BY <1>1, AdvanceHealthy DEF IInv
<1>3. MIN_REVIEW_MINUTES = 10 /\ MAX_INTERVAL_MINUTES \in Nat
  BY DEF MIN_REVIEW_MINUTES, MAX_INTERVAL_MINUTES
<1> QED
  BY <1>2, <1>3 DEF Healthy

(***************************************************************************)
(* It is a step of the sessions or leaves them alone.                      *)
(***************************************************************************)
LEMMA StepOfSession ==
  ASSUME IInv, [StudyNext]_study_vars
  PROVE  [R!Next]_(R!vars)
<1>1. ASSUME NEW b \in R!Buttons \ ledger, NEW d \in 1..MAX_INTERVAL_MINUTES, R!Rated(b, d)
      PROVE  R!Next
  <2>1. b[2] \in Quality
    BY <1>1 DEF R!Rated, R!RatePressed
  <2>2. R!RateApplied(b)
    BY <1>1, <2>1 DEF R!RateApplied
  <2> QED
    BY <2>2 DEF R!Press, R!Next
<1>2. ASSUME NEW b \in R!Buttons \ ledger, RateMine(b)
      PROVE  R!Next
  <2>1. b[2] \in Quality /\ Rate(b[2]) /\ R!Rated(b, card'.interval_minutes)
    BY <1>2 DEF RateMine, R!RatePressed
  <2> QED
    BY <1>1, <2>1, RatedInterval
<1>3. ASSUME NEW b \in R!Buttons \ ledger, RateOther(b)
      PROVE  R!Next
  BY <1>1, <1>3, StudyAssumption DEF RateOther
<1>4. ASSUME NEW b \in R!Buttons \ ledger, BoostCard(b)
      PROVE  R!Next
  BY <1>4 DEF BoostCard, R!Boost, R!Press, R!Next
<1>5. ASSUME Dialog
      PROVE  R!Next
  BY <1>5 DEF Dialog, NoWrite, R!Boost, R!Press, R!Next
<1>6. Time => R!Next
  BY DEF Time, R!Next
<1>7. UNCHANGED study_vars => UNCHANGED R!vars
  BY DEF study_vars, dialog, R!vars
<1> QED
  BY <1>2, <1>3, <1>4, <1>5, <1>6, <1>7 DEF StudyNext

\* What ReviewSessionProofs shows of its invariant.
LEMMA SessionInv ==
  /\ R!Init => RP!IInv
  /\ RP!IInv /\ [R!Next]_(R!vars) => RP!IInv'
<1>1. R!Init => RP!IInv
  BY SessionAssumptions, SameSession, RP!InitInv DEF IsFiniteSet, RP!IsFiniteSet
<1>2. RP!IInv /\ [RP!Next]_(RP!vars) => RP!IInv'
  BY SessionAssumptions, RP!StepInv DEF IsFiniteSet, RP!IsFiniteSet
<1>3. UNCHANGED R!vars => UNCHANGED RP!vars
  BY DEF R!vars, RP!vars
<1> QED
  BY <1>1, <1>2, <1>3, SameSession

\* A grade that is accepted is of a card that is due, or was boosted on screen.
LEMMA SessionRates ==
  ASSUME RP!IInv, NEW b, R!RatePressed(b)
  PROVE  next_at[R!ItemOf(b)] <= now \/ R!ItemOf(b) \in boosted
<1>1. RP!RatePressed(b) /\ RP!ItemOf(b) = R!ItemOf(b)
  BY DEF R!RatePressed, RP!RatePressed, R!first_seen, RP!first_seen, R!Usable, RP!Usable,
         R!Buttons, RP!Buttons, R!Labels, RP!Labels, R!OnScreen, RP!OnScreen,
         R!Live, RP!Live, R!ItemOf, RP!ItemOf
<1> QED
  BY <1>1, SessionAssumptions, RP!RatedIsDue DEF IsFiniteSet, RP!IsFiniteSet

(***************************************************************************)
(* The row that the engine writes is the row that the queue reads.         *)
(***************************************************************************)
LEMMA StepRow ==
  ASSUME StudyInv, [StudyNext]_study_vars
  PROVE  DueAfterReview' /\ SameRow'
<1>1. next_at \in [Items -> Nat] /\ Mine \in Items /\ now \in Nat
  BY StudyAssumption DEF StudyInv, RP!IInv, RP!World, IInv, TypeOK
<1>2. ASSUME NEW b, RateMine(b)
      PROVE  DueAfterReview' /\ SameRow'
  <2>1. b[2] \in Quality /\ Rate(b[2]) /\ R!ItemOf(b) = Mine
    BY <1>2 DEF RateMine, R!RatePressed
  <2>2. /\ card'.next_review_at = now + card'.interval_minutes
        /\ card'.last_review_at = now
    BY <2>1, RatedInterval DEF StudyInv
  <2>3. next_at' = [next_at EXCEPT ![Mine] = now + card'.interval_minutes]
    BY <1>2, <2>1 DEF RateMine, R!Rated
  <2> QED
    BY <1>1, <2>2, <2>3 DEF DueAfterReview, SameRow
<1>3. ASSUME NEW b, RateOther(b)
      PROVE  DueAfterReview' /\ SameRow'
  <2>1. PICK d \in OtherIntervals : next_at' = [next_at EXCEPT ![R!ItemOf(b)] = now + d]
    BY <1>3 DEF RateOther, R!Rated
  <2>2. R!ItemOf(b) # Mine /\ card' = card
    BY <1>3 DEF RateOther
  <2> QED
    BY <1>1, <2>1, <2>2 DEF StudyInv, DueAfterReview, SameRow
<1>4. ASSUME NEW b, BoostCard(b)
      PROVE  DueAfterReview' /\ SameRow'
  <2>1. next_at' = [next_at EXCEPT ![R!ItemOf(b)] = now + NEW_INTERVAL_MINUTES]
    BY <1>4 DEF BoostCard, R!Boosted
  <2>2. CASE R!ItemOf(b) = Mine
    BY <1>1, <1>4, <2>1, <2>2 DEF BoostCard, Boost, boost, new_state, DueAfterReview, SameRow
  <2>3. CASE R!ItemOf(b) # Mine
    BY <1>1, <1>4, <2>1, <2>3 DEF BoostCard, StudyInv, DueAfterReview, SameRow
  <2> QED
    BY <2>2, <2>3
<1>5. ASSUME UNCHANGED <<next_at, card>>
      PROVE  DueAfterReview' /\ SameRow'
  BY <1>5 DEF StudyInv, DueAfterReview, SameRow
<1>6. Dialog => UNCHANGED <<next_at, card>>
  BY DEF Dialog, NoWrite, R!start_review_session, R!StaleButton, R!MessageGone,
       R!_show_answer, R!RateFails, R!Raises, R!BoostFails, R!BoostPressed, R!Stop,
       R!Continue, R!AckFails, R!ProfileFails, R!Restart
<1>7. Time => UNCHANGED <<next_at, card>>
  BY DEF Time, Tick, R!Tick
<1>8. UNCHANGED study_vars => UNCHANGED <<next_at, card>>
  BY DEF study_vars, dialog
<1> QED
  BY <1>2, <1>3, <1>4, <1>5, <1>6, <1>7, <1>8 DEF StudyNext

(***************************************************************************)
(* Card, sessions and the row they share keep their invariants together.   *)
(***************************************************************************)
THEOREM StudyInductive == StudySpec => []StudyInv
<1>1. StudyInit => StudyInv
  <2>1. StudyInit => IInv /\ RP!IInv /\ SameRow
    BY InitInv, SessionInv DEF StudyInit, SameRow
  <2>2. StudyInit => DueAfterReview
    BY DEF StudyInit, Init, new_state, DueAfterReview
  <2> QED
    BY <2>1, <2>2 DEF StudyInv
<1>2. StudyInv /\ [StudyNext]_study_vars => StudyInv'
  <2> SUFFICES ASSUME StudyInv, [StudyNext]_study_vars PROVE StudyInv'
    OBVIOUS
  <2>1. IInv'
    BY StepOfCard, StepInv DEF StudyInv
  <2>2. RP!IInv'
    BY StepOfSession, SessionInv DEF StudyInv
  <2> QED
    BY <2>1, <2>2, StepRow DEF StudyInv
<1> QED
  BY <1>1, <1>2, PTL DEF StudySpec

(***************************************************************************)
(* In its sessions the card lives a life of CardLife: all that is proved   *)
(* of that holds of a card that is really reviewed.                        *)
(***************************************************************************)
THEOREM KeepsCard == StudySpec => Spec
<1>1. StudyInit => Init
  BY DEF StudyInit
<1>2. [StudyNext]_study_vars => [Next]_vars
  BY StepOfCard
<1> QED
  BY <1>1, <1>2, PTL DEF StudySpec, Spec

(***************************************************************************)
(* The sessions are those of ReviewSession (safety): the engine's due      *)
(* times are among those the session was proved for.                       *)
(***************************************************************************)
THEOREM KeepsSession == StudySpec => R!Init /\ [][R!Next]_(R!vars)
<1>1. StudyInit => R!Init
  BY DEF StudyInit
<1>2. StudyInv /\ [StudyNext]_study_vars => [R!Next]_(R!vars)
  BY StepOfSession DEF StudyInv
<1> QED
  BY <1>1, <1>2, StudyInductive, PTL DEF StudySpec

(***************************************************************************)
(* A rating reaches the engine only when the interval promised before has  *)
(* passed, or when the card was boosted on screen.                         *)
(***************************************************************************)
THEOREM Earned == StudySpec => EarnedInterval
<1> DEFINE Step ==
      card' # card /\ card'.last_review_at # NEVER =>
        \/ Mine \in boosted
        \/ /\ card.next_review_at <= now
           /\ \/ card.last_review_at = NEVER
              \/ now - card.last_review_at >= card.interval_minutes
<1>1. ASSUME StudyInv, [StudyNext]_study_vars
      PROVE  Step
  <2> SUFFICES ASSUME card' # card, card'.last_review_at # NEVER, Mine \notin boosted
               PROVE  /\ card.next_review_at <= now
                      /\ \/ card.last_review_at = NEVER
                         \/ now - card.last_review_at >= card.interval_minutes
    OBVIOUS
  <2>1. PICK b : RateMine(b)
    BY <1>1 DEF StudyNext, RateOther, BoostCard, Boost, boost, new_state, Time, Tick, Dialog,
                study_vars
  <2>2. next_at[Mine] <= now \/ Mine \in boosted
    BY <1>1, <2>1, SessionRates DEF StudyInv, RateMine
  <2>3. /\ card.last_review_at = NEVER \/ card.last_review_at \in Nat
        /\ card.interval_minutes \in Nat /\ now \in Nat
    BY <1>1 DEF StudyInv, IInv, TypeOK, SRSState
  <2> QED
    BY <1>1, <2>2, <2>3 DEF StudyInv, SameRow, DueAfterReview
<1> HIDE DEF Step
<1>2. StudySpec => [][Step]_study_vars
  BY <1>1, StudyInductive, PTL DEF StudySpec
<1> QED
  BY <1>2 DEF Step, EarnedInterval
=============================================================================
