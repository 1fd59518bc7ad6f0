---------------------------- MODULE ProactiveProofs ----------------------------
(***************************************************************************)
(* Proofs about Proactive, for any number of users, any length of day and  *)
(* any thresholds.                                                         *)
(***************************************************************************)
EXTENDS Proactive, FiniteSetTheorems, WellFoundedInduction, TLAPS

\* What a row has gained on an earlier copy of it: interactions only add.
Ahead(row, copy) ==
  /\ row.last_active_at >= copy.last_active_at
  /\ \A h \in Hours : row.activity_hours_utc[h] >= copy.activity_hours_utc[h]
  /\ row.proactive_count = copy.proactive_count
  /\ row.count_date = copy.count_date

\* The pass's copies are behind the table by interactions only, and the gates
\* let the current user through.
SoundPass(p) ==
  /\ \A u \in DOMAIN p.snap : Ahead(rows[u], p.snap[u])
  /\ decide_proactive(p.snap[Current(p)], p.at)

IInv ==
  /\ TypeOK
  /\ \A u \in Users : rows[u].last_active_at <= now
  /\ CountWithinCap
  /\ \A p \in pass : SoundPass(p)

-----------------------------------------------------------------------------
(***************************************************************************)
(* Every non-empty set of user ids has a first one.                        *)
(***************************************************************************)
LEMMA FirstIsLeast ==
  ASSUME NEW us \in SUBSET Users, us # {}
  PROVE  First(us) \in us /\ \A w \in us : First(us) <= w
<1>1. us \in SUBSET Nat
  BY UsersAssumption
<1>2. \E x \in us : \A y \in us : ~(<<y, x>> \in OpToRel(<, Nat))
  BY <1>1, NatLessThanWellFounded, WFMin
<1>3. \A x, y \in us : ~(<<y, x>> \in OpToRel(<, Nat)) => x <= y
  <2> SUFFICES ASSUME NEW x \in us, NEW y \in us, ~(x <= y)
               PROVE  <<y, x>> \in OpToRel(<, Nat)
    OBVIOUS
  <2>1. y < x /\ x \in Nat /\ y \in Nat
    BY <1>1
  <2> QED
    BY <2>1 DEF OpToRel
<1> QED
  BY <1>2, <1>3 DEF First

LEMMA DayIsANumber ==
  ASSUME NEW t \in Nat
  PROVE  Date(t) \in Nat
  BY HoursAssumption DEF Date

LEMMA RecordedIsFinite ==
  ASSUME NEW row
  PROVE  /\ Recorded(row) \in SUBSET Hours
         /\ IsFiniteSet(Recorded(row))
         /\ Cardinality(Recorded(row)) \in Nat
<1>1. IsFiniteSet(Hours)
  BY HoursAssumption, FS_Interval, 0 \in Int, HISTORY_HOURS - 1 \in Int DEF Hours
<1>2. Recorded(row) \in SUBSET Hours
  BY DEF Recorded
<1> QED
  BY <1>1, <1>2, FS_Subset, FS_CardinalityType

(***************************************************************************)
(* activity_cap grants at most the highest cap.                            *)
(***************************************************************************)
LEMMA CapIsBounded ==
  ASSUME NEW row, NEW t
  PROVE  activity_cap(row, t) \in Nat /\ activity_cap(row, t) <= CAP_HIGH
  BY DEF activity_cap, CAP_LOW, CAP_MEDIUM, CAP_HIGH

LEMMA CountIsANumber ==
  ASSUME NEW row \in UserRow, NEW t \in Nat
  PROVE  proactive_count_today(row, t) \in Nat
  BY DEF proactive_count_today, UserRow

(***************************************************************************)
(* More interactions never lower the cap: the gates of scheduler.py are    *)
(* monotone in the row, which is what makes a stale copy harmless.         *)
(***************************************************************************)
LEMMA CapGrows ==
  ASSUME NEW row \in UserRow, NEW copy \in UserRow, NEW t \in Nat,
         Ahead(row, copy)
  PROVE  activity_cap(copy, t) <= activity_cap(row, t)
<1>1. Recorded(copy) \subseteq Recorded(row)
  BY DEF Ahead, Recorded, UserRow
<1>2. /\ Cardinality(Recorded(copy)) <= Cardinality(Recorded(row))
      /\ Cardinality(Recorded(copy)) \in Nat
      /\ Cardinality(Recorded(row)) \in Nat
  BY <1>1, RecordedIsFinite, FS_Subset
<1> DEFINE since == t - ACTIVITY_WINDOW_DAYS * HISTORY_HOURS
<1>3. since \in Int
  BY HoursAssumption, DaysAssumption
<1> HIDE DEF since
<1>4. /\ copy.last_active_at \in Nat /\ row.last_active_at \in Nat
      /\ copy.last_active_at <= row.last_active_at
  BY DEF Ahead, UserRow
<1>5. row.last_active_at < since => copy.last_active_at < since
  BY <1>3, <1>4
<1>6. Recorded(row) = {} => Recorded(copy) = {}
  BY <1>1
<1>7. \A r : activity_cap(r, t) =
        IF r.last_active_at < since \/ Recorded(r) = {} THEN 1
        ELSE IF Cardinality(Recorded(r)) >= HIGH_ACTIVITY_HOURS THEN 3 ELSE 2
  BY DEF activity_cap, since, CAP_LOW, CAP_MEDIUM, CAP_HIGH
<1>8. Cardinality(Recorded(copy)) >= HIGH_ACTIVITY_HOURS
        => Cardinality(Recorded(row)) >= HIGH_ACTIVITY_HOURS
  BY <1>2, ThresholdAssumption
<1> QED
  BY <1>5, <1>6, <1>7, <1>8

(***************************************************************************)
(* What the gates allowed over a copy, they allow, window aside, over the  *)
(* row as it has become.                                                   *)
(***************************************************************************)
LEMMA StaleCopyIsSafe ==
  ASSUME NEW row \in UserRow, NEW copy \in UserRow, NEW t \in Nat,
         Ahead(row, copy), decide_proactive(copy, t)
  PROVE  /\ ~is_backed_off(row, t)
         /\ proactive_count_today(row, t) < activity_cap(row, t)
<1> DEFINE since == t - BACKOFF_DAYS * HISTORY_HOURS
<1>1. since \in Int
  BY HoursAssumption, DaysAssumption
<1>2. ~(copy.last_active_at < since)
  BY DEF decide_proactive, is_backed_off
<1> HIDE DEF since
<1>3. ~(row.last_active_at < since)
  BY <1>1, <1>2 DEF Ahead, UserRow
<1>4. proactive_count_today(row, t) = proactive_count_today(copy, t)
  BY DEF Ahead, proactive_count_today
<1>5. proactive_count_today(copy, t) < activity_cap(copy, t)
  BY DEF decide_proactive
<1> QED
  BY <1>3, <1>4, <1>5, CapGrows, CapIsBounded, CountIsANumber
     DEF is_backed_off, since

(***************************************************************************)
(* The loop of run_proactive_pass: from where it stands to its next send   *)
(* it keeps to its own copies and stops only at a user the gates allow.    *)
(***************************************************************************)
LEMMA LoopGoesOn ==
  ASSUME NEW us \in SUBSET Users, NEW p,
         p = [at |-> p.at, snap |-> p.snap, delivered |-> p.delivered],
         us \subseteq DOMAIN p.snap, GoOn(us, p)
  PROVE  /\ \A r, q \in pass' : r = q
         /\ \A q \in pass' :
              /\ q = [at |-> p.at, snap |-> q.snap, delivered |-> FALSE]
              /\ q.snap = [u \in DOMAIN q.snap |-> p.snap[u]]
              /\ DOMAIN q.snap \subseteq us /\ DOMAIN q.snap # {}
              /\ decide_proactive(q.snap[Current(q)], q.at)
<1> DEFINE may == Allowed(us, p.snap, p.at)
           left == {w \in us : w >= First(may)}
           next == [at |-> p.at, delivered |-> FALSE,
                    snap |-> [u \in left |-> p.snap[u]]]
<1>1. may \in SUBSET us
  BY DEF Allowed
<1>2. CASE may = {}
  <2>1. pass' = {}
    BY <1>2 DEF GoOn
  <2> QED
    BY <2>1
<1>3. CASE may # {}
  <2>1. pass' = {next}
    BY <1>3 DEF GoOn
  <2>3. First(may) \in may
    BY <1>1, <1>3, FirstIsLeast
  <2>4. First(may) \in left
    <3>1. First(may) \in us /\ us \subseteq Nat
      BY <1>1, <2>3, UsersAssumption
    <3> HIDE DEF may
    <3> QED
      BY <3>1
  <2>5. /\ First(left) \in left
        /\ First(left) <= First(may)
    <3>1. left \in SUBSET Users
      OBVIOUS
    <3>2. left # {}
      BY <2>4
    <3> HIDE DEF left
    <3> QED
      BY <3>1, <3>2, <2>4, FirstIsLeast
  <2>6. First(left) = First(may)
    <3>1. First(may) \in Nat /\ First(left) \in Nat /\ First(left) >= First(may)
      BY <2>3, <2>5, <1>1, UsersAssumption
    <3> HIDE DEF left, may
    <3> QED
      BY <3>1, <2>5
  <2>7. decide_proactive(p.snap[First(may)], p.at)
    <3>1. \A u \in may : decide_proactive(p.snap[u], p.at)
      BY DEF Allowed
    <3> HIDE DEF may
    <3> QED
      BY <3>1, <2>3
  <2> HIDE DEF left, may
  <2>8. Current(next) = First(may)
    BY <2>6 DEF Current
  <2>9. /\ next.at = p.at
        /\ next.snap = [u \in left |-> p.snap[u]]
        /\ DOMAIN next.snap = left
        /\ next.snap[First(may)] = p.snap[First(may)]
    BY <2>4
  <2>10. decide_proactive(next.snap[Current(next)], next.at)
    BY <2>7, <2>8, <2>9
  <2>11. left \subseteq us /\ left # {}
    BY <2>4 DEF left
  <2>12. next = [at |-> p.at, snap |-> next.snap, delivered |-> FALSE]
    BY <2>9 DEF next
  <2> HIDE DEF next
  <2>13. \A r, q \in pass' : r = q
    BY <2>1
  <2>14. next.snap = [u \in DOMAIN next.snap |-> p.snap[u]]
    BY <2>9
  <2>15. \A q \in pass' : q = next
    BY <2>1
  <2> QED
    BY <2>9, <2>10, <2>11, <2>12, <2>13, <2>14, <2>15, Zenon
<1> QED
  BY <1>2, <1>3
-----------------------------------------------------------------------------
(***************************************************************************)
(* What the loop of the pass leaves of a pass under way, whatever rows it  *)
(* has just written: the parts of IInv that are about `pass`.              *)
(***************************************************************************)
PassOK ==
  /\ \A p, q \in pass : p = q
  /\ \A p \in pass :
       /\ p = [at |-> p.at, snap |-> p.snap, delivered |-> p.delivered]
       /\ p.at \in Nat /\ p.delivered \in BOOLEAN
       /\ DOMAIN p.snap \in (SUBSET Users) \ {{}}
       /\ p.snap \in [DOMAIN p.snap -> UserRow]
       /\ SoundPass(p)

LEMMA LoopKeepsPassOK ==
  ASSUME NEW us \in SUBSET Users, NEW p,
         p = [at |-> p.at, snap |-> p.snap, delivered |-> p.delivered],
         p.at \in Nat, us \subseteq DOMAIN p.snap, GoOn(us, p),
         \A u \in us : p.snap[u] \in UserRow /\ Ahead(rows'[u], p.snap[u])
  PROVE  PassOK'
<1>1. \A r, q \in pass' : r = q
  BY LoopGoesOn
<1>2. ASSUME NEW q \in pass'
      PROVE  /\ q = [at |-> q.at, snap |-> q.snap, delivered |-> q.delivered]
             /\ q.at \in Nat /\ q.delivered \in BOOLEAN
             /\ DOMAIN q.snap \in (SUBSET Users) \ {{}}
             /\ q.snap \in [DOMAIN q.snap -> UserRow]
             /\ \A u \in DOMAIN q.snap : Ahead(rows'[u], q.snap[u])
             /\ decide_proactive(q.snap[Current(q)], q.at)
  <2>1. /\ q = [at |-> p.at, snap |-> q.snap, delivered |-> FALSE]
        /\ q.snap = [u \in DOMAIN q.snap |-> p.snap[u]]
        /\ DOMAIN q.snap \subseteq us /\ DOMAIN q.snap # {}
        /\ decide_proactive(q.snap[Current(q)], q.at)
    BY <1>2, LoopGoesOn
  <2>2. q.at = p.at /\ q.delivered = FALSE
    BY <2>1
  <2>3. \A u \in DOMAIN q.snap : q.snap[u] = p.snap[u] /\ u \in us
    BY <2>1
  <2>4. q.snap \in [DOMAIN q.snap -> UserRow]
    BY <2>1, <2>3
  <2>5. \A u \in DOMAIN q.snap : Ahead(rows'[u], q.snap[u])
    BY <2>3
  <2>6. DOMAIN q.snap \in SUBSET Users /\ DOMAIN q.snap # {}
    BY <2>1
  <2>7. q = [at |-> q.at, snap |-> q.snap, delivered |-> q.delivered]
    BY <2>1, <2>2
  <2>8. q.at \in Nat /\ q.delivered \in BOOLEAN
    BY <2>2
  <2> QED
    BY <2>1, <2>4, <2>5, <2>6, <2>7, <2>8, Zenon
<1> QED
  BY <1>1, <1>2 DEF PassOK, SoundPass, Current

\* IInv without the parts about `pass`.
TableOK ==
  /\ now \in Nat
  /\ rows \in [Users -> UserRow]
  /\ due_users \subseteq Users
  /\ dry_run \in BOOLEAN
  /\ received \in [Users -> Nat]
  /\ slips \in [Users -> Nat]
  /\ faults \in Nat
  /\ \A u \in Users : rows[u].last_active_at <= now
  /\ CountWithinCap

LEMMA IInvParts == IInv <=> TableOK /\ PassOK
  BY DEF IInv, TypeOK, TableOK, PassOK

LEMMA IInvPartsPrimed == IInv' <=> TableOK' /\ PassOK'
  BY DEF IInv, TypeOK, TableOK, PassOK

LEMMA InitInv == Init => IInv
<1> SUFFICES ASSUME Init PROVE TableOK /\ PassOK
  BY IInvParts
<1>1. PassOK
  BY DEF Init, PassOK
<1>3. rows \in [Users -> UserRow]
  BY DEF Init, UserRow
<1>4. \A u \in Users : rows[u].last_active_at = 0 /\ rows[u].proactive_count = 0
  BY DEF Init
<1> QED
  BY <1>1, <1>3, <1>4 DEF Init, TableOK, CountWithinCap, CAP_HIGH

(***************************************************************************)
(* Starting a pass: its copies are the rows.                               *)
(***************************************************************************)
LEMMA StartPassInv ==
  ASSUME IInv, StartPass
  PROVE  IInv'
<1>1. TableOK /\ PassOK
  BY IInvParts
<1> DEFINE p == [at |-> now, snap |-> rows, delivered |-> FALSE]
<1>2. /\ p = [at |-> p.at, snap |-> p.snap, delivered |-> p.delivered]
      /\ p.at \in Nat /\ p.snap = rows /\ GoOn(Users, p)
  BY <1>1 DEF StartPass, TableOK
<1> HIDE DEF p
<1>3. \A u \in Users : rows[u] \in UserRow /\ Ahead(rows'[u], rows[u])
  BY <1>1 DEF StartPass, TableOK, Ahead, UserRow
<1>4. Users \subseteq DOMAIN rows
  BY <1>1 DEF TableOK
<1>5. PassOK'
  BY <1>2, <1>3, <1>4, LoopKeepsPassOK
<1>6. TableOK'
  BY <1>1 DEF StartPass, TableOK, CountWithinCap
<1> QED
  BY <1>5, <1>6, IInvPartsPrimed

LEMMA DeliverInv ==
  ASSUME IInv, Deliver
  PROVE  IInv'
<1>1. TableOK /\ PassOK
  BY IInvParts
<1>2. PICK p \in pass :
        /\ pass' = {[at |-> p.at, snap |-> p.snap, delivered |-> TRUE]}
        /\ received' = [received EXCEPT ![Current(p)] = IF @ < MaxNudges THEN @ + 1 ELSE @]
        /\ slips' = IF Date(p.at) # Date(now)
                    THEN [slips EXCEPT ![Current(p)] = @ + 1] ELSE slips
        /\ UNCHANGED <<now, rows, due_users, dry_run, faults>>
  BY DEF Deliver
<1>3. p = [at |-> p.at, snap |-> p.snap, delivered |-> p.delivered]
  BY <1>1 DEF PassOK
<1> DEFINE q == [at |-> p.at, snap |-> p.snap, delivered |-> TRUE]
<1>4. /\ q = [at |-> q.at, snap |-> q.snap, delivered |-> q.delivered]
      /\ q.at = p.at /\ q.snap = p.snap /\ q.delivered \in BOOLEAN
  OBVIOUS
<1>5. pass' = {q}
  BY <1>2
<1>6. Current(p) \in Users
  <2>1. DOMAIN p.snap \in SUBSET Users /\ DOMAIN p.snap # {}
    BY <1>1 DEF PassOK
  <2> QED
    BY <2>1, FirstIsLeast DEF Current
<1> HIDE DEF q
<1>7. \A r, s \in pass' : r = s
  BY <1>5
<1>8. SoundPass(q)'
  BY <1>1, <1>2, <1>4 DEF PassOK, SoundPass, Current
<1>9. PassOK'
  BY <1>1, <1>4, <1>5, <1>7, <1>8 DEF PassOK
<1>10. received' \in [Users -> Nat]
  <2>1. (IF received[Current(p)] < MaxNudges
         THEN received[Current(p)] + 1 ELSE received[Current(p)]) \in Nat
    BY <1>1, <1>6 DEF TableOK
  <2> QED
    BY <1>1, <1>2, <2>1 DEF TableOK
<1>12. slips' \in [Users -> Nat]
  BY <1>1, <1>2, <1>6 DEF TableOK
<1>11. TableOK'
  BY <1>1, <1>2, <1>6, <1>10, <1>12 DEF TableOK, CountWithinCap
<1> QED
  BY <1>9, <1>11, IInvPartsPrimed

(***************************************************************************)
(* A counted send: record_proactive adds one to a copy that is below the   *)
(* cap, and the other copies of the pass are untouched.                    *)
(***************************************************************************)
LEMMA SendReturnsInv ==
  ASSUME IInv, SendReturns
  PROVE  IInv'
<1>1. TableOK /\ PassOK
  BY IInvParts
<1>2. PICK p \in pass :
        /\ rows' = [rows EXCEPT ![Current(p)] =
                      record_proactive(@, p.snap[Current(p)], p.at)]
        /\ GoOn(After(p), p)
        /\ UNCHANGED <<now, due_users, dry_run, received, slips, faults>>
  BY DEF SendReturns
<1> DEFINE u == Current(p)
           copy == p.snap[u]
           count == proactive_count_today(copy, p.at)
<1>3. /\ p = [at |-> p.at, snap |-> p.snap, delivered |-> p.delivered]
      /\ p.at \in Nat
      /\ DOMAIN p.snap \in SUBSET Users /\ DOMAIN p.snap # {}
      /\ p.snap \in [DOMAIN p.snap -> UserRow]
      /\ \A w \in DOMAIN p.snap : Ahead(rows[w], p.snap[w])
      /\ decide_proactive(copy, p.at)
  BY <1>1 DEF PassOK, SoundPass
<1>4. u \in DOMAIN p.snap /\ u \in Users
  BY <1>3, FirstIsLeast DEF Current
<1>5. copy \in UserRow /\ rows[u] \in UserRow
  BY <1>1, <1>3, <1>4 DEF TableOK
<1> HIDE DEF u, copy
<1>6. count \in Nat /\ count < CAP_HIGH
  BY <1>3, <1>5, CapIsBounded, CountIsANumber DEF decide_proactive, CAP_HIGH
<1> HIDE DEF count
<1> DEFINE new == record_proactive(rows[u], copy, p.at)
<1>7. rows' = [rows EXCEPT ![u] = new]
  BY <1>2 DEF u, copy
<1>8. new = [rows[u] EXCEPT !.proactive_count = count + 1, !.count_date = Date(p.at)]
  BY DEF record_proactive, count
<1>9. /\ new \in UserRow
      /\ new.proactive_count = count + 1
      /\ new.last_active_at = rows[u].last_active_at
  <2>1. rows[u] = [ last_active_at     |-> rows[u].last_active_at,
                    activity_hours_utc |-> rows[u].activity_hours_utc,
                    proactive_count    |-> rows[u].proactive_count,
                    count_date         |-> rows[u].count_date ]
    BY <1>5 DEF UserRow
  <2>2. new = [ last_active_at     |-> rows[u].last_active_at,
                activity_hours_utc |-> rows[u].activity_hours_utc,
                proactive_count    |-> count + 1,
                count_date         |-> Date(p.at) ]
    BY <1>8, <2>1
  <2>3. count + 1 \in Nat /\ Date(p.at) \in Nat
    BY <1>3, <1>6, DayIsANumber
  <2> HIDE DEF new
  <2> QED
    BY <1>5, <2>2, <2>3 DEF UserRow
<1> HIDE DEF new
<1>10. rows' \in [Users -> UserRow]
  BY <1>1, <1>7, <1>9 DEF TableOK
<1>11. \A w \in Users : rows'[w] = IF w = u THEN new ELSE rows[w]
  BY <1>1, <1>7 DEF TableOK
<1>12. TableOK'
  BY <1>1, <1>2, <1>4, <1>6, <1>9, <1>10, <1>11 DEF TableOK, CountWithinCap, CAP_HIGH
<1>13. /\ After(p) \in SUBSET Users
       /\ After(p) \subseteq DOMAIN p.snap
       /\ u \notin After(p)
  BY <1>3 DEF After, u
<1>14. \A w \in After(p) : p.snap[w] \in UserRow /\ Ahead(rows'[w], p.snap[w])
  BY <1>3, <1>11, <1>13
<1>15. PassOK'
  BY <1>2, <1>3, <1>13, <1>14, LoopKeepsPassOK
<1> QED
  BY <1>12, <1>15, IInvPartsPrimed

LEMMA SlipStaysTyped ==
  ASSUME IInv, NEW p \in pass, Slip(p)
  PROVE  /\ slips' \in [Users -> Nat]
         /\ \A u \in Users : slips[u] <= slips'[u]
         /\ p.delivered /\ Date(p.at) = Date(now) => slips'[Current(p)] = slips[Current(p)] + 1
<1>1. DOMAIN p.snap \in SUBSET Users /\ DOMAIN p.snap # {} /\ slips \in [Users -> Nat]
  BY IInvParts DEF PassOK, TableOK
<1>2. Current(p) \in Users
  BY <1>1, FirstIsLeast DEF Current
<1> QED
  BY <1>1, <1>2 DEF Slip

LEMMA SendFailsInv ==
  ASSUME IInv, SendFails
  PROVE  IInv'
<1>1. TableOK /\ PassOK
  BY IInvParts
<1>2. PICK p \in pass : Slip(p) /\ GoOn(After(p), p)
  BY DEF SendFails
<1>3. /\ p = [at |-> p.at, snap |-> p.snap, delivered |-> p.delivered]
      /\ p.at \in Nat
      /\ DOMAIN p.snap \in SUBSET Users
      /\ p.snap \in [DOMAIN p.snap -> UserRow]
      /\ \A w \in DOMAIN p.snap : Ahead(rows[w], p.snap[w])
  BY <1>1 DEF PassOK, SoundPass
<1>4. After(p) \in SUBSET Users /\ After(p) \subseteq DOMAIN p.snap
  BY <1>3 DEF After
<1>5. rows' = rows
  BY DEF SendFails
<1>6. \A w \in After(p) : p.snap[w] \in UserRow /\ Ahead(rows'[w], p.snap[w])
  BY <1>3, <1>4, <1>5
<1>7. PassOK'
  BY <1>2, <1>3, <1>4, <1>6, LoopKeepsPassOK
<1>8. TableOK'
  BY <1>1, <1>2, SlipStaysTyped DEF SendFails, Fault, TableOK, CountWithinCap
<1> QED
  BY <1>7, <1>8, IInvPartsPrimed

LEMMA PassDiesInv ==
  ASSUME IInv, PassDies
  PROVE  IInv'
<1>1. TableOK /\ PassOK
  BY IInvParts
<1>2. PassOK'
  BY DEF PassDies, PassOK
<1>3. TableOK'
  BY <1>1, SlipStaysTyped DEF PassDies, Fault, TableOK, CountWithinCap
<1> QED
  BY <1>2, <1>3, IInvPartsPrimed

(***************************************************************************)
(* An interaction (touch_activity) puts the row further ahead of every     *)
(* copy.                                                                   *)
(***************************************************************************)
LEMMA InteractInv ==
  ASSUME IInv, NEW u \in Users, Interact(u)
  PROVE  IInv'
<1>1. TableOK /\ PassOK
  BY IInvParts
<1> DEFINE hours == rows[u].activity_hours_utc
           new == touch_activity(rows[u], now)
           hours_now == [hours EXCEPT ![HourOf(now)] = @ + 1]
<1>2. rows[u] \in UserRow /\ rows[u].last_active_at <= now /\ now \in Nat
  BY <1>1 DEF TableOK
<1>3. rows' = [rows EXCEPT ![u] = new]
  BY DEF Interact
<1>4. new = [ last_active_at     |-> now,
              activity_hours_utc |-> hours_now,
              proactive_count    |-> rows[u].proactive_count,
              count_date         |-> rows[u].count_date ]
  <2>1. rows[u] = [ last_active_at     |-> rows[u].last_active_at,
                    activity_hours_utc |-> hours,
                    proactive_count    |-> rows[u].proactive_count,
                    count_date         |-> rows[u].count_date ]
    BY <1>2 DEF UserRow
  <2>2. new = [rows[u] EXCEPT !.activity_hours_utc = hours_now,
                              !.last_active_at = now]
    BY DEF touch_activity
  <2> HIDE DEF hours, hours_now, new
  <2> QED
    BY <2>1, <2>2
<1>5. new \in UserRow
  <2>1. hours \in [Hours -> Nat]
    BY <1>2 DEF UserRow
  <2>2. hours_now \in [Hours -> Nat]
    <3> DEFINE hour == HourOf(now)
    <3>1. \A h \in Hours : hours[h] \in Nat /\ hours[h] + 1 \in Nat
      BY <2>1
    <3> HIDE DEF hours, hour
    <3>2. hours_now = [h \in Hours |-> IF h = hour THEN hours[h] + 1 ELSE hours[h]]
      BY <2>1 DEF hour
    <3> QED
      BY <3>1, <3>2
  <2>3. rows[u].proactive_count \in Nat /\ rows[u].count_date \in Nat \cup {NoDate}
    BY <1>2 DEF UserRow
  <2> HIDE DEF hours, hours_now, new
  <2> QED
    BY <1>2, <1>4, <2>2, <2>3 DEF UserRow
<1>6. \A h \in Hours : hours[h] \in Nat /\ new.activity_hours_utc[h] >= hours[h]
  BY <1>2, <1>4 DEF UserRow
<1> HIDE DEF new
<1>7. rows' \in [Users -> UserRow]
  BY <1>1, <1>3, <1>5 DEF TableOK
<1>8. \A w \in Users : rows'[w] = IF w = u THEN new ELSE rows[w]
  BY <1>1, <1>3 DEF TableOK
<1>9. TableOK'
  BY <1>1, <1>2, <1>4, <1>7, <1>8 DEF TableOK, CountWithinCap, Interact
<1>10. \A copy \in UserRow : Ahead(rows[u], copy) => Ahead(new, copy)
  BY <1>2, <1>4, <1>6 DEF Ahead, UserRow
<1>11. pass' = pass
  BY DEF Interact
<1>12. ASSUME NEW p \in pass PROVE SoundPass(p)'
  <2>1. /\ DOMAIN p.snap \in SUBSET Users
        /\ p.snap \in [DOMAIN p.snap -> UserRow]
        /\ \A w \in DOMAIN p.snap : Ahead(rows[w], p.snap[w])
        /\ decide_proactive(p.snap[Current(p)], p.at)
    BY <1>1 DEF PassOK, SoundPass
  <2>2. \A w \in DOMAIN p.snap : Ahead(rows'[w], p.snap[w])
    BY <1>8, <1>10, <2>1
  <2> QED
    BY <2>1, <2>2 DEF SoundPass, Current
<1>13. PassOK'
  BY <1>1, <1>11, <1>12 DEF PassOK
<1> QED
  BY <1>9, <1>13, IInvPartsPrimed

LEMMA HourPassesInv ==
  ASSUME IInv, HourPasses
  PROVE  IInv'
<1>1. TableOK /\ PassOK
  BY IInvParts
<1>2. UNCHANGED <<rows, pass, dry_run, faults>> /\ now' = now + 1
  BY DEF HourPasses
<1>3. PassOK'
  BY <1>1, <1>2 DEF PassOK, SoundPass, Current
<1>4. received' \in [Users -> Nat] /\ slips' \in [Users -> Nat] /\ due_users' \subseteq Users
  BY <1>1 DEF HourPasses, TableOK
<1>5. \A u \in Users : rows[u].last_active_at <= now + 1
  BY <1>1 DEF TableOK, UserRow
<1>6. TableOK'
  BY <1>1, <1>2, <1>4, <1>5 DEF TableOK, CountWithinCap
<1> QED
  BY <1>3, <1>6, IInvPartsPrimed

LEMMA StepInv == IInv /\ [Next]_vars => IInv'
<1> SUFFICES ASSUME IInv, [Next]_vars PROVE IInv'
  OBVIOUS
<1>1. CASE StartPass
  BY <1>1, StartPassInv
<1>2. CASE Deliver
  BY <1>2, DeliverInv
<1>3. CASE SendReturns
  BY <1>3, SendReturnsInv
<1>4. CASE SendFails
  BY <1>4, SendFailsInv
<1>5. CASE PassDies
  BY <1>5, PassDiesInv
<1>6. CASE \E u \in Users : Interact(u)
  BY <1>6, InteractInv
<1>7. CASE HourPasses
  BY <1>7, HourPassesInv
<1>8. CASE UNCHANGED vars
  BY <1>8 DEF vars, IInv, TypeOK, CountWithinCap, SoundPass, Current
<1> QED
  BY <1>1, <1>2, <1>3, <1>4, <1>5, <1>6, <1>7, <1>8 DEF Next, PassStep

-----------------------------------------------------------------------------
(***************************************************************************)
(* The inductive invariant: types, the copies a pass holds against the     *)
(* rows they were taken from, and the counter with its date within the cap.*)
(***************************************************************************)
THEOREM Inductive == Spec => []IInv
<1>1. IInv /\ [Next]_vars => IInv'
  BY StepInv
<1> QED
  BY InitInv, <1>1, PTL DEF Spec

(***************************************************************************)
(* Type correctness.                                                       *)
(***************************************************************************)
THEOREM TypeCorrect == Spec => []TypeOK
<1>1. IInv => TypeOK
  BY DEF IInv
<1> QED
  BY <1>1, Inductive, PTL

(***************************************************************************)
(* The stored counter stays within the highest cap (decide_proactive and   *)
(* record_proactive together), for every number of users.                  *)
(***************************************************************************)
THEOREM CapHolds == Spec => []CountWithinCap
<1>1. IInv => CountWithinCap
  BY DEF IInv
<1> QED
  BY <1>1, Inductive, PTL

\* StaleGatesAreSafe for one step.
LEMMA StaleGatesStep ==
  ASSUME IInv, [Next]_vars, NEW u \in Users, NEW p \in pass,
         received'[u] > received[u]
  PROVE  /\ ~is_backed_off(rows[u], p.at)
         /\ proactive_count_today(rows[u], p.at) < activity_cap(rows[u], p.at)
<1>1. TableOK /\ PassOK
  BY IInvParts
<1>2. received[u] \in Nat
  BY <1>1 DEF TableOK
<1>3. received' # received
  BY <1>2
<1>4. CASE Deliver
  <2>1. PICK q \in pass :
          received' = [received EXCEPT ![Current(q)] = IF @ < MaxNudges THEN @ + 1 ELSE @]
    BY <1>4 DEF Deliver
  <2>2. u = Current(q)
    BY <1>1, <1>2, <2>1 DEF TableOK
  <2>4. p = q
    BY <1>1 DEF PassOK
  <2>5. DOMAIN p.snap \in SUBSET Users /\ DOMAIN p.snap # {}
    BY <1>1 DEF PassOK
  <2>6. u \in DOMAIN p.snap
    BY <2>2, <2>4, <2>5, FirstIsLeast DEF Current
  <2>7. /\ rows[u] \in UserRow /\ p.snap[u] \in UserRow /\ p.at \in Nat
        /\ Ahead(rows[u], p.snap[u])
        /\ decide_proactive(p.snap[u], p.at)
    BY <1>1, <2>2, <2>4, <2>6 DEF TableOK, PassOK, SoundPass
  <2> QED
    BY <2>7, StaleCopyIsSafe
<1>5. CASE HourPasses
  <2>1. received'[u] = received[u] \/ received'[u] = 0
    BY <1>5 DEF HourPasses
  <2> QED
    BY <1>2, <2>1
<1>6. CASE StartPass \/ SendReturns \/ SendFails \/ PassDies \/ (\E w \in Users : Interact(w))
           \/ UNCHANGED vars
  BY <1>3, <1>6 DEF StartPass, SendReturns, SendFails, PassDies, Interact, vars
<1> QED
  BY <1>4, <1>5, <1>6 DEF Next, PassStep

(***************************************************************************)
(* Although the gates look at copies that are out of date by the time of   *)
(* the send, whoever is nudged is not in back-off and is below the cap of  *)
(* his current row.                                                        *)
(***************************************************************************)
THEOREM StaleGatesSafe == Spec => StaleGatesAreSafe
<1> DEFINE Step ==
      \A u \in Users, p \in pass : received'[u] > received[u] =>
         /\ ~is_backed_off(rows[u], p.at)
         /\ proactive_count_today(rows[u], p.at) < activity_cap(rows[u], p.at)
<1>1. IInv /\ [Next]_vars => [Step]_vars
  BY StaleGatesStep
<1>2. StaleGatesAreSafe <=> [][Step]_vars
  BY DEF StaleGatesAreSafe
<1> HIDE DEF Step
<1>3. Spec => [][Step]_vars
  BY <1>1, Inductive, PTL DEF Spec
<1> QED
  BY <1>2, <1>3

LEMMA RecordKeepsActivity ==
  ASSUME NEW row \in UserRow, NEW copy, NEW t
  PROVE  /\ record_proactive(row, copy, t).last_active_at = row.last_active_at
         /\ record_proactive(row, copy, t).activity_hours_utc = row.activity_hours_utc
<1>1. row = [ last_active_at     |-> row.last_active_at,
              activity_hours_utc |-> row.activity_hours_utc,
              proactive_count    |-> row.proactive_count,
              count_date         |-> row.count_date ]
  BY DEF UserRow
<1> QED
  BY <1>1 DEF record_proactive

LEMMA TouchAddsActivity ==
  ASSUME NEW row \in UserRow, NEW t \in Nat, row.last_active_at <= t
  PROVE  /\ touch_activity(row, t).last_active_at >= row.last_active_at
         /\ \A h \in Hours : touch_activity(row, t).activity_hours_utc[h]
                               >= row.activity_hours_utc[h]
<1> DEFINE hours == row.activity_hours_utc
           hours_now == [hours EXCEPT ![HourOf(t)] = @ + 1]
<1>1. row = [ last_active_at     |-> row.last_active_at,
              activity_hours_utc |-> hours,
              proactive_count    |-> row.proactive_count,
              count_date         |-> row.count_date ]
  BY DEF UserRow
<1>2. /\ touch_activity(row, t).last_active_at = t
      /\ touch_activity(row, t).activity_hours_utc = hours_now
  BY <1>1 DEF touch_activity
<1>3. hours \in [Hours -> Nat]
  BY DEF UserRow
<1>4. \A h \in Hours : hours_now[h] >= hours[h]
  <2> DEFINE hour == HourOf(t)
  <2>1. hours_now = [hours EXCEPT ![hour] = @ + 1]
    OBVIOUS
  <2> HIDE DEF hour, hours
  <2> QED
    BY <1>3
<1>5. row.last_active_at \in Nat
  BY DEF UserRow
<1> QED
  BY <1>2, <1>4, <1>5

\* ActivityNeverLost for one step.
LEMMA ActivityStep ==
  ASSUME IInv, [Next]_vars, NEW u \in Users
  PROVE  /\ rows'[u].last_active_at >= rows[u].last_active_at
         /\ \A h \in Hours :
              rows'[u].activity_hours_utc[h] >= rows[u].activity_hours_utc[h]
<1>1. /\ rows \in [Users -> UserRow] /\ rows[u] \in UserRow
      /\ rows[u].last_active_at <= now /\ now \in Nat
  BY DEF IInv, TypeOK
<1>2. CASE rows'[u] = rows[u]
  BY <1>1, <1>2 DEF UserRow
<1>3. CASE SendReturns
  <2>1. PICK p \in pass :
          rows' = [rows EXCEPT ![Current(p)] =
                     record_proactive(@, p.snap[Current(p)], p.at)]
    BY <1>3 DEF SendReturns
  <2>2. CASE u = Current(p)
    <3>1. rows'[u] = record_proactive(rows[u], p.snap[u], p.at)
      BY <1>1, <2>1, <2>2
    <3> QED
      BY <1>1, <3>1, RecordKeepsActivity DEF UserRow
  <2>3. CASE u # Current(p)
    BY <1>1, <1>2, <2>1, <2>3
  <2> QED
    BY <2>2, <2>3
<1>4. CASE \E w \in Users : Interact(w)
  <2>1. PICK w \in Users : rows' = [rows EXCEPT ![w] = touch_activity(@, now)]
    BY <1>4 DEF Interact
  <2>2. CASE u = w
    <3>1. rows'[u] = touch_activity(rows[u], now)
      BY <1>1, <2>1, <2>2
    <3> QED
      BY <1>1, <3>1, TouchAddsActivity
  <2>3. CASE u # w
    BY <1>1, <1>2, <2>1, <2>3
  <2> QED
    BY <2>2, <2>3
<1>5. CASE StartPass \/ Deliver \/ SendFails \/ PassDies \/ HourPasses \/ UNCHANGED vars
  BY <1>2, <1>5 DEF StartPass, Deliver, SendFails, PassDies, HourPasses, vars
<1> QED
  BY <1>3, <1>4, <1>5 DEF Next, PassStep

(***************************************************************************)
(* No step takes back an interaction: the scheduler's UPDATE writes its    *)
(* own columns only (record_proactive against touch_activity).             *)
(***************************************************************************)
THEOREM ActivityKept == Spec => ActivityNeverLost
<1> DEFINE Step ==
      \A u \in Users :
        /\ rows'[u].last_active_at >= rows[u].last_active_at
        /\ \A h \in Hours :
             rows'[u].activity_hours_utc[h] >= rows[u].activity_hours_utc[h]
<1>1. IInv /\ [Next]_vars => [Step]_vars
  BY ActivityStep
<1>2. ActivityNeverLost <=> [][Step]_vars
  BY DEF ActivityNeverLost
<1> HIDE DEF Step
<1>3. Spec => [][Step]_vars
  BY <1>1, Inductive, PTL DEF Spec
<1> QED
  BY <1>2, <1>3
-----------------------------------------------------------------------------
(* The counter against what the users received *)

Booked(u) == proactive_count_today(rows[u], now)

\* A nudge of today, sent and not counted yet.
UnderWay(u) == \E p \in pass : Current(p) = u /\ p.delivered /\ Date(p.at) = Date(now)

\* CountIsHonest without its cardinality, and what it rests on: while a pass of
\* yesterday is still sending, every nudge of today has slipped.
HonestInv ==
  /\ \A u \in Users : received[u] <= Booked(u) + slips[u] + (IF UnderWay(u) THEN 1 ELSE 0)
  /\ \A p \in pass : Date(p.at) # Date(now) => \A u \in Users : received[u] <= slips[u]

\* Of the one pass there is at most one send is under way.
LEMMA OneUnderWay ==
  ASSUME PassOK, NEW u
  PROVE  Cardinality({p \in pass : Current(p) = u /\ p.delivered /\ Date(p.at) = Date(now)})
           = IF UnderWay(u) THEN 1 ELSE 0
<1>1. CASE ~UnderWay(u)
  <2>1. {p \in pass : Current(p) = u /\ p.delivered /\ Date(p.at) = Date(now)} = {}
    BY <1>1 DEF UnderWay
  <2> QED
    BY <1>1, <2>1, FS_EmptySet
<1>2. CASE UnderWay(u)
  <2>1. PICK p \in pass : Current(p) = u /\ p.delivered /\ Date(p.at) = Date(now)
    BY <1>2 DEF UnderWay
  <2>2. {q \in pass : Current(q) = u /\ q.delivered /\ Date(q.at) = Date(now)} = {p}
    BY <2>1 DEF PassOK
  <2> QED
    BY <1>2, <2>2, FS_Singleton
<1> QED
  BY <1>1, <1>2

LEMMA BookedIsANumber ==
  ASSUME IInv
  PROVE  \A u \in Users : Booked(u) \in Nat /\ received[u] \in Nat /\ slips[u] \in Nat
  BY CountIsANumber DEF Booked, IInv, TypeOK

\* A pass whose send is not out, or is out, is so for all users.
LEMMA NoneUnderWay ==
  ASSUME PassOK, NEW p \in pass, ~p.delivered
  PROVE  \A u : ~UnderWay(u)
  BY DEF UnderWay, PassOK

LEMMA OnlyCurrentUnderWay ==
  ASSUME PassOK, NEW p \in pass, NEW u, u # Current(p)
  PROVE  ~UnderWay(u)
  BY DEF UnderWay, PassOK

\* A loop that goes on has no send out yet, and keeps its clock.
LEMMA LoopSendsAnew ==
  ASSUME NEW us, NEW p, GoOn(us, p)
  PROVE  \A q \in pass' : ~q.delivered /\ q.at = p.at
<1> DEFINE may == Allowed(us, p.snap, p.at)
           left == {w \in us : w >= First(may)}
           copies == [u \in left |-> p.snap[u]]
<1>1. CASE may = {}
  BY <1>1 DEF GoOn
<1>2. CASE may # {}
  <2>1. pass' = {[at |-> p.at, delivered |-> FALSE, snap |-> copies]}
    BY <1>2 DEF GoOn
  <2> HIDE DEF copies
  <2> QED
    BY <2>1
<1> QED
  BY <1>1, <1>2

\* Without a send out there is little to show.
LEMMA HonestWhenQuiet ==
  ASSUME IInv', \A q \in pass' : ~q.delivered,
         \A u \in Users : received'[u] <= Booked(u)' + slips'[u],
         \A q \in pass' : Date(q.at) # Date(now') => \A u \in Users : received'[u] <= slips'[u]
  PROVE  HonestInv'
<1>1. \A u : ~UnderWay(u)'
  BY DEF UnderWay, Current, Date
<1>2. \A u \in Users : Booked(u)' \in Nat /\ slips'[u] \in Nat
  BY CountIsANumber DEF Booked, IInv, TypeOK
<1>3. \A u \in Users :
        Booked(u)' + slips'[u] + (IF UnderWay(u)' THEN 1 ELSE 0) = Booked(u)' + slips'[u]
  BY <1>1, <1>2
<1> QED
  BY <1>3 DEF HonestInv, Date

LEMMA StartHonest ==
  ASSUME IInv, HonestInv, StartPass
  PROVE  HonestInv'
<1>1. pass = {} /\ UNCHANGED <<now, rows, received, slips>>
  BY DEF StartPass
<1> DEFINE p == [at |-> now, snap |-> rows, delivered |-> FALSE]
<1>2. GoOn(Users, p) /\ p.at = now
  BY DEF StartPass
<1> HIDE DEF p
<1>3. \A q \in pass' : ~q.delivered /\ q.at = now
  BY <1>2, LoopSendsAnew
<1>4. ASSUME NEW u \in Users
      PROVE  received'[u] <= Booked(u)' + slips'[u]
  <2>1. ~UnderWay(u) /\ Booked(u)' = Booked(u)
    BY <1>1 DEF UnderWay, Booked, proactive_count_today, Date
  <2>2. received[u] <= Booked(u) + slips[u] + 0
    BY <1>4, <2>1 DEF HonestInv
  <2> QED
    BY <1>1, <2>1, <2>2, BookedIsANumber
<1> QED
  BY <1>1, <1>3, <1>4, StartPassInv, HonestWhenQuiet

LEMMA DeliverHonest ==
  ASSUME IInv, HonestInv, Deliver
  PROVE  HonestInv'
<1>1. PassOK /\ TableOK
  BY IInvParts
<1>2. PICK p \in pass :
        /\ ~p.delivered
        /\ pass' = {[at |-> p.at, snap |-> p.snap, delivered |-> TRUE]}
        /\ received' = [received EXCEPT ![Current(p)] = IF @ < MaxNudges THEN @ + 1 ELSE @]
        /\ slips' = IF Date(p.at) # Date(now)
                    THEN [slips EXCEPT ![Current(p)] = @ + 1] ELSE slips
        /\ UNCHANGED <<now, rows, due_users, dry_run, faults>>
  BY DEF Deliver
<1> DEFINE q == [at |-> p.at, snap |-> p.snap, delivered |-> TRUE]
<1>3. q.at = p.at /\ q.delivered /\ Current(q) = Current(p) /\ pass' = {q}
  BY <1>2 DEF Current
<1> HIDE DEF q
<1>4. \A u \in Users : /\ received[u] \in Nat /\ slips[u] \in Nat /\ Booked(u) \in Nat
                       /\ Booked(u)' = Booked(u)
  BY <1>2, BookedIsANumber DEF Booked, proactive_count_today, Date
<1>5. ASSUME NEW u \in Users
      PROVE  /\ received'[u] = received[u] \/ (u = Current(p) /\ received'[u] = received[u] + 1)
             /\ u = Current(p) /\ Date(p.at) # Date(now) => slips'[u] = slips[u] + 1
             /\ u # Current(p) \/ Date(p.at) = Date(now) => slips'[u] = slips[u]
  BY <1>1, <1>2 DEF TableOK
<1>6. ASSUME NEW u \in Users, Date(p.at) # Date(now)
      PROVE  received'[u] <= slips'[u]
  <2>1. received[u] <= slips[u]
    BY <1>6 DEF HonestInv
  <2> QED
    BY <1>4, <1>5, <1>6, <2>1
<1>7. ASSUME NEW u \in Users
      PROVE  received'[u] <= Booked(u)' + slips'[u] + (IF UnderWay(u)' THEN 1 ELSE 0)
  <2>1. slips'[u] \in Nat /\ received'[u] \in Nat
    BY <1>4, <1>5
  <2>2. CASE Date(p.at) # Date(now)
    <3>1. received'[u] <= slips'[u]
      BY <1>6, <2>2
    <3> QED
      BY <1>4, <2>1, <3>1
  <2>3. CASE Date(p.at) = Date(now)
    <3>1. ~UnderWay(u)
      BY <1>1, <1>2, NoneUnderWay
    <3>2. received[u] <= Booked(u) + slips[u] + 0
      BY <3>1 DEF HonestInv
    <3>3. u = Current(p) => UnderWay(u)'
      BY <1>2, <1>3, <2>3 DEF UnderWay, Current, Date
    <3> QED
      BY <1>4, <1>5, <2>3, <3>2, <3>3
  <2> QED
    BY <2>2, <2>3
<1>8. \A r \in pass' : r.at = p.at
  BY <1>3
<1> QED
  BY <1>2, <1>6, <1>7, <1>8 DEF HonestInv, Date

LEMMA SendReturnsHonest ==
  ASSUME IInv, HonestInv, SendReturns
  PROVE  HonestInv'
<1>1. PassOK /\ TableOK
  BY IInvParts
<1>2. PICK p \in pass :
        /\ p.delivered
        /\ rows' = [rows EXCEPT ![Current(p)] =
                      record_proactive(@, p.snap[Current(p)], p.at)]
        /\ GoOn(After(p), p)
        /\ UNCHANGED <<now, due_users, dry_run, received, slips, faults>>
  BY DEF SendReturns
<1>3. \A q \in pass' : ~q.delivered /\ q.at = p.at
  BY <1>1, <1>2, LoopSendsAnew
<1> DEFINE u == Current(p)
           copy == p.snap[u]
<1>4. /\ u \in DOMAIN p.snap /\ u \in Users /\ rows[u] \in UserRow /\ copy \in UserRow
      /\ p.at \in Nat /\ now \in Nat /\ Ahead(rows[u], copy)
  <2>1. /\ DOMAIN p.snap \in SUBSET Users /\ DOMAIN p.snap # {} /\ p.at \in Nat
        /\ p.snap \in [DOMAIN p.snap -> UserRow]
        /\ \A w \in DOMAIN p.snap : Ahead(rows[w], p.snap[w])
    BY <1>1 DEF PassOK, SoundPass
  <2>2. u \in DOMAIN p.snap
    BY <2>1, FirstIsLeast DEF Current
  <2> HIDE DEF u
  <2> QED
    BY <1>1, <2>1, <2>2 DEF TableOK
<1>5. \A w \in Users : Booked(w) \in Nat /\ received[w] \in Nat /\ slips[w] \in Nat
  BY BookedIsANumber
<1>6. \A w \in Users : Booked(w)' \in Nat
  BY SendReturnsInv, CountIsANumber DEF Booked, IInv, TypeOK
<1>7. rows'[u].proactive_count = proactive_count_today(copy, p.at) + 1 /\ rows'[u].count_date = Date(p.at)
  <2> DEFINE new == record_proactive(rows[u], copy, p.at)
  <2>1. rows[u] = [ last_active_at     |-> rows[u].last_active_at,
                    activity_hours_utc |-> rows[u].activity_hours_utc,
                    proactive_count    |-> rows[u].proactive_count,
                    count_date         |-> rows[u].count_date ]
    BY <1>4 DEF UserRow
  <2>2. rows'[u] = new
    BY <1>1, <1>2, <1>4 DEF TableOK
  <2> HIDE DEF u, copy
  <2> QED
    BY <2>1, <2>2 DEF record_proactive
<1> HIDE DEF u, copy
<1>8. Date(p.at) # Date(now) => \A w \in Users : received[w] <= slips[w]
  BY <1>2 DEF HonestInv
<1>9. ASSUME NEW w \in Users
      PROVE  received[w] <= Booked(w)' + slips[w]
  <2>1. CASE Date(p.at) # Date(now)
    BY <1>5, <1>6, <1>8, <2>1
  <2>2. CASE w # u /\ Date(p.at) = Date(now)
    <3>1. ~UnderWay(w)
      BY <1>1, <2>2, OnlyCurrentUnderWay DEF u
    <3>2. rows'[w] = rows[w]
      BY <1>1, <1>2, <2>2 DEF TableOK, u
    <3>3. Booked(w)' = Booked(w)
      BY <1>2, <3>2 DEF Booked, proactive_count_today, Date
    <3>4. received[w] <= Booked(w) + slips[w] + 0
      BY <3>1 DEF HonestInv
    <3> QED
      BY <1>5, <3>3, <3>4
  <2>3. CASE w = u /\ Date(p.at) = Date(now)
    <3>1. UnderWay(u)
      BY <1>2, <2>3 DEF UnderWay, u
    <3>2. proactive_count_today(copy, p.at) = Booked(u)
      BY <1>4, <2>3 DEF Booked, proactive_count_today, Ahead
    <3>3. Booked(u)' = rows'[u].proactive_count
      BY <1>2, <1>7, <2>3 DEF Booked, proactive_count_today, Date
    <3>4. received[u] <= Booked(u) + slips[u] + 1
      BY <1>4, <3>1 DEF HonestInv
    <3> QED
      BY <1>4, <1>5, <1>7, <2>3, <3>2, <3>3, <3>4
  <2> QED
    BY <2>1, <2>2, <2>3
<1>10. received' = received /\ slips' = slips /\ now' = now
  BY <1>2
<1> QED
  BY <1>3, <1>8, <1>9, <1>10, SendReturnsInv, HonestWhenQuiet

\* A nudge that is lost from the books has slipped.
LEMMA SlipHonest ==
  ASSUME IInv, IInv', HonestInv, NEW p \in pass, Slip(p), UNCHANGED <<now, rows, received>>,
         \A q \in pass' : ~q.delivered /\ q.at = p.at
  PROVE  HonestInv'
<1>1. PassOK
  BY IInvParts
<1>2. \A u \in Users : slips[u] \in Nat /\ slips'[u] \in Nat /\ slips[u] <= slips'[u]
  BY SlipStaysTyped, BookedIsANumber DEF IInv, TypeOK
<1>3. ASSUME NEW u \in Users
      PROVE  received'[u] <= Booked(u)' + slips'[u]
  <2>1. /\ received'[u] = received[u] /\ Booked(u)' = Booked(u)
        /\ received[u] \in Nat /\ Booked(u) \in Nat
    BY BookedIsANumber DEF Booked, proactive_count_today, Date
  <2>2. CASE UnderWay(u)
    <3>1. u = Current(p) /\ p.delivered /\ Date(p.at) = Date(now)
      BY <1>1, <2>2 DEF UnderWay, PassOK
    <3>2. slips'[u] = slips[u] + 1
      BY <3>1, SlipStaysTyped
    <3>3. received[u] <= Booked(u) + slips[u] + 1
      BY <2>2 DEF HonestInv
    <3> QED
      BY <1>2, <2>1, <3>2, <3>3
  <2>3. CASE ~UnderWay(u)
    <3>1. received[u] <= Booked(u) + slips[u] + 0
      BY <2>3 DEF HonestInv
    <3> QED
      BY <1>2, <2>1, <3>1
  <2> QED
    BY <2>2, <2>3
<1>4. ASSUME NEW q \in pass', Date(q.at) # Date(now'), NEW u \in Users
      PROVE  received'[u] <= slips'[u]
  <2>1. received[u] <= slips[u]
    BY <1>4 DEF HonestInv
  <2> QED
    BY <1>2, <2>1, BookedIsANumber
<1> QED
  BY <1>3, <1>4, HonestWhenQuiet

LEMMA InteractHonest ==
  ASSUME IInv, HonestInv, NEW u \in Users, Interact(u)
  PROVE  HonestInv'
<1>1. UNCHANGED <<now, pass, received, slips>> /\ rows' = [rows EXCEPT ![u] = touch_activity(@, now)]
  BY DEF Interact
<1>2. rows \in [Users -> UserRow]
  BY DEF IInv, TypeOK
<1>3. ASSUME NEW w \in Users
      PROVE  Booked(w)' = Booked(w)
  <2>1. rows[w] \in UserRow
    BY <1>2
  <2>2. rows[w] = [ last_active_at     |-> rows[w].last_active_at,
                    activity_hours_utc |-> rows[w].activity_hours_utc,
                    proactive_count    |-> rows[w].proactive_count,
                    count_date         |-> rows[w].count_date ]
    BY <2>1 DEF UserRow
  <2>3. rows'[w] = IF w = u THEN touch_activity(rows[w], now) ELSE rows[w]
    BY <1>1, <1>2
  <2>4. /\ rows'[w].proactive_count = rows[w].proactive_count
        /\ rows'[w].count_date = rows[w].count_date
    BY <2>2, <2>3 DEF touch_activity
  <2> QED
    BY <1>1, <2>4 DEF Booked, proactive_count_today, Date
<1> QED
  BY <1>1, <1>3 DEF HonestInv, UnderWay, Current, Date

LEMMA HourHonest ==
  ASSUME IInv, HonestInv, HourPasses
  PROVE  HonestInv'
<1>1. UNCHANGED <<rows, pass>>
  BY DEF HourPasses
<1>2. \A u \in Users : Booked(u)' \in Nat
  BY HourPassesInv, CountIsANumber DEF Booked, IInv, TypeOK
<1>3. CASE Date(now') = Date(now)
  <2>1. UNCHANGED <<received, slips>>
    BY <1>3 DEF HourPasses
  <2>2. \A u \in Users : Booked(u)' = Booked(u)
    BY <1>1, <1>3 DEF Booked, proactive_count_today, Date
  <2>3. \A u : UnderWay(u)' <=> UnderWay(u)
    BY <1>1, <1>3 DEF UnderWay, Current, Date
  <2> QED
    BY <1>1, <1>3, <2>1, <2>2, <2>3 DEF HonestInv, Date
<1>4. CASE Date(now') # Date(now)
  <2>1. received' = [u \in Users |-> 0] /\ slips' = [u \in Users |-> 0]
    BY <1>4 DEF HourPasses
  <2>2. \A u \in Users : received'[u] = 0 /\ slips'[u] = 0
    BY <2>1
  <2>3. \A u \in Users : 0 <= Booked(u)' + 0 + (IF UnderWay(u)' THEN 1 ELSE 0)
    BY <1>2
  <2> QED
    BY <2>2, <2>3 DEF HonestInv
<1> QED
  BY <1>3, <1>4

(***************************************************************************)
(* HonestInv is inductive on top of IInv.                                  *)
(***************************************************************************)
LEMMA HonestInductive == Spec => []HonestInv
<1>1. Init => HonestInv
  <2> SUFFICES ASSUME Init PROVE HonestInv
    OBVIOUS
  <2>1. \A u \in Users : Booked(u) = 0 /\ received[u] = 0 /\ slips[u] = 0 /\ ~UnderWay(u)
    BY DEF Init, Booked, UnderWay, proactive_count_today
  <2> QED
    BY <2>1 DEF HonestInv, Init
<1>2. IInv /\ HonestInv /\ [Next]_vars => HonestInv'
  <2> SUFFICES ASSUME IInv, HonestInv, [Next]_vars PROVE HonestInv'
    OBVIOUS
  <2>1. CASE SendFails
    <3>1. PICK p \in pass : Slip(p) /\ GoOn(After(p), p)
      BY <2>1 DEF SendFails
    <3>2. \A q \in pass' : ~q.delivered /\ q.at = p.at
      BY <3>1, LoopSendsAnew
    <3> QED
      BY <2>1, <3>1, <3>2, SendFailsInv, SlipHonest DEF SendFails
  <2>2. CASE PassDies
    BY <2>2, PassDiesInv, SlipHonest DEF PassDies
  <2>3. CASE UNCHANGED vars
    BY <2>3 DEF vars, HonestInv, Booked, UnderWay, Current, Date, proactive_count_today
  <2>4. CASE \E u \in Users : Interact(u)
    BY <2>4, InteractHonest
  <2> QED
    BY <2>1, <2>2, <2>3, <2>4, StartHonest, DeliverHonest, SendReturnsHonest, HourHonest
    DEF Next, PassStep
<1> QED
  BY <1>1, <1>2, Inductive, PTL DEF Spec

(***************************************************************************)
(* No user has received more today than the counter, the slips and the     *)
(* nudge under way account for: over midnights, lost answers, failed       *)
(* commits and interactions.                                               *)
(***************************************************************************)
THEOREM HonestCount == Spec => []CountIsHonest
<1>1. IInv /\ HonestInv => CountIsHonest
  BY OneUnderWay, IInvParts DEF HonestInv, CountIsHonest, Booked
<1> QED
  BY <1>1, Inductive, HonestInductive, PTL

\* NudgedBelowCap for one step: either the counter says what the user received,
\* slips aside, or the pass is of yesterday and all of today has slipped.
LEMMA NudgeStep ==
  ASSUME IInv, HonestInv, [Next]_vars, NEW u \in Users, NEW p \in pass,
         received'[u] > received[u]
  PROVE  received[u] < activity_cap(rows[u], p.at) + slips[u]
<1>1. PassOK /\ TableOK
  BY IInvParts
<1>2. received[u] \in Nat /\ slips[u] \in Nat /\ Booked(u) \in Nat
  BY BookedIsANumber
<1>3. proactive_count_today(rows[u], p.at) < activity_cap(rows[u], p.at)
  BY StaleGatesStep
<1>4. /\ activity_cap(rows[u], p.at) \in Nat
      /\ activity_cap(rows[u], p.at) > 0
  BY DEF activity_cap, CAP_LOW, CAP_MEDIUM, CAP_HIGH
<1>5. CASE Deliver
  <2>1. PICK q \in pass : ~q.delivered
    BY <1>5 DEF Deliver
  <2>2. CASE Date(p.at) # Date(now)
    <3>1. received[u] <= slips[u]
      BY <2>2 DEF HonestInv
    <3> QED
      BY <1>2, <1>4, <3>1
  <2>3. CASE Date(p.at) = Date(now)
    <3>1. ~UnderWay(u)
      BY <1>1, <2>1, NoneUnderWay
    <3>2. received[u] <= Booked(u) + slips[u] + 0
      BY <3>1 DEF HonestInv
    <3>3. Booked(u) = proactive_count_today(rows[u], p.at)
      BY <2>3 DEF Booked, proactive_count_today
    <3> QED
      BY <1>2, <1>3, <1>4, <3>2, <3>3
  <2> QED
    BY <2>2, <2>3
<1>6. CASE HourPasses
  <2>1. received'[u] = received[u] \/ received'[u] = 0
    BY <1>6 DEF HourPasses
  <2> QED
    BY <1>2, <2>1
<1>7. CASE StartPass \/ SendReturns \/ SendFails \/ PassDies \/ (\E w \in Users : Interact(w))
           \/ UNCHANGED vars
  <2>1. received' = received
    BY <1>7 DEF StartPass, SendReturns, SendFails, PassDies, Interact, vars
  <2> QED
    BY <1>2, <2>1
<1> QED
  BY <1>5, <1>6, <1>7 DEF Next, PassStep

(***************************************************************************)
(* The daily cap, as far as it holds: nobody is nudged who has received    *)
(* his cap of nudges today and one for each of today's slips, for every    *)
(* number of users and over any number of passes, failed sends, lost       *)
(* counts and restarts.                                                    *)
(***************************************************************************)
THEOREM DailyCap == Spec => NudgedBelowCap
<1> DEFINE Step ==
      \A u \in Users, p \in pass : received'[u] > received[u] =>
        received[u] < activity_cap(rows[u], p.at) + slips[u]
<1>1. IInv /\ HonestInv /\ [Next]_vars => [Step]_vars
  BY NudgeStep
<1>2. NudgedBelowCap <=> [][Step]_vars
  BY DEF NudgedBelowCap
<1> HIDE DEF Step
<1>3. Spec => [][Step]_vars
  BY <1>1, Inductive, HonestInductive, PTL DEF Spec
<1> QED
  BY <1>2, <1>3
-----------------------------------------------------------------------------
(* The order of a pass *)

\* What the loop leaves is about the users it was given, on the same clock.
LEMMA LoopTakesTheRest ==
  ASSUME NEW us, NEW p, GoOn(us, p), NEW q \in pass'
  PROVE  q.at = p.at /\ DOMAIN q.snap \subseteq us
<1> DEFINE may == Allowed(us, p.snap, p.at)
           left == {w \in us : w >= First(may)}
           copies == [u \in left |-> p.snap[u]]
<1>1. pass' = {} \/ pass' = {[at |-> p.at, delivered |-> FALSE, snap |-> copies]}
  BY DEF GoOn
<1>2. DOMAIN copies \subseteq us
  OBVIOUS
<1> HIDE DEF copies
<1> QED
  BY <1>1, <1>2

\* OncePerPass for one step.
LEMMA PassStepOrder ==
  ASSUME IInv, [Next]_vars, NEW p \in pass, NEW q \in pass', q # p
  PROVE  /\ q.at = p.at
         /\ \/ ~p.delivered /\ q.delivered /\ q.snap = p.snap
            \/ DOMAIN q.snap \subseteq DOMAIN p.snap \ {Current(p)}
<1>1. \A r \in pass : r = p
  BY IInvParts DEF PassOK
<1>2. CASE Deliver
  BY <1>1, <1>2 DEF Deliver
<1>3. CASE SendReturns \/ SendFails
  <2>1. GoOn(After(p), p)
    BY <1>1, <1>3 DEF SendReturns, SendFails
  <2> QED
    BY <2>1, LoopTakesTheRest DEF After
<1>4. CASE StartPass \/ PassDies
  BY <1>4 DEF StartPass, PassDies
<1>5. CASE HourPasses \/ (\E w \in Users : Interact(w)) \/ UNCHANGED vars
  BY <1>1, <1>5 DEF HourPasses, Interact, vars
<1> QED
  BY <1>2, <1>3, <1>4, <1>5 DEF Next, PassStep

(***************************************************************************)
(* Every step of a pass leaves it with fewer users still to come, or turns *)
(* its send into one that is out: what fairness has to do for PassEnds.    *)
(***************************************************************************)
THEOREM PassOrder == Spec => OncePerPass
<1> DEFINE Step ==
      \A p \in pass, q \in pass' : q # p =>
        /\ q.at = p.at
        /\ \/ ~p.delivered /\ q.delivered /\ q.snap = p.snap
           \/ DOMAIN q.snap \subseteq DOMAIN p.snap \ {Current(p)}
<1>1. IInv /\ [Next]_vars => [Step]_vars
  BY PassStepOrder
<1>2. OncePerPass <=> [][Step]_vars
  BY DEF OncePerPass
<1> HIDE DEF Step
<1>3. Spec => [][Step]_vars
  BY <1>1, Inductive, PTL DEF Spec
<1> QED
  BY <1>2, <1>3
=============================================================================
