------------------------------- MODULE Proactive -------------------------------
(***************************************************************************)
(* The proactive scheduler (scheduler.py) against the users' rows, while   *)
(* the users go on using the bot and hours go by.                          *)
(*                                                                         *)
(* A pass reads the clock once and all user rows once (its session keeps   *)
(* the loaded objects, engine.py expire_on_commit=False), then takes the   *)
(* users one by one.  It can be suspended only in `await sender`, so       *)
(* everything between two sends is one step.  During a send handlers run,  *)
(* midnight may pass, Telegram may take the message and the answer still   *)
(* be lost, and the process may die.  max_instances=1: one pass at a time. *)
(* Instants are in hours; a pass overruns at most one hour boundary.       *)
(***************************************************************************)
EXTENDS Integers, FiniteSetsExt

CONSTANTS Users,                \* user ids, positive integers
          Fresh,                \* those among them who have not interacted yet
          HISTORY_HOURS,        \* hours in a UTC day (24)
          COLD_START_FIRST_HOUR, COLD_START_LAST_HOUR,  \* 9 and 21
          HIGH_ACTIVITY_HOURS,  \* 3
          ACTIVITY_WINDOW_DAYS, \* 7
          BACKOFF_DAYS,         \* 14
          MaxNow,               \* bound: hours
          MaxTouches,           \* bound: interactions per user
          MaxNudges,            \* bound: `received` counts to here
          MaxFaults             \* bound: failed sends, failed commits, restarts

ASSUME UsersAssumption == Users \subseteq Nat \ {0}
ASSUME HoursAssumption == HISTORY_HOURS \in Nat \ {0}
ASSUME DaysAssumption == ACTIVITY_WINDOW_DAYS \in Nat /\ BACKOFF_DAYS \in Nat
ASSUME ThresholdAssumption == HIGH_ACTIVITY_HOURS \in Nat

CAP_LOW    == 1
CAP_MEDIUM == 2
CAP_HIGH   == 3

VARIABLES
  now,          \* the clock, hours since day 0
  rows,         \* the users table
  due_users,    \* users with at least one due card
  dry_run,      \* SCHEDULER_DRY_RUN, fixed at boot
  pass,         \* {} or the pass suspended in a send: [at, snap, delivered]
  received,     \* ghost: nudges each user received on the current UTC date
  slips,        \* ghost: nudges of today that no counter of today has
  faults        \* ghost: faults so far

vars == <<now, rows, due_users, dry_run, pass, received, slips, faults>>

Hours   == 0..(HISTORY_HOURS - 1)
Date(t) == t \div HISTORY_HOURS
HourOf(t) == t % HISTORY_HOURS

\* proactive_count_date of a user never nudged
NoDate == -1

UserRow == [ last_active_at     : Nat,
             activity_hours_utc : [Hours -> Nat],
             proactive_count    : Nat,
             count_date         : Nat \cup {NoDate} ]
-----------------------------------------------------------------------------
(* The gates, over one row *)

Recorded(row) == {h \in Hours : row.activity_hours_utc[h] > 0}

activity_cap(row, t) ==
  IF \/ row.last_active_at < t - ACTIVITY_WINDOW_DAYS * HISTORY_HOURS
     \/ Recorded(row) = {}
  THEN CAP_LOW
  ELSE IF Cardinality(Recorded(row)) >= HIGH_ACTIVITY_HOURS THEN CAP_HIGH
  ELSE CAP_MEDIUM

\* The busiest recorded hour; ties go to the earlier one.
Peak(row) ==
  CHOOSE h \in Hours : \A g \in Hours :
    LET c == row.activity_hours_utc IN c[g] < c[h] \/ (c[g] = c[h] /\ h <= g)

active_window(row) ==
  IF Recorded(row) = {}
  THEN Hours \cap COLD_START_FIRST_HOUR .. (COLD_START_LAST_HOUR - 1)
  ELSE LET p == Peak(row)
       IN  {(p - 1) % HISTORY_HOURS, p, (p + 1) % HISTORY_HOURS}

is_backed_off(row, t) == row.last_active_at < t - BACKOFF_DAYS * HISTORY_HOURS

proactive_count_today(row, t) ==
  IF row.count_date # Date(t) THEN 0 ELSE row.proactive_count

\* Mutant: the daily cap is compared off by one.
decide_proactive_OffByOne(row, t) ==
  /\ ~is_backed_off(row, t)
  /\ proactive_count_today(row, t) <= activity_cap(row, t)
  /\ HourOf(t) \in active_window(row)

\* Mutant: back-off is not looked at.
decide_proactive_NoBackOff(row, t) ==
  /\ proactive_count_today(row, t) < activity_cap(row, t)
  /\ HourOf(t) \in active_window(row)

decide_proactive(row, t) ==
  /\ ~is_backed_off(row, t)
  /\ proactive_count_today(row, t) < activity_cap(row, t)
  /\ HourOf(t) \in active_window(row)
-----------------------------------------------------------------------------
(* The pass.  pass.snap holds the pass's own rows of the users it has not   *)
(* finished; the first of them is the one whose nudge is being sent.        *)

Fault == faults < MaxFaults /\ faults' = faults + 1

First(us) == CHOOSE u \in us : \A w \in us : u <= w

Current(p) == First(DOMAIN p.snap)

\* The users of us the loop would nudge: the gates over the pass's copy, the
\* due queue as it is now.
Allowed(us, copies, t) ==
  {u \in us : decide_proactive(copies[u], t) /\ u \in due_users /\ ~dry_run}

\* Mutant: the loop does not leave a user it has nudged.
GoOn_SameUser(us, p) ==
  LET may == Allowed(DOMAIN p.snap, p.snap, p.at)
  IN  pass' = IF may = {} THEN {}
              ELSE {[at |-> p.at, delivered |-> FALSE,
                     snap |-> [u \in {w \in DOMAIN p.snap : w >= First(may)} |-> p.snap[u]]]}

\* The loop over the users us up to its next send, or to its end.
GoOn(us, p) ==
  LET may == Allowed(us, p.snap, p.at)
  IN  pass' = IF may = {} THEN {}
              ELSE {[at |-> p.at, delivered |-> FALSE,
                     snap |-> [u \in {w \in us : w >= First(may)} |-> p.snap[u]]]}

\* Mutant: the job may run beside itself (max_instances missing).
StartPass_Overlap ==
  /\ \A p \in pass : p.delivered
  /\ LET may == Allowed(Users, rows, now)
     IN  /\ may # {}
         /\ pass' = pass \cup {[at |-> now, delivered |-> FALSE,
                               snap |-> [u \in {w \in Users : w >= First(may)} |-> rows[u]]]}
  /\ UNCHANGED <<now, rows, due_users, dry_run, received, slips, faults>>

\* _proactive_tick: a new session, the clock, users.all() in id order.
StartPass ==
  /\ pass = {}
  /\ GoOn(Users, [at |-> now, snap |-> rows, delivered |-> FALSE])
  /\ UNCHANGED <<now, rows, due_users, dry_run, received, slips, faults>>

After(p) == DOMAIN p.snap \ {Current(p)}

\* Telegram takes the message: the user has it, whatever the bot learns of it.
\* The nudge of a pass that began yesterday will be counted for yesterday.
Deliver ==
  \E p \in pass :
    LET u == Current(p)
    IN  /\ ~p.delivered
        /\ pass' = {[at |-> p.at, snap |-> p.snap, delivered |-> TRUE]}
        /\ received' = [received EXCEPT ![u] = IF @ < MaxNudges THEN @ + 1 ELSE @]
        /\ slips' = IF Date(p.at) # Date(now) THEN [slips EXCEPT ![u] = @ + 1] ELSE slips
        /\ UNCHANGED <<now, rows, due_users, dry_run, faults>>

\* Mutant: a full-row write of the pass's copy.
record_proactive_WholeRow(row, copy, t) ==
  [copy EXCEPT !.proactive_count = proactive_count_today(copy, t) + 1,
               !.count_date = Date(t)]

\* Mutant: the new date is not stored, so no later read takes the count.
record_proactive_NoDate(row, copy, t) ==
  [row EXCEPT !.proactive_count = proactive_count_today(copy, t) + 1]

\* UserRepository.record_proactive: the date rolls over, the count goes up, and
\* UPDATE writes these two columns only.
record_proactive(row, copy, t) ==
  [row EXCEPT !.proactive_count = proactive_count_today(copy, t) + 1,
              !.count_date = Date(t)]

\* The send returned: counted for the date of the pass, on to the next user.
SendReturns ==
  \E p \in pass :
    LET u == Current(p)
    IN  /\ p.delivered
        /\ rows' = [rows EXCEPT ![u] = record_proactive(@, p.snap[u], p.at)]
        /\ GoOn(After(p), p)
        /\ UNCHANGED <<now, due_users, dry_run, received, slips, faults>>

\* The user of the pass has a nudge that will not be counted.
Slip(p) ==
  slips' = IF p.delivered /\ Date(p.at) = Date(now)
           THEN [slips EXCEPT ![Current(p)] = @ + 1] ELSE slips

\* The send raises, before or after Telegram took the message: not counted.
SendFails ==
  /\ Fault
  /\ \E p \in pass : Slip(p) /\ GoOn(After(p), p)
  /\ UNCHANGED <<now, rows, due_users, dry_run, received>>

\* The commit of the count fails, or the process dies: the pass is over.
PassDies ==
  /\ Fault
  /\ \E p \in pass : Slip(p)
  /\ pass' = {}
  /\ UNCHANGED <<now, rows, due_users, dry_run, received>>
-----------------------------------------------------------------------------
(* The users and the environment *)

\* UserRepository.touch_activity
touch_activity(row, t) ==
  [row EXCEPT !.activity_hours_utc[HourOf(t)] = @ + 1, !.last_active_at = t]

\* Any interaction (ensure_profile, touch_activity), which may also be the
\* review that empties the user's due queue.
Interact(u) ==
  /\ MapThenSumSet(LAMBDA h : rows[u].activity_hours_utc[h], Hours) < MaxTouches
  /\ rows' = [rows EXCEPT ![u] = touch_activity(@, now)]
  /\ \/ UNCHANGED due_users
     \/ due_users' = due_users \ {u}
  /\ UNCHANGED <<now, dry_run, pass, received, slips, faults>>

\* The clock moves on, and with it cards come due.
HourPasses ==
  /\ now < MaxNow
  /\ \A p \in pass : p.at = now
  /\ now' = now + 1
  /\ IF Date(now') = Date(now)
     THEN UNCHANGED <<received, slips>>
     ELSE received' = [u \in Users |-> 0] /\ slips' = [u \in Users |-> 0]
  /\ due_users' \in {due_users, Users}
  /\ UNCHANGED <<rows, dry_run, pass, faults>>

\* Profiles as get_or_create leaves them (the histogram is still empty) or
\* after their first interaction at hour 0.
Init ==
  /\ now = 0
  /\ rows = [u \in Users |->
               [ last_active_at     |-> 0,
                 activity_hours_utc |->
                   [h \in Hours |-> IF h = 0 /\ u \notin Fresh THEN 1 ELSE 0],
                 proactive_count    |-> 0,
                 count_date         |-> NoDate ]]
  /\ due_users = Users
  /\ dry_run \in BOOLEAN
  /\ pass = {}
  /\ received = [u \in Users |-> 0]
  /\ slips = [u \in Users |-> 0]
  /\ faults = 0

PassStep == Deliver \/ SendReturns \/ SendFails \/ PassDies

Next ==
  \/ StartPass \/ PassStep
  \/ \E u \in Users : Interact(u)
  \/ HourPasses

\* A send returns or times out (aiogram), and the loop goes on.
Fairness == WF_vars(PassStep)

Spec == Init /\ [][Next]_vars /\ Fairness
-----------------------------------------------------------------------------
(* Properties *)

TypeOK ==
  /\ now \in Nat
  /\ rows \in [Users -> UserRow]
  /\ due_users \subseteq Users
  /\ dry_run \in BOOLEAN
  /\ \A p \in pass :
       /\ p = [at |-> p.at, snap |-> p.snap, delivered |-> p.delivered]
       /\ p.at \in Nat /\ p.delivered \in BOOLEAN
       /\ DOMAIN p.snap \in (SUBSET Users) \ {{}}
       /\ p.snap \in [DOMAIN p.snap -> UserRow]
  /\ \A p, q \in pass : p = q
  /\ received \in [Users -> Nat]
  /\ slips \in [Users -> Nat]
  /\ faults \in Nat

(***************************************************************************)
(* The stored counter never passes the highest cap, over midnights, failed *)
(* sends and restarts (scheduler spec "Cap 1-3").                          *)
(***************************************************************************)
CountWithinCap == \A u \in Users : rows[u].proactive_count <= CAP_HIGH

(***************************************************************************)
(* Every nudge a user has received today is accounted for: by the counter  *)
(* of his row, by the send under way, or as a slip, one for each count     *)
(* that failed and for each nudge a pass that straddles midnight books on  *)
(* yesterday (record_proactive).                                           *)
(***************************************************************************)
CountIsHonest ==
  \A u \in Users :
    received[u] <= proactive_count_today(rows[u], now) + slips[u]
      + Cardinality({p \in pass :
                       Current(p) = u /\ p.delivered /\ Date(p.at) = Date(now)})

(***************************************************************************)
(* Nobody in back-off by his current row is nudged, and nobody beyond the  *)
(* cap of his current row, although the gates read a copy that is stale by *)
(* the time of the send: interactions during the pass only ever widen both.*)
(***************************************************************************)
StaleGatesAreSafe ==
  [][\A u \in Users, p \in pass : received'[u] > received[u] =>
       /\ ~is_backed_off(rows[u], p.at)
       /\ proactive_count_today(rows[u], p.at) < activity_cap(rows[u], p.at)]_vars

(***************************************************************************)
(* What holds of the spec's "1-3 per UTC day": a user is nudged only below *)
(* the cap of his current row, by what he has received and not by what the *)
(* row says.  A count that was lost, or booked on yesterday, lets him have *)
(* one nudge above it and no more.                                         *)
(***************************************************************************)
NudgedBelowCap ==
  [][\A u \in Users, p \in pass : received'[u] > received[u] =>
       received[u] < activity_cap(rows[u], p.at) + slips[u]]_vars

(***************************************************************************)
(* A pass sends to each user once at most and to all with one clock: what  *)
(* goes on from a send has left its user behind (run_proactive_pass).      *)
(***************************************************************************)
OncePerPass ==
  [][\A p \in pass, q \in pass' : q # p =>
       /\ q.at = p.at
       /\ \/ ~p.delivered /\ q.delivered /\ q.snap = p.snap
          \/ DOMAIN q.snap \subseteq DOMAIN p.snap \ {Current(p)}]_vars

(***************************************************************************)
(* The two sessions that hold a user's row never overwrite each other: the *)
(* histogram never loses a count and last_active_at never goes back.       *)
(***************************************************************************)
ActivityNeverLost ==
  [][\A u \in Users :
       /\ rows'[u].last_active_at >= rows[u].last_active_at
       /\ \A h \in Hours :
            rows'[u].activity_hours_utc[h] >= rows[u].activity_hours_utc[h]]_vars

(***************************************************************************)
(* Every pass ends, so max_instances=1 never blocks the ticks for good.    *)
(***************************************************************************)
PassEnds == (pass # {}) ~> (pass = {})

(***************************************************************************)
(* What the scheduler spec asks: no nudge reaches a user who has had his   *)
(* cap of nudges on that UTC date.                                         *)
(***************************************************************************)
CapPerUtcDay ==
  [][\A u \in Users, p \in pass : received'[u] > received[u] =>
       received[u] < CAP_HIGH]_vars
=============================================================================
