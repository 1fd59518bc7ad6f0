-------------------------- MODULE ReviewSessionProofs --------------------------
(***************************************************************************)
(* Proofs about ReviewSession, for any cards, grades, intervals, lifetimes *)
(* and bounds.                                                             *)
(***************************************************************************)
EXTENDS ReviewSession, FiniteSetTheorems, WellFoundedInduction, TLAPS

Msg == [kind : Kinds, item : Items]

SessionOK(s) ==
  /\ s.total \in 1 .. Cardinality(Items)
  /\ s.rated \subseteq Items
  /\ s.pending \in Items \cup {0}
  /\ s.expires \in 1 .. (MaxNow + TTL)
  /\ s.pending \notin s.rated

\* The store has one session of the user, or none.
Sessions ==
  /\ Cardinality(session) <= 1
  /\ \A s, t \in session : s = t
  /\ \A s \in session : SessionOK(s)

\* What a rating that is being acknowledged goes on with.
Acks ==
  \A a \in acking : /\ a.rated \subseteq Items /\ a.rated # {}
                    /\ a.total \in 1 .. Cardinality(Items)

World ==
  /\ now \in 0 .. MaxNow
  /\ next_at \in [Items -> Nat]
  /\ chat \in Seq(Msg)
  /\ ledger \subseteq Buttons
  /\ Acks
  /\ lost \in BOOLEAN
  /\ broken \subseteq {"users", "items"}
  /\ boosted \subseteq Items
  /\ faults \in 0 .. MaxFaults

\* A card on screen was due when it was shown and has stayed so, but for a boost.
ShownIsDue ==
  \A s \in Live : s.pending # 0 => next_at[s.pending] <= now \/ s.pending \in boosted

IInv == World /\ Sessions /\ NeverStuck /\ ShownIsDue
-----------------------------------------------------------------------------
(* The due queue *)

LEMMA LeastNumber ==
  ASSUME NEW S \in SUBSET Nat, S # {}
  PROVE  \E x \in S : \A y \in S : x <= y
<1>1. \E x \in S : \A y \in S : ~(<<y, x>> \in OpToRel(<, Nat))
  BY NatLessThanWellFounded, WFMin
<1>2. \A x, y \in S : ~(<<y, x>> \in OpToRel(<, Nat)) => x <= y
  <2> SUFFICES ASSUME NEW x \in S, NEW y \in S, ~(x <= y)
               PROVE  <<y, x>> \in OpToRel(<, Nat)
    OBVIOUS
  <2>1. y < x /\ x \in Nat /\ y \in Nat
    OBVIOUS
  <2> QED
    BY <2>1 DEF OpToRel
<1> QED
  BY <1>1, <1>2

\* A queue that is not empty has a first card.
LEMMA OldestIsThere ==
  ASSUME next_at \in [Items -> Nat], NEW S \in SUBSET Items, S # {}
  PROVE  Oldest(S) \in S
<1>1. PICK t \in {next_at[i] : i \in S} : \A u \in {next_at[i] : i \in S} : t <= u
  <2>1. {next_at[i] : i \in S} \in SUBSET Nat /\ {next_at[i] : i \in S} # {}
    OBVIOUS
  <2> QED
    BY <2>1, LeastNumber
<1>2. PICK i \in {j \in S : next_at[j] = t} : \A j \in {k \in S : next_at[k] = t} : i <= j
  <2>1. {j \in S : next_at[j] = t} \in SUBSET Nat /\ {j \in S : next_at[j] = t} # {}
    BY <1>1, ItemsAssumption
  <2> QED
    BY <2>1, LeastNumber
<1>3. \A j \in S : next_at[i] < next_at[j] \/ (next_at[i] = next_at[j] /\ i <= j)
  <2> SUFFICES ASSUME NEW j \in S
               PROVE  next_at[i] < next_at[j] \/ (next_at[i] = next_at[j] /\ i <= j)
    OBVIOUS
  <2>1. next_at[i] = t /\ t <= next_at[j] /\ t \in Nat /\ next_at[j] \in Nat
    BY <1>1, <1>2
  <2>2. next_at[j] = t => i <= j
    BY <1>2
  <2> QED
    BY <2>1, <2>2
<1> QED
  BY <1>2, <1>3 DEF Oldest

\* The length of a queue that is not empty.
LEMMA QueueLength ==
  ASSUME due # {}
  PROVE  Cardinality(due) \in 1 .. Cardinality(Items)
<1>1. due \subseteq Items
  BY DEF due
<1>2. /\ IsFiniteSet(due) /\ Cardinality(due) <= Cardinality(Items)
      /\ Cardinality(due) \in Nat /\ Cardinality(Items) \in Nat
  BY <1>1, ItemsAssumption, FS_Subset, FS_CardinalityType
<1>3. Cardinality(due) # 0
  BY <1>2, FS_EmptySet
<1> QED
  BY <1>2, <1>3
-----------------------------------------------------------------------------
(* The chat *)

ChatGrows ==
  /\ chat' \in Seq(Msg)
  /\ Len(chat') >= Len(chat)
  /\ \A m \in DOMAIN chat : chat'[m] = chat[m]

LEMMA ButtonFields ==
  ASSUME chat \in Seq(Msg), NEW b \in Buttons
  PROVE  /\ b[1] \in DOMAIN chat /\ ItemOf(b) \in Items
         /\ b[2] \in Labels[chat[b[1]].kind]
         /\ b = <<b[1], b[2]>>
         /\ b[2] \in Grades \cup {"show", "boost"}
<1>1. PICK m \in DOMAIN chat : \E l \in Labels[chat[m].kind] : b = <<m, l>>
  BY DEF Buttons
<1>2. b[1] = m /\ b[2] \in Labels[chat[m].kind] /\ b = <<b[1], b[2]>>
  BY <1>1
<1>3. chat[m] \in Msg
  OBVIOUS
<1>4. chat[m].kind \in Kinds /\ chat[m].item \in Items
  BY <1>3 DEF Msg
<1> QED
  BY <1>2, <1>4 DEF ItemOf, Labels, Kinds

LEMMA ButtonsStay ==
  ASSUME chat \in Seq(Msg), ChatGrows
  PROVE  Buttons \subseteq Buttons'
<1> SUFFICES ASSUME NEW m \in DOMAIN chat, NEW l \in Labels[chat[m].kind]
             PROVE  <<m, l>> \in Buttons'
  BY DEF Buttons
<1>1. m \in DOMAIN chat' /\ chat'[m] = chat[m]
  BY DEF ChatGrows
<1> QED
  BY <1>1 DEF Buttons, Labels

LEMMA DeliveredGrows ==
  ASSUME chat \in Seq(Msg), NEW kind \in Kinds, NEW i \in Items, Delivered(kind, i)
  PROVE  ChatGrows
<1>1. [kind |-> kind, item |-> i] \in Msg
  BY DEF Msg
<1> QED
  BY <1>1 DEF Delivered, ChatGrows

\* A button that moves card i on is in the chat, and was not used.
HasWay(i) ==
  \E b \in Buttons \ ledger : ItemOf(b) = i /\ b[2] \in Grades \cup {"show"}

\* It is still there when none but others have been used.
LEMMA WayKept ==
  ASSUME chat \in Seq(Msg), ChatGrows, NEW i, HasWay(i), NEW L,
         ledger' \subseteq ledger \cup L,
         \A c \in L : ItemOf(c) # i \/ c[2] = "boost"
  PROVE  HasWay(i)'
<1>1. PICK b \in Buttons \ ledger : ItemOf(b) = i /\ b[2] \in Grades \cup {"show"}
  BY DEF HasWay
<1>2. b \in Buttons'
  BY ButtonsStay
<1>3. b[2] # "boost"
  BY <1>1, GradesAssumption
<1>4. b \notin ledger'
  BY <1>1, <1>3
<1>5. chat'[b[1]].item = i
  BY <1>1, ButtonFields DEF ChatGrows, ItemOf
<1> QED
  BY <1>1, <1>2, <1>4, <1>5 DEF HasWay, ItemOf

\* A new message brings one.
LEMMA WayNew ==
  ASSUME chat \in Seq(Msg), NEW kind \in {"front", "quality"}, NEW i \in Items,
         Delivered(kind, i), ledger' \subseteq Buttons
  PROVE  HasWay(i)'
<1> DEFINE m == Len(chat) + 1
<1>1. m \in DOMAIN chat' /\ chat'[m] = [kind |-> kind, item |-> i]
  BY DEF Delivered
<1>2. PICK l \in Grades \cup {"show"} : l \in Labels[kind]
  BY GradesAssumption DEF Labels
<1>3. <<m, l>> \in Buttons'
  BY <1>1, <1>2 DEF Buttons, Labels
<1>4. <<m, l>> \notin ledger'
  <2>1. m \notin DOMAIN chat
    OBVIOUS
  <2> QED
    BY <2>1, ButtonFields
<1> HIDE DEF m
<1> QED
  BY <1>1, <1>2, <1>3, <1>4 DEF HasWay, ItemOf

LEMMA NeverStuckWays ==
  NeverStuck <=> (~lost /\ broken = {} => \A s \in Live : s.pending # 0 => HasWay(s.pending))
  BY DEF NeverStuck, HasWay

LEMMA NeverStuckWaysPrimed ==
  NeverStuck' <=> (~lost' /\ broken' = {} => \A s \in Live' : s.pending # 0 => HasWay(s.pending)')
  BY DEF NeverStuck, HasWay, ItemOf
-----------------------------------------------------------------------------
(* Sessions *)

LEMMA SetSession ==
  ASSUME now \in 0 .. MaxNow, NEW total \in 1 .. Cardinality(Items),
         NEW rated \in SUBSET Items, NEW pending \in Items \cup {0}, pending \notin rated,
         _set_session(total, rated, pending)
  PROVE  Sessions'
<1> DEFINE s == [total |-> total, rated |-> rated, pending |-> pending, expires |-> now + TTL]
<1>1. session' = {s}
  BY DEF _set_session
<1>2. now + TTL \in 1 .. (MaxNow + TTL)
  BY TimeAssumption
<1>3. SessionOK(s)
  BY <1>2 DEF SessionOK
<1> HIDE DEF s
<1>4. Cardinality(session') = 1
  BY <1>1, FS_Singleton
<1>5. \A t, u \in session' : t = u
  BY <1>1
<1>6. \A t \in session' : SessionOK(t)'
  BY <1>1, <1>3 DEF SessionOK
<1> QED
  BY <1>4, <1>5, <1>6 DEF Sessions

LEMMA NoSession ==
  ASSUME session' = {}
  PROVE  Sessions' /\ Live' = {}
<1>1. Cardinality(session') = 0
  BY FS_EmptySet
<1> QED
  BY <1>1 DEF Sessions, Live

LEMMA SameSession ==
  ASSUME Sessions, UNCHANGED session
  PROVE  Sessions'
  BY DEF Sessions, SessionOK

LEMMA EmptyHanded ==
  ASSUME World', session' = {}
  PROVE  IInv'
<1>1. Sessions' /\ Live' = {}
  BY NoSession
<1> QED
  BY <1>1 DEF IInv, NeverStuck, ShownIsDue

LEMMA LiveSessions == Live \subseteq session
  BY DEF Live

-----------------------------------------------------------------------------
(* The actions *)

LEMMA FaultCounts ==
  ASSUME faults \in 0 .. MaxFaults, Fault
  PROVE  faults' \in 0 .. MaxFaults
  BY FaultsAssumption DEF Fault

LEMMA PressSpends ==
  ASSUME World, NEW b, first_seen(b), ChatGrows
  PROVE  /\ b \in Buttons \ ledger /\ ledger' = ledger \cup {b}
         /\ ledger' \subseteq Buttons /\ ledger' \subseteq Buttons'
         /\ ItemOf(b) \in Items
  BY ButtonFields, ButtonsStay DEF World, first_seen

LEMMA SameChat ==
  ASSUME World, UNCHANGED chat
  PROVE  ChatGrows
  BY DEF World, ChatGrows

\* Steps that leave rows, clock and session alone.
LEMMA DialogOnly ==
  ASSUME IInv, UNCHANGED <<now, next_at, session, boosted>>, ChatGrows,
         acking' \subseteq acking, ledger' \subseteq Buttons', lost' \in BOOLEAN,
         broken' \subseteq {"users", "items"}, faults' \in 0 .. MaxFaults,
         NeverStuck'
  PROVE  IInv'
<1>1. World'
  BY DEF IInv, World, ChatGrows, Acks
<1>2. Sessions'
  BY SameSession DEF IInv
<1>3. ShownIsDue'
  BY DEF IInv, ShownIsDue, Live
<1> QED
  BY <1>1, <1>2, <1>3 DEF IInv

LEMMA StaleInv ==
  ASSUME IInv, NEW b, StaleButton(b)
  PROVE  IInv'
<1>1. ChatGrows /\ World
  BY SameChat DEF StaleButton, IInv
<1>2. /\ ledger' = ledger \cup {b} /\ ledger' \subseteq Buttons'
  BY <1>1, PressSpends DEF StaleButton
<1>3. faults' \in 0 .. MaxFaults
  BY <1>1, FaultCounts DEF StaleButton, World
<1>4. ASSUME ~lost, broken = {}, NEW s \in Live, s.pending # 0
      PROVE  HasWay(s.pending)'
  <2>1. HasWay(s.pending)
    BY <1>4, NeverStuckWays DEF IInv
  <2>2. \A c \in {b} : ItemOf(c) # s.pending \/ c[2] = "boost"
    BY <1>4 DEF StaleButton, OnScreen
  <2>3. chat \in Seq(Msg) /\ ledger' \subseteq ledger \cup {b}
    BY <1>1, <1>2 DEF World
  <2> QED
    BY <1>1, <2>1, <2>2, <2>3, WayKept
<1>5. UNCHANGED <<lost, broken, session, now>> /\ Live' = Live
  BY DEF StaleButton, Live
<1>6. NeverStuck'
  BY <1>4, <1>5, NeverStuckWaysPrimed
<1> QED
  BY <1>1, <1>2, <1>3, <1>6, DialogOnly DEF StaleButton, World

LEMMA MessageGoneInv ==
  ASSUME IInv, NEW b, MessageGone(b)
  PROVE  IInv'
<1>1. ChatGrows /\ World
  BY SameChat DEF MessageGone, IInv
<1>2. /\ ledger' = ledger \cup {b} /\ ledger' \subseteq Buttons'
  BY <1>1, PressSpends DEF MessageGone
<1>3. faults' \in 0 .. MaxFaults
  BY <1>1, FaultCounts DEF MessageGone, World
<1>4. ASSUME ~lost', broken = {}, NEW s \in Live, s.pending # 0
      PROVE  HasWay(s.pending)'
  <2>1. HasWay(s.pending)
    BY <1>4, NeverStuckWays DEF IInv, MessageGone
  <2>2. \A c \in {b} : ItemOf(c) # s.pending \/ c[2] = "boost"
    BY <1>4 DEF MessageGone, OnScreen
  <2>3. chat \in Seq(Msg) /\ ledger' \subseteq ledger \cup {b}
    BY <1>1, <1>2 DEF World
  <2> QED
    BY <1>1, <2>1, <2>2, <2>3, WayKept
<1>5. UNCHANGED <<broken, session, now>> /\ Live' = Live
  BY DEF MessageGone, Live
<1>6. NeverStuck'
  BY <1>4, <1>5, NeverStuckWaysPrimed
<1>7. lost' \in BOOLEAN
  BY <1>1 DEF MessageGone, World
<1> QED
  BY <1>1, <1>2, <1>3, <1>6, <1>7, DialogOnly DEF MessageGone, World

LEMMA ShowInv ==
  ASSUME IInv, NEW b, _show_answer(b)
  PROVE  IInv'
<1>1. World /\ Sessions /\ chat \in Seq(Msg) /\ b \in Buttons
  BY DEF IInv, World, _show_answer, first_seen
<1>2. ItemOf(b) \in Items
  BY <1>1, ButtonFields
<1>3. CASE Delivered("quality", ItemOf(b)) /\ UNCHANGED <<lost, faults>>
  <2>1. ChatGrows
    BY <1>1, <1>2, <1>3, DeliveredGrows DEF Kinds
  <2>2. ledger' \subseteq Buttons /\ ledger' \subseteq Buttons'
    BY <1>1, <2>1, PressSpends DEF _show_answer
  <2>3. ASSUME NEW i, i = ItemOf(b)
        PROVE  HasWay(i)'
    BY <1>1, <1>2, <1>3, <2>2, <2>3, WayNew
  <2>4. \A s \in Live' : s.pending = ItemOf(b)
    BY <1>1 DEF _show_answer, OnScreen, Live, Sessions
  <2>5. NeverStuck'
    <3>1. ASSUME NEW s \in Live'
          PROVE  HasWay(s.pending)'
      <4>1. s.pending = ItemOf(b)
        BY <2>4, <3>1
      <4> QED
        BY <2>3, <4>1
    <3> QED
      BY <3>1, NeverStuckWaysPrimed
  <2> QED
    BY <1>1, <1>3, <2>1, <2>2, <2>5, DialogOnly DEF _show_answer, World
<1>4. CASE NotDelivered
  <2>1. ChatGrows /\ lost' = TRUE
    BY <1>1, <1>4, SameChat DEF NotDelivered
  <2>2. ledger' \subseteq Buttons'
    BY <1>1, <2>1, PressSpends DEF _show_answer
  <2>3. faults' \in 0 .. MaxFaults
    BY <1>1, <1>4, FaultCounts DEF NotDelivered, World
  <2>4. NeverStuck'
    BY <2>1 DEF NeverStuck
  <2> QED
    BY <1>1, <2>1, <2>2, <2>3, <2>4, DialogOnly DEF _show_answer, World
<1> QED
  BY <1>3, <1>4 DEF _show_answer

LEMMA RateFailsInv ==
  ASSUME IInv, NEW b, RateFails(b)
  PROVE  IInv'
<1>1. World /\ chat \in Seq(Msg) /\ b \in Buttons
  BY DEF IInv, World, RateFails, RatePressed, first_seen
<1>2. ItemOf(b) \in Items
  BY <1>1, ButtonFields
<1>3. ChatGrows
  BY <1>1, <1>2, DeliveredGrows, SameChat DEF RateFails, Kinds
<1>4. ledger' \subseteq Buttons'
  BY <1>1, <1>3, PressSpends DEF RateFails, RatePressed
<1>5. faults' \in 0 .. MaxFaults
  BY <1>1, FaultCounts DEF RateFails, World
<1>6. NeverStuck'
  BY DEF RateFails, NeverStuck
<1>7. lost' \in BOOLEAN /\ broken' \subseteq {"users", "items"}
  BY <1>1 DEF RateFails, World
<1> QED
  BY <1>3, <1>4, <1>5, <1>6, <1>7, DialogOnly DEF RateFails

LEMMA RaisesInv ==
  ASSUME IInv, NEW b, Raises(b)
  PROVE  IInv'
<1>1. ChatGrows /\ World
  BY SameChat DEF Raises, IInv
<1>2. ledger' \subseteq Buttons'
  BY <1>1, PressSpends DEF Raises
<1>3. NeverStuck'
  BY DEF Raises, NeverStuck
<1> QED
  BY <1>1, <1>2, <1>3, DialogOnly DEF Raises, World

LEMMA AckFailsInv ==
  ASSUME IInv, NEW a, AckFails(a)
  PROVE  IInv'
<1>1. ChatGrows /\ World
  BY SameChat DEF AckFails, IInv
<1>2. ledger' \subseteq Buttons'
  BY <1>1, ButtonsStay DEF AckFails, World
<1>3. NeverStuck' /\ lost' \in BOOLEAN
  BY DEF AckFails, NeverStuck
<1>4. faults' \in 0 .. MaxFaults
  BY <1>1, FaultCounts DEF AckFails, World
<1> QED
  BY <1>1, <1>2, <1>3, <1>4, DialogOnly DEF AckFails, World

LEMMA ProfileFailsInv ==
  ASSUME IInv, ProfileFails
  PROVE  IInv'
<1>1. ChatGrows /\ World
  BY SameChat DEF ProfileFails, IInv
<1>2. ledger' \subseteq Buttons'
  BY <1>1, ButtonsStay DEF ProfileFails, World
<1>3. NeverStuck' /\ broken' \subseteq {"users", "items"}
  BY <1>1 DEF ProfileFails, NeverStuck, World
<1>4. faults' \in 0 .. MaxFaults
  BY <1>1, FaultCounts DEF ProfileFails, World
<1> QED
  BY <1>1, <1>2, <1>3, <1>4, DialogOnly DEF ProfileFails, World

\* A session that is left leaves the rows, and nothing on screen.
LEMMA LedgerStays ==
  ASSUME World, UNCHANGED <<chat, ledger>>
  PROVE  ledger' \subseteq Buttons'
  BY SameChat, ButtonsStay DEF World

LEMMA StopInv ==
  ASSUME IInv, NEW i \in Items, Stop(i)
  PROVE  IInv'
<1>1. World'
  BY LedgerStays DEF IInv, World, Acks, Stop
<1> QED
  BY <1>1, EmptyHanded DEF Stop

LEMMA RestartInv ==
  ASSUME IInv, Restart
  PROVE  IInv'
<1>1. World'
  BY DEF IInv, World, Acks, Restart
<1> QED
  BY <1>1, EmptyHanded DEF Restart

\* The next card of a queue, or its loss.
LEMMA PresentInv ==
  ASSUME World, NEW Q \in SUBSET due, Q # {}, NEW total \in 1 .. Cardinality(Items),
         NEW rated \in SUBSET Items, rated \cap Q = {},
         _set_session(total, rated, Oldest(Q)), Present(Oldest(Q)),
         boosted' = {}, UNCHANGED <<now, next_at, ledger, broken>>, acking' \subseteq acking
  PROVE  IInv'
<1> DEFINE i == Oldest(Q)
<1>1. i \in Q /\ i \in Items /\ next_at[i] <= now /\ i \notin rated
  BY OldestIsThere DEF World, due
<1> HIDE DEF i
<1>2. chat \in Seq(Msg) /\ ledger \subseteq Buttons
  BY DEF World
<1>3. ChatGrows /\ lost' \in BOOLEAN /\ faults' \in 0 .. MaxFaults
  <2>1. CASE Delivered("front", i) /\ lost' = FALSE /\ UNCHANGED faults
    BY <1>1, <1>2, <2>1, DeliveredGrows DEF Kinds, World
  <2>2. CASE NotDelivered
    BY <2>2, SameChat, FaultCounts DEF NotDelivered, World
  <2> QED
    BY <2>1, <2>2 DEF Present, i
<1>4. World'
  <2>1. ledger' \subseteq Buttons'
    BY <1>2, <1>3, ButtonsStay
  <2> QED
    BY <1>3, <2>1 DEF World, Acks, ChatGrows
<1>5. Sessions'
  BY <1>1, SetSession DEF World, i
<1>6. \A s \in Live' : s.pending = i
  BY DEF Live, _set_session, i
<1>7. NeverStuck'
  <2>1. CASE lost'
    BY <2>1 DEF NeverStuck
  <2>2. CASE ~lost'
    <3>1. Delivered("front", i)
      BY <2>2 DEF Present, NotDelivered, i
    <3>2. ASSUME NEW j, j = i
          PROVE  HasWay(j)'
      BY <1>1, <1>2, <3>1, <3>2, WayNew
    <3>3. ASSUME NEW s \in Live'
          PROVE  HasWay(s.pending)'
      <4>1. s.pending = i
        BY <1>6, <3>3
      <4> QED
        BY <3>2, <4>1
    <3> QED
      BY <3>3, NeverStuckWaysPrimed
  <2> QED
    BY <2>1, <2>2
<1>8. ShownIsDue'
  BY <1>1, <1>6 DEF ShownIsDue
<1> QED
  BY <1>4, <1>5, <1>7, <1>8 DEF IInv

LEMMA ReviewInv ==
  ASSUME IInv, start_review_session
  PROVE  IInv'
<1>1. CASE due = {}
  <2>1. World'
    BY <1>1, LedgerStays DEF IInv, World, Acks, start_review_session
  <2> QED
    BY <1>1, <2>1, EmptyHanded DEF start_review_session
<1>2. CASE due # {}
  <2>1. Cardinality(due) \in 1 .. Cardinality(Items)
    BY <1>2, QueueLength
  <2>2. {} \in SUBSET Items /\ {} \cap due = {} /\ due \in SUBSET due
    OBVIOUS
  <2>3. /\ _set_session(Cardinality(due), {}, Oldest(due)) /\ Present(Oldest(due))
        /\ boosted' = {} /\ UNCHANGED <<now, next_at, ledger, broken>> /\ acking' \subseteq acking
    BY <1>2 DEF start_review_session
  <2> QED
    BY <1>2, <2>1, <2>2, <2>3, PresentInv DEF IInv
<1> QED
  BY <1>1, <1>2

LEMMA ContinueInv ==
  ASSUME IInv, NEW a, Continue(a)
  PROVE  IInv'
<1> DEFINE left == _next_due_id(a.rated)
<1>1. /\ a.rated \in SUBSET Items /\ a.total \in 1 .. Cardinality(Items)
      /\ acking' \subseteq acking
  BY DEF IInv, World, Acks, Continue
<1>2. left \in SUBSET due /\ a.rated \cap left = {}
  BY DEF _next_due_id
<1>3. CASE left = {}
  <2>1. World'
    <3>1. UNCHANGED <<now, next_at, chat, ledger, broken, faults>> /\ lost' = FALSE /\ boosted' = {}
      BY <1>3 DEF Continue
    <3> QED
      BY <1>1, <3>1, LedgerStays DEF IInv, World, Acks
  <2> QED
    BY <1>3, <2>1, EmptyHanded DEF Continue
<1>4. CASE left # {}
  <2>1. /\ _set_session(a.total, a.rated, Oldest(left)) /\ Present(Oldest(left))
        /\ boosted' = {} /\ UNCHANGED <<now, next_at, ledger, broken>>
    BY <1>4 DEF Continue
  <2> HIDE DEF left
  <2> QED
    BY <1>1, <1>2, <1>4, <2>1, PresentInv DEF IInv
<1> QED
  BY <1>3, <1>4

LEMMA RateAppliedInv ==
  ASSUME IInv, NEW b, RateApplied(b)
  PROVE  IInv'
<1>1. World /\ Sessions /\ ChatGrows
  BY SameChat DEF IInv, RateApplied, Rated
<1>2. /\ b \in Buttons /\ ledger' \subseteq Buttons' /\ ItemOf(b) \in Items /\ b[2] \in Grades
  BY <1>1, PressSpends DEF RateApplied, Rated, RatePressed
<1>3. PICK d \in Delays[b[2]] : next_at' = [next_at EXCEPT ![ItemOf(b)] = now + d]
  BY DEF RateApplied, Rated
<1>4. d \in Nat /\ now + d \in Nat
  BY <1>1, <1>2, TimeAssumption DEF World
<1>5. PICK s \in Live :
        /\ _set_session(s.total, s.rated \cup {ItemOf(b)}, 0)
        /\ acking' = acking \cup {[at |-> now, total |-> s.total, rated |-> s.rated \cup {ItemOf(b)}]}
  BY DEF RateApplied, Rated
<1>6. SessionOK(s)
  BY <1>1, LiveSessions DEF Sessions
<1> DEFINE rated == s.rated \cup {ItemOf(b)}
<1>7. rated \in SUBSET Items /\ rated # {} /\ 0 \notin rated /\ s.total \in 1 .. Cardinality(Items)
  BY <1>2, <1>6, ItemsAssumption DEF SessionOK
<1> HIDE DEF rated
<1>8. Sessions'
  BY <1>1, <1>5, <1>7, SetSession DEF World, rated
<1>9. \A t \in Live' : t.pending = 0
  BY <1>5 DEF Live, _set_session
<1>10. World'
  <2>1. next_at' \in [Items -> Nat]
    BY <1>1, <1>3, <1>4 DEF World
  <2>2. Acks'
    BY <1>1, <1>5, <1>7 DEF Acks, World, rated
  <2> QED
    BY <1>1, <1>2, <2>1, <2>2 DEF World, RateApplied, Rated, ChatGrows
<1> QED
  BY <1>8, <1>9, <1>10 DEF IInv, NeverStuck, ShownIsDue

LEMMA BoostInv ==
  ASSUME IInv, NEW b, Boost(b)
  PROVE  IInv'
<1>1. World /\ Sessions /\ ChatGrows
  BY SameChat DEF IInv, Boost, Boosted, BoostFails, BoostPressed
<1>2. /\ ledger' = ledger \cup {b} /\ ledger' \subseteq Buttons' /\ ItemOf(b) \in Items
  BY <1>1, PressSpends DEF Boost, Boosted, BoostFails, BoostPressed
<1>3. Live' = Live /\ UNCHANGED <<now, session, chat, acking, lost>> /\ b[2] = "boost"
  BY DEF Boost, Boosted, BoostFails, BoostPressed, Live
<1>4. Sessions'
  BY <1>1, <1>3, SameSession
<1>5. NeverStuck'
  <2>1. ASSUME ~lost, broken = {}, NEW s \in Live, s.pending # 0
        PROVE  HasWay(s.pending)'
    <3>1. HasWay(s.pending)
      BY <2>1, NeverStuckWays DEF IInv
    <3>2. \A c \in {b} : ItemOf(c) # s.pending \/ c[2] = "boost"
      BY <1>3
    <3>3. chat \in Seq(Msg) /\ ledger' \subseteq ledger \cup {b}
      BY <1>1, <1>2 DEF World
    <3> QED
      BY <1>1, <3>1, <3>2, <3>3, WayKept
  <2>2. broken' = {} => broken = {}
    BY DEF Boost, Boosted, BoostFails, BoostPressed
  <2> QED
    BY <1>3, <2>1, <2>2, NeverStuckWaysPrimed
<1>6. CASE /\ next_at' = [next_at EXCEPT ![ItemOf(b)] = now + NewInterval]
           /\ boosted' = boosted \cup {i \in {ItemOf(b)} : OnScreen(i)}
           /\ UNCHANGED <<broken, faults>>
  <2>1. now + NewInterval \in Nat
    BY <1>1, TimeAssumption DEF World
  <2>2. next_at' \in [Items -> Nat] /\ boosted' \subseteq Items
    BY <1>1, <1>2, <1>6, <2>1 DEF World
  <2>3. World'
    BY <1>1, <1>2, <1>3, <1>6, <2>2 DEF World, Acks, ChatGrows
  <2>4. ShownIsDue'
    <3> SUFFICES ASSUME NEW s \in Live, s.pending # 0
                 PROVE  next_at'[s.pending] <= now \/ s.pending \in boosted'
      BY <1>3 DEF ShownIsDue
    <3>1. s.pending \in Items /\ OnScreen(s.pending)
      BY <1>1, LiveSessions DEF Sessions, SessionOK, OnScreen
    <3>2. CASE s.pending = ItemOf(b)
      BY <1>6, <3>1, <3>2
    <3>3. CASE s.pending # ItemOf(b)
      <4>1. next_at'[s.pending] = next_at[s.pending]
        BY <1>1, <1>6, <3>1, <3>3 DEF World
      <4> QED
        BY <1>6, <4>1 DEF IInv, ShownIsDue
    <3> QED
      BY <3>2, <3>3
  <2> QED
    BY <1>4, <1>5, <2>3, <2>4 DEF IInv
<1>7. CASE Fault /\ broken' = broken \cup {"items"} /\ UNCHANGED <<next_at, boosted>>
  <2>1. faults' \in 0 .. MaxFaults
    BY <1>1, <1>7, FaultCounts DEF World
  <2> QED
    BY <1>1, <1>2, <1>3, <1>5, <1>7, <2>1, DialogOnly DEF World
<1> QED
  BY <1>6, <1>7 DEF Boost, Boosted, BoostFails

LEMMA TickInv ==
  ASSUME IInv, Tick
  PROVE  IInv'
<1>1. World /\ Sessions /\ ChatGrows
  BY SameChat DEF IInv, Tick
<1>2. now' = now + 1 /\ now' \in 0 .. MaxNow /\ now \in Nat
  BY <1>1, TimeAssumption DEF Tick, World
<1>3. UNCHANGED <<next_at, session, chat, ledger, acking, broken, boosted, lost, faults>>
  BY DEF Tick
<1>4. World'
  BY <1>1, <1>2, <1>3 DEF World, Acks, Buttons
<1>5. Sessions'
  BY <1>1, <1>3, SameSession
<1>6. \A s \in Live' : s \in Live
  <2> SUFFICES ASSUME NEW s \in session, now + 1 < s.expires
               PROVE  now < s.expires
    BY <1>2, <1>3 DEF Live
  <2>1. s.expires \in Int
    BY <1>1 DEF Sessions, SessionOK
  <2> QED
    BY <1>2, <2>1
<1>7. NeverStuck'
  BY <1>3, <1>6 DEF IInv, NeverStuck, Buttons, ItemOf
<1>8. ShownIsDue'
  <2> SUFFICES ASSUME NEW s \in Live, s.pending # 0
               PROVE  next_at[s.pending] <= now + 1 \/ s.pending \in boosted
    BY <1>2, <1>3, <1>6 DEF ShownIsDue
  <2>1. s.pending \in Items
    BY <1>1, LiveSessions DEF Sessions, SessionOK
  <2>2. next_at[s.pending] \in Nat
    BY <1>1, <2>1 DEF World
  <2> QED
    BY <1>2, <2>2 DEF IInv, ShownIsDue
<1> QED
  BY <1>4, <1>5, <1>7, <1>8 DEF IInv

LEMMA InitInv == Init => IInv
<1> SUFFICES ASSUME Init PROVE IInv
  OBVIOUS
<1>1. Cardinality(session) = 0 /\ Live = {}
  BY FS_EmptySet DEF Init, Live
<1>2. chat \in Seq(Msg)
  <2>1. \A i \in Items : [kind |-> "boost", item |-> i] \in Msg
    BY DEF Msg, Kinds
  <2>2. \A r \in Msg : <<r>> \in Seq(Msg)
    OBVIOUS
  <2>3. <<>> \in Seq(Msg)
    OBVIOUS
  <2>4. CASE chat = <<>>
    BY <2>3, <2>4
  <2>5. CASE \E i \in Items : chat = <<[kind |-> "boost", item |-> i]>>
    BY <2>1, <2>2, <2>5
  <2> QED
    BY <2>4, <2>5 DEF Init
<1>3. World
  <2>1. next_at \in [Items -> Nat]
    BY TimeAssumption DEF Init
  <2>2. now \in 0 .. MaxNow /\ faults \in 0 .. MaxFaults
    BY TimeAssumption, FaultsAssumption DEF Init
  <2>3. ledger \subseteq Buttons /\ Acks /\ lost \in BOOLEAN /\ broken = {} /\ boosted = {}
    BY DEF Init, Acks
  <2> QED
    BY <1>2, <2>1, <2>2, <2>3 DEF World
<1>4. Sessions
  BY <1>1 DEF Init, Sessions
<1> QED
  BY <1>1, <1>3, <1>4 DEF IInv, NeverStuck, ShownIsDue

LEMMA StepInv ==
  ASSUME IInv, [Next]_vars
  PROVE  IInv'
<1>1. ASSUME NEW b, Press(b)
      PROVE  IInv'
  BY <1>1, StaleInv, MessageGoneInv, ShowInv, RateAppliedInv, RateFailsInv, RaisesInv, BoostInv
     DEF Press
<1>2. ASSUME NEW a, Continue(a) \/ AckFails(a)
      PROVE  IInv'
  BY <1>2, ContinueInv, AckFailsInv
<1>3. ASSUME NEW i \in Items, Stop(i)
      PROVE  IInv'
  BY <1>3, StopInv
<1>4. CASE UNCHANGED vars
  <2>1. ledger' \subseteq Buttons' /\ ChatGrows
    BY <1>4, LedgerStays, SameChat DEF IInv, vars
  <2>2. NeverStuck'
    BY <1>4 DEF IInv, NeverStuck, Live, Buttons, ItemOf, vars
  <2> QED
    BY <1>4, <2>1, <2>2, DialogOnly DEF IInv, World, vars
<1> QED
  BY <1>1, <1>2, <1>3, <1>4, ReviewInv, TickInv, ProfileFailsInv, RestartInv DEF Next
-----------------------------------------------------------------------------
(***************************************************************************)
(* IInv holds in every reachable state.                                    *)
(***************************************************************************)
THEOREM Inductive == Spec => []IInv
<1>1. IInv /\ [Next]_vars => IInv'
  BY StepInv
<1> QED
  BY InitInv, <1>1, PTL DEF Spec

LEMMA InvTypes == IInv => TypeOK
  BY DEF IInv, World, Sessions, SessionOK, Acks, TypeOK, Msg

(***************************************************************************)
(* Type correctness; the user has one session at most.                     *)
(***************************************************************************)
THEOREM TypeCorrect == Spec => []TypeOK
  BY InvTypes, Inductive, PTL

(***************************************************************************)
(* A card once rated is not on screen again in its session.                *)
(***************************************************************************)
THEOREM NoRepeat == Spec => []NoRepeatInSession
<1>1. IInv => NoRepeatInSession
  BY DEF IInv, Sessions, SessionOK, NoRepeatInSession
<1> QED
  BY <1>1, Inductive, PTL

(***************************************************************************)
(* A card on screen has a button that moves it on, unless a message was    *)
(* lost or a commit has failed.                                            *)
(***************************************************************************)
THEOREM WayOn == Spec => []NeverStuck
<1>1. IInv => NeverStuck
  BY DEF IInv
<1> QED
  BY <1>1, Inductive, PTL

\* Rows change in RateApplied and Boost only.
LEMMA RowsChange ==
  ASSUME [Next]_vars, next_at' # next_at
  PROVE  \E b \in Buttons : RateApplied(b) \/ Boost(b)
<1>1. \E b \in Buttons : Press(b)
  BY DEF Next, vars, start_review_session, Stop, Continue, AckFails, Tick, ProfileFails, Restart
<1> QED
  BY <1>1 DEF Press, StaleButton, MessageGone, _show_answer, RateFails, Raises

\* A grade that is accepted is of a card that is due, or was boosted on screen.
LEMMA RatedIsDue ==
  ASSUME IInv, NEW b, RatePressed(b)
  PROVE  OnScreen(ItemOf(b)) /\ (next_at[ItemOf(b)] <= now \/ ItemOf(b) \in boosted)
<1>1. World /\ b \in Buttons
  BY DEF IInv, World, RatePressed, first_seen
<1>2. ItemOf(b) # 0
  BY <1>1, ButtonFields, ItemsAssumption DEF World
<1> QED
  BY <1>2 DEF IInv, ShownIsDue, RatePressed, OnScreen

(***************************************************************************)
(* A rating reaches a row only while its card is on screen and due, or was *)
(* boosted there: one rating for each due period.                          *)
(***************************************************************************)
THEOREM RatedOnce == Spec => RatedOnlyWhileDue
<1> DEFINE Step ==
      \A i \in Items :
        next_at'[i] # next_at[i] /\ session' # session
          => OnScreen(i) /\ (next_at[i] <= now \/ i \in boosted)
<1>1. ASSUME IInv, [Next]_vars
      PROVE  Step
  <2> SUFFICES ASSUME NEW i \in Items, next_at'[i] # next_at[i], session' # session
               PROVE  OnScreen(i) /\ (next_at[i] <= now \/ i \in boosted)
    OBVIOUS
  <2>1. PICK b \in Buttons : RateApplied(b) \/ Boost(b)
    BY <1>1, RowsChange
  <2>2. RateApplied(b)
    BY <2>1 DEF Boost, Boosted, BoostFails, BoostPressed
  <2>3. next_at \in [Items -> Nat]
    BY <1>1 DEF IInv, World
  <2>4. i = ItemOf(b)
    BY <2>2, <2>3 DEF RateApplied, Rated
  <2> QED
    BY <1>1, <2>2, <2>4, RatedIsDue DEF RateApplied, Rated
<1> HIDE DEF Step
<1>2. Spec => [][Step]_vars
  BY <1>1, Inductive, PTL DEF Spec
<1> QED
  BY <1>2 DEF Step, RatedOnlyWhileDue

(***************************************************************************)
(* A session that ends leaves every row as it is.                          *)
(***************************************************************************)
THEOREM LeavingIsFree == Spec => NoPenalty
<1> DEFINE Step == session # {} /\ session' = {} => next_at' = next_at
<1>1. ASSUME [Next]_vars
      PROVE  Step
  <2> SUFFICES ASSUME next_at' # next_at, session' = {}
               PROVE  session = {}
    OBVIOUS
  <2>1. PICK b \in Buttons : RateApplied(b) \/ Boost(b)
    BY <1>1, RowsChange
  <2>2. ~RateApplied(b)
    BY DEF RateApplied, Rated, _set_session
  <2> QED
    BY <2>1, <2>2 DEF Boost, Boosted, BoostFails, BoostPressed
<1> HIDE DEF Step
<1>2. Spec => [][Step]_vars
  BY <1>1, PTL DEF Spec
<1> QED
  BY <1>2 DEF Step, NoPenalty
-----------------------------------------------------------------------------
(* The session implements Agenda *)

\* The card on show.
Card == {s.pending : s \in Live} \ {0}

LEMMA SameCard ==
  ASSUME UNCHANGED <<now, session>>
  PROVE  Card' = Card
  BY DEF Card, Live

LEMMA NoCard ==
  ASSUME session' = {}
  PROVE  Card' = {}
  BY NoSession DEF Card

\* A session that is stored shows its pending card, or none between cards.
LEMMA StoredCard ==
  ASSUME now \in 0 .. MaxNow, NEW total, NEW rated, NEW pending,
         _set_session(total, rated, pending), UNCHANGED now
  PROVE  Card' = {pending} \ {0}
<1> DEFINE s == [total |-> total, rated |-> rated, pending |-> pending, expires |-> now + TTL]
<1>1. session' = {s} /\ s.expires = now + TTL /\ s.pending = pending
  BY DEF _set_session
<1>2. now < now + TTL
  BY TimeAssumption
<1> HIDE DEF s
<1>3. Live' = {s}
  BY <1>1, <1>2 DEF Live
<1> QED
  BY <1>1, <1>3 DEF Card

\* A card of the due queue is put on show.
LEMMA CardShown ==
  ASSUME World, NEW Q \in SUBSET due, Q # {}, NEW total, NEW rated,
         _set_session(total, rated, Oldest(Q)), UNCHANGED <<now, next_at>>
  PROVE  \E i \in Items : next_at[i] <= now /\ Card' = {i} /\ UNCHANGED <<now, next_at>>
<1> DEFINE i == Oldest(Q)
<1>1. Q \in SUBSET Items /\ next_at \in [Items -> Nat] /\ now \in 0 .. MaxNow
  BY DEF due, World
<1>2. i \in Q
  BY <1>1, OldestIsThere
<1>3. i \in Items /\ i # 0 /\ next_at[i] <= now
  BY <1>2, ItemsAssumption DEF due
<1>4. Card' = {i} \ {0}
  BY <1>1, StoredCard
<1> HIDE DEF i
<1> QED
  BY <1>3, <1>4

\* A row put off by a positive interval is put off to the future, and alone.
LEMMA RowPutOff ==
  ASSUME World, NEW i \in Items, NEW d \in Nat \ {0}, next_at' = [next_at EXCEPT ![i] = now + d]
  PROVE  next_at'[i] > now /\ next_at' = [next_at EXCEPT ![i] = next_at'[i]]
<1>1. next_at'[i] = now + d /\ now \in Nat
  BY TimeAssumption DEF World
<1>2. next_at' = [next_at EXCEPT ![i] = next_at'[i]]
  BY <1>1, Zenon
<1> QED
  BY <1>1, <1>2

\* A rating is of the card on show, which then is gone.
LEMMA CardGraded ==
  ASSUME IInv, NEW b, RateApplied(b)
  PROVE  /\ \E i \in Card : next_at'[i] > now /\ next_at' = [next_at EXCEPT ![i] = next_at'[i]]
         /\ Card' = {} /\ UNCHANGED now
<1>1. World /\ now \in 0 .. MaxNow /\ chat \in Seq(Msg) /\ b \in Buttons /\ b[2] \in Grades
  BY DEF IInv, World, RateApplied, Rated, RatePressed, first_seen
<1>2. ItemOf(b) \in Items /\ ItemOf(b) # 0
  BY <1>1, ButtonFields, ItemsAssumption
<1>3. ItemOf(b) \in Card
  BY <1>2 DEF Card, RateApplied, Rated, RatePressed, OnScreen
<1>4. PICK d \in Delays[b[2]] : next_at' = [next_at EXCEPT ![ItemOf(b)] = now + d]
  BY DEF RateApplied, Rated
<1>5. d \in Nat \ {0}
  BY <1>1, TimeAssumption
<1>6. next_at'[ItemOf(b)] > now /\ next_at' = [next_at EXCEPT ![ItemOf(b)] = next_at'[ItemOf(b)]]
  BY <1>1, <1>2, <1>4, <1>5, RowPutOff
<1>7. PICK s \in Live : _set_session(s.total, s.rated \cup {ItemOf(b)}, 0)
  BY DEF RateApplied, Rated
<1>8. UNCHANGED now
  BY DEF RateApplied, Rated
<1>9. Card' = {0} \ {0}
  BY <1>1, <1>7, <1>8, StoredCard
<1> QED
  BY <1>3, <1>6, <1>8, <1>9

\* A boost puts its card off, or its commit fails.
LEMMA CardBoosted ==
  ASSUME IInv, NEW b, Boost(b)
  PROVE  /\ \/ UNCHANGED next_at
            \/ \E i \in Items : next_at'[i] > now /\ next_at' = [next_at EXCEPT ![i] = next_at'[i]]
         /\ UNCHANGED <<now, Card>>
<1>1. World /\ chat \in Seq(Msg) /\ b \in Buttons
  BY DEF IInv, World, Boost, Boosted, BoostFails, BoostPressed, first_seen
<1>2. ItemOf(b) \in Items
  BY <1>1, ButtonFields
<1>3. UNCHANGED <<now, Card>>
  BY SameCard DEF Boost, Boosted, BoostFails, BoostPressed
<1>4. CASE next_at' = [next_at EXCEPT ![ItemOf(b)] = now + NewInterval]
  <2>1. next_at'[ItemOf(b)] > now /\ next_at' = [next_at EXCEPT ![ItemOf(b)] = next_at'[ItemOf(b)]]
    BY <1>1, <1>2, <1>4, TimeAssumption, RowPutOff
  <2> QED
    BY <1>2, <1>3, <2>1
<1> QED
  BY <1>3, <1>4 DEF Boost, Boosted, BoostFails

\* Time takes the card away when its session expires.
LEMMA CardPasses ==
  ASSUME IInv, Tick
  PROVE  now' = now + 1 /\ Card' \in {Card, {}} /\ UNCHANGED next_at
<1>1. now' = now + 1 /\ UNCHANGED <<next_at, session>>
  BY DEF Tick
<1>2. \A s, t \in session : s = t
  BY DEF IInv, Sessions
<1>3. Live' \subseteq session /\ \A s \in Live' : s \in Live
  <2> SUFFICES ASSUME NEW s \in session, now + 1 < s.expires
               PROVE  now < s.expires
    BY <1>1 DEF Live
  <2>1. s.expires \in Int /\ now \in Nat
    BY TimeAssumption DEF IInv, World, Sessions, SessionOK
  <2> QED
    BY <2>1
<1>4. CASE Live' = {}
  BY <1>1, <1>4 DEF Card
<1>5. CASE Live' # {}
  <2>1. Live' = Live
    BY <1>2, <1>3, <1>5 DEF Live
  <2> QED
    BY <1>1, <2>1 DEF Card
<1> QED
  BY <1>4, <1>5

\* What a step of the session is to the user's agenda.
LEMMA StepMaps ==
  ASSUME IInv, [Next]_vars
  PROVE  \/ UNCHANGED <<now, next_at, Card>>
         \/ \E i \in Items : next_at[i] <= now /\ Card' = {i} /\ UNCHANGED <<now, next_at>>
         \/ /\ \E i \in Card : next_at'[i] > now /\ next_at' = [next_at EXCEPT ![i] = next_at'[i]]
            /\ Card' = {} /\ UNCHANGED now
         \/ /\ \E i \in Items : next_at'[i] > now /\ next_at' = [next_at EXCEPT ![i] = next_at'[i]]
            /\ UNCHANGED <<now, Card>>
         \/ Card' = {} /\ UNCHANGED <<now, next_at>>
         \/ now' = now + 1 /\ Card' \in {Card, {}} /\ UNCHANGED next_at
<1>1. World
  BY DEF IInv
<1>2. ASSUME UNCHANGED <<now, next_at, session>>
      PROVE  UNCHANGED <<now, next_at, Card>>
  BY <1>2, SameCard
<1>3. CASE start_review_session
  <2>1. UNCHANGED <<now, next_at>>
    BY <1>3 DEF start_review_session
  <2>2. CASE due = {}
    BY <1>3, <2>1, <2>2, NoCard DEF start_review_session
  <2>3. CASE due # {}
    <3>1. _set_session(Cardinality(due), {}, Oldest(due))
      BY <1>3, <2>3 DEF start_review_session
    <3>2. \E i \in Items : next_at[i] <= now /\ Card' = {i} /\ UNCHANGED <<now, next_at>>
      BY <1>1, <2>1, <2>3, <3>1, CardShown
    <3> QED
      BY <3>2
  <2> QED
    BY <2>2, <2>3
<1>4. ASSUME NEW a, Continue(a)
      PROVE  \/ \E i \in Items : next_at[i] <= now /\ Card' = {i} /\ UNCHANGED <<now, next_at>>
             \/ Card' = {} /\ UNCHANGED <<now, next_at>>
  <2> DEFINE left == _next_due_id(a.rated)
  <2>1. UNCHANGED <<now, next_at>>
    BY <1>4 DEF Continue
  <2>2. CASE left = {}
    BY <1>4, <2>1, <2>2, NoCard DEF Continue
  <2>3. CASE left # {}
    <3>1. _set_session(a.total, a.rated, Oldest(left))
      BY <1>4, <2>3 DEF Continue
    <3>2. left \in SUBSET due
      BY DEF _next_due_id
    <3> HIDE DEF left
    <3>3. \E i \in Items : next_at[i] <= now /\ Card' = {i} /\ UNCHANGED <<now, next_at>>
      BY <1>1, <2>1, <2>3, <3>1, <3>2, CardShown
    <3> QED
      BY <3>3
  <2> QED
    BY <2>2, <2>3
<1>5. CASE Restart \/ \E i \in Items : Stop(i)
  <2>1. session' = {} /\ UNCHANGED <<now, next_at>>
    BY <1>5 DEF Restart, Stop
  <2> QED
    BY <2>1, NoCard
<1>6. CASE \E a \in acking : AckFails(a)
  BY <1>2, <1>6 DEF AckFails
<1>7. CASE ProfileFails \/ UNCHANGED vars
  BY <1>2, <1>7 DEF ProfileFails, vars
<1>8. ASSUME NEW b, StaleButton(b) \/ MessageGone(b) \/ _show_answer(b) \/ RateFails(b) \/ Raises(b)
      PROVE  UNCHANGED <<now, next_at, Card>>
  <2>1. UNCHANGED <<now, next_at, session>>
    BY <1>8 DEF StaleButton, MessageGone, _show_answer, RateFails, Raises
  <2> QED
    BY <1>2, <2>1
<1>9. ASSUME NEW b, Press(b)
      PROVE  \/ UNCHANGED <<now, next_at, Card>>
             \/ RateApplied(b)
             \/ Boost(b)
  BY <1>8, <1>9 DEF Press
<1>10. CASE \E b \in Buttons \ ledger : Press(b)
  BY <1>9, <1>10, CardGraded, CardBoosted
<1>11. CASE Tick
  BY <1>11, CardPasses
<1> QED
  BY <1>3, <1>4, <1>5, <1>6, <1>7, <1>10, <1>11 DEF Next

(***************************************************************************)
(* The session implements Agenda: over double taps, failed saves, expiry,  *)
(* restarts and concurrent ratings the user sees one card at a time, due   *)
(* when it is shown, and only grading or boosting a card puts it off.      *)
(***************************************************************************)
THEOREM KeepsAgenda == Spec => ImplementsAgenda
<1>1. Init => Promise!Init
  <2> SUFFICES ASSUME Init PROVE Promise!Init
    OBVIOUS
  <2>1. now = 0 /\ Card = {} /\ next_at \in [Items -> Nat]
    BY TimeAssumption DEF Init, Card, Live
  <2> QED
    BY <2>1 DEF Promise!Init, Card
<1>2. ASSUME IInv, [Next]_vars
      PROVE  [Promise!Next]_(Promise!agenda)
  BY <1>2, StepMaps
  DEF Card, Promise!Next, Promise!Show, Promise!Grade, Promise!Boost, Promise!Withdraw,
      Promise!Pass, Promise!PutOff, Promise!agenda
<1> QED
  BY <1>1, <1>2, Inductive, PTL DEF Spec, ImplementsAgenda, Promise!Spec
=============================================================================
