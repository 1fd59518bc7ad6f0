-------------------------------- MODULE Agenda --------------------------------
(***************************************************************************)
(* What a review promises the user: he is shown one card at a time, each   *)
(* of them due when it is shown; grading the card he sees puts it off into *)
(* the future and takes it away; a card taken away otherwise (he stops, a  *)
(* session ends or expires) is as due as before.  Boosting is the only     *)
(* other way a card is put off.                                            *)
(***************************************************************************)
EXTENDS Naturals

CONSTANT Items

VARIABLES clock,
          due_at,  \* when each card is due
          card     \* {} or the card on show

agenda == <<clock, due_at, card>>

Init == clock = 0 /\ due_at \in [Items -> Nat] /\ card = {}

\* Card i, and no other, is put off to a later time than now.
PutOff(i) ==
  /\ due_at'[i] > clock
  /\ due_at' = [due_at EXCEPT ![i] = due_at'[i]]

Show ==
  /\ \E i \in Items : due_at[i] <= clock /\ card' = {i}
  /\ UNCHANGED <<clock, due_at>>

Grade ==
  /\ \E i \in card : PutOff(i)
  /\ card' = {}
  /\ UNCHANGED clock

Boost == \E i \in Items : PutOff(i) /\ UNCHANGED <<clock, card>>

Withdraw == card' = {} /\ UNCHANGED <<clock, due_at>>

\* Time passes, and may take the card away.
Pass == clock' = clock + 1 /\ card' \in {card, {}} /\ UNCHANGED due_at

Next == Show \/ Grade \/ Boost \/ Withdraw \/ Pass

Spec == Init /\ [][Next]_agenda
=============================================================================
