------------------------------ MODULE Dictionary ------------------------------
(***************************************************************************)
(* What the add flow promises the user: he is shown one card at a time to  *)
(* keep, a card once taken away is never offered again, and what he keeps  *)
(* is the card on offer, one for each normal form of a word.               *)
(***************************************************************************)
CONSTANT normalize_front

VARIABLES cards,  \* the user's dictionary: [front, back]
          offer,  \* {} or the card he may keep: [id, front, back]
          made    \* ids of all offers so far

dictionary == <<cards, offer, made>>

Init == cards = {} /\ offer = {} /\ made = {}

\* A new card takes the place of the one on offer.
Propose ==
  /\ \E o \in offer' : /\ offer' = {o}
                       /\ o.id \notin made
                       /\ made' = made \cup {o.id}
  /\ UNCHANGED cards

Withdraw == offer' = {} /\ UNCHANGED <<cards, made>>

Keep ==
  /\ \E o \in offer :
       /\ \A c \in cards : normalize_front[c.front] # normalize_front[o.front]
       /\ cards' = cards \cup {[front |-> o.front, back |-> o.back]}
  /\ offer' = {}
  /\ UNCHANGED made

Next == Propose \/ Withdraw \/ Keep

Spec == Init /\ [][Next]_dictionary
=============================================================================
