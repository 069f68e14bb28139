----------------------------- MODULE Settlement -----------------------------
(***************************************************************************)
(* What the rating service promises: a won ranked match changes the        *)
(* ratings of its two fleets once and together, each change starting from  *)
(* what the fleet's previous matches left.  A rating stands for the        *)
(* sequence of matches it accounts for, because the change a match makes   *)
(* depends on the ratings it finds.                                        *)
(***************************************************************************)
EXTENDS Sequences

CONSTANTS Match, Fleet,
          Player    \* Player[m][slot] is the fleet in that slot of m

Slot == {0, 1}

VARIABLES
  scored,    \* the matches with a rating event
  before,    \* per match and slot: the rating its event says it found
  rating     \* per fleet: the matches its rating accounts for, in order

settlementVars == <<scored, before, rating>>

Init ==
  /\ scored = {}
  /\ before = [m \in Match |-> [i \in Slot |-> <<>>]]
  /\ rating = [f \in Fleet |-> <<>>]

\* The players of a match are two fleets, so no fleet gets two changes.
Score(m) ==
  /\ m \notin scored
  /\ scored' = scored \cup {m}
  /\ before' = [before EXCEPT ![m] = [i \in Slot |-> rating[Player[m][i]]]]
  /\ rating' = [f \in Fleet |-> IF \E i \in Slot : Player[m][i] = f
                                THEN Append(rating[f], m)
                                ELSE rating[f]]

Next == \E m \in Match : Score(m)

Spec == Init /\ [][Next]_settlementVars
=============================================================================
