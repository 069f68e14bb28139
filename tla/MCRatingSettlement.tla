------------------------- MODULE MCRatingSettlement -------------------------
(* RatingSettlement on three fleets.  ab and ba seat the same two fleets in  *)
(* opposite slots; bc shares one with each of them.                          *)
EXTENDS RatingSettlement

CONSTANTS ab, ba, bc, a, b, c, s1, s2, s3

MCPlayer ==
  [m \in Match |->
    CASE m = ab -> [i \in Slot |-> IF i = 0 THEN a ELSE b]
      [] m = ba -> [i \in Slot |-> IF i = 0 THEN b ELSE a]
      [] m = bc -> [i \in Slot |-> IF i = 0 THEN b ELSE c]]
=============================================================================
