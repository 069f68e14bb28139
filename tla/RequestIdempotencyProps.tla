---------------------- MODULE RequestIdempotencyProps ----------------------
(***************************************************************************)
(* What the Idempotency-Key middleware promises to the handlers behind it  *)
(* and to their clients.  The attempts' place has a name of its own, so    *)
(* that this module can be extended next to one about such a handler.      *)
(***************************************************************************)
EXTENDS Naturals

CONSTANTS Attempt, Body, NoAttempt, MaxDeaths

ASSUME IdempotencyAssumption == NoAttempt \notin Attempt /\ MaxDeaths \in Nat

VARIABLES body, at, owner, saved, answer, effects, deaths

Keys == INSTANCE RequestIdempotency WITH pc <- at

KeysSpec == Keys!Spec

KeysFairSpec == Keys!FairSpec

\* The row and the attempts have their types, and a saved response has a row.
KeysTypeOK == Keys!TypeOK

\* Two attempts of the same key never execute at the same time, however their
\* lookups and inserts interleave (reserve, idempotency_records' constraint).
OneAtATime == \A q, r \in Attempt : {at[q], at[r]} \subseteq Keys!Holding => q = r

\* Everyone who is answered is given the same response, and asked for the same
\* thing as the attempt that produced it, also if attempts failed, were released
\* or died before.
OneResponse ==
  \A q, r \in Attempt :
    at[q] = "answered" /\ at[r] = "answered" =>
      /\ answer[q] = answer[r]
      /\ answer[q] \in Attempt
      /\ body[answer[q]] = body[q]

\* A change is made twice only if one of the attempts that made it was reported as
\* failed or had no body to keep: an attempt that was answered with one, is executing
\* or died is never repeated.
ChangedOnce ==
  \A q, r \in effects : q = r \/ {at[q], at[r]} \cap Keys!Unkept # {}

\* Every attempt ends; a race for the row does not send it round for ever.
AttemptsEnd == \A q \in Attempt : at[q] = "check" ~> at[q] \in Keys!Ended
=============================================================================
