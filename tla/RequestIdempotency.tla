------------------------- MODULE RequestIdempotency -------------------------
(***************************************************************************)
(* The Idempotency-Key middleware, for one scope and key: attempts of the  *)
(* client's requests reserve the key with a row, execute, and leave their  *)
(* response to be replayed or take the reservation back.                   *)
(*                                                                         *)
(* A step is one transaction of the middleware or the whole handler behind *)
(* it.  A response is named by the attempt that executed.  Each attempt is *)
(* one HTTP request; a retry is another attempt.                           *)
(*                                                                         *)
(* A "variant of X" is a plausible slip in the code X models, which a run  *)
(* must catch; no specification uses it.                                   *)
(***************************************************************************)
EXTENDS Naturals

CONSTANTS
  Attempt,    \* the requests that carry the key, retries included
  Body,       \* their method, path and body, as request_digest tells them apart
  NoAttempt,
  MaxDeaths   \* bound: attempts whose process dies or loses the database

VARIABLES
  body,      \* per attempt: what it asks for
  pc,        \* per attempt: where dispatch is, or how it ended
  owner,     \* the attempt that inserted the row, NoAttempt without a row
  saved,     \* the row holds a response
  answer,    \* per attempt: the attempt whose response it was given
  effects,   \* history: the attempts whose handler committed a change
  deaths

vars == <<body, pc, owner, saved, answer, effects, deaths>>

Unkept == {"failed", "bodyless"}            \* it ended without leaving a response
Ended == {"answered", "refused", "dead"} \cup Unkept
Holding == {"execute", "save", "release"}   \* the attempt has the reservation
Pc == {"new", "check", "insert"} \cup Holding \cup Ended

TypeOK ==
  /\ body \in [Attempt -> Body]
  /\ pc \in [Attempt -> Pc]
  /\ owner \in Attempt \cup {NoAttempt}
  /\ saved \in BOOLEAN
  /\ saved => owner # NoAttempt
  /\ answer \in [Attempt -> Attempt \cup {NoAttempt}]
  /\ effects \subseteq Attempt
  /\ deaths \in Nat

Init ==
  /\ body \in [Attempt -> Body]
  /\ pc = [q \in Attempt |-> "new"]
  /\ owner = NoAttempt
  /\ saved = FALSE
  /\ answer = [q \in Attempt |-> NoAttempt]
  /\ effects = {}
  /\ deaths = 0

-----------------------------------------------------------------------------
Go(q, from, to) ==
  /\ pc[q] = from
  /\ pc' = [pc EXCEPT ![q] = to]

Arrive(q) == Go(q, "new", "check") /\ UNCHANGED <<body, owner, saved, answer, effects, deaths>>

Replay(q) ==
  /\ Go(q, "check", "answered")
  /\ answer' = [answer EXCEPT ![q] = owner]

\* A variant of Lookup that does not compare the digest.
LookupUnkeyed(q) ==
  /\ \/ owner = NoAttempt /\ Go(q, "check", "insert") /\ UNCHANGED answer
     \/ owner # NoAttempt /\ ~ saved /\ Go(q, "check", "refused") /\ UNCHANGED answer
     \/ owner # NoAttempt /\ saved /\ Replay(q)
  /\ UNCHANGED <<body, owner, saved, effects, deaths>>

\* A variant of Lookup that takes over the reservation of an attempt that died.
LookupTakesOver(q) ==
  /\ \/ owner = NoAttempt /\ Go(q, "check", "insert")
     \/ owner # NoAttempt /\ ~ saved /\ pc[owner] = "dead" /\ Go(q, "check", "execute")
     \/ owner # NoAttempt /\ pc[owner] # "dead" /\ Go(q, "check", "refused")
  /\ UNCHANGED <<body, owner, saved, answer, effects, deaths>>

\* A variant of Lookup that waits for the response of an attempt in progress.
LookupWaits(q) ==
  /\ \/ owner = NoAttempt /\ Go(q, "check", "insert") /\ UNCHANGED answer
     \/ owner # NoAttempt /\ body[owner] # body[q] /\ Go(q, "check", "refused") /\ UNCHANGED answer
     \/ owner # NoAttempt /\ saved /\ body[owner] = body[q] /\ Replay(q)
  /\ UNCHANGED <<body, owner, saved, effects, deaths>>

\* reserve finds no row, the row of another request (409), one without a response
\* yet (409), or a response.  expires_at is not looked at.
Lookup(q) ==
  /\ \/ owner = NoAttempt /\ Go(q, "check", "insert") /\ UNCHANGED answer
     \/ /\ owner # NoAttempt
        /\ body[owner] # body[q] \/ ~ saved
        /\ Go(q, "check", "refused")
        /\ UNCHANGED answer
     \/ owner # NoAttempt /\ saved /\ body[owner] = body[q] /\ Replay(q)
  /\ UNCHANGED <<body, owner, saved, effects, deaths>>

\* A variant of Insert without the unique constraint.
InsertUnchecked(q) ==
  /\ Go(q, "insert", "execute")
  /\ owner' = q
  /\ saved' = FALSE
  /\ UNCHANGED <<body, answer, effects, deaths>>

\* The unique constraint on scope and key refuses a second row: look again.
Insert(q) ==
  /\ IF owner = NoAttempt
     THEN Go(q, "insert", "execute") /\ owner' = q
     ELSE Go(q, "insert", "check") /\ UNCHANGED owner
  /\ UNCHANGED <<body, saved, answer, effects, deaths>>

\* The handler answers below 500 with a JSON object or list, which is saved, or it
\* raises, answers 5xx or answers without a body (204), which is not; each with or
\* without having committed a change.
Execute(q) ==
  /\ Go(q, "execute", "save") \/ Go(q, "execute", "release")
  /\ \E done \in SUBSET {q} : effects' = effects \cup done
  /\ UNCHANGED <<body, owner, saved, answer, deaths>>

\* A variant of Save that deletes the row it has written.
SaveAndDelete(q) ==
  /\ Go(q, "save", "answered")
  /\ saved' = TRUE /\ owner' = NoAttempt
  /\ answer' = [answer EXCEPT ![q] = q]
  /\ UNCHANGED <<body, effects, deaths>>

Save(q) ==
  /\ Go(q, "save", "answered")
  /\ saved' = TRUE
  /\ answer' = [answer EXCEPT ![q] = q]
  /\ UNCHANGED <<body, owner, effects, deaths>>

\* The client hears of a failure, or of a success that is not kept (the 204 of a
\* logout or of a revoked key).
Release(q) ==
  /\ \E end \in Unkept : Go(q, "release", end)
  /\ owner' = NoAttempt
  /\ UNCHANGED <<body, saved, answer, effects, deaths>>

\* The process is killed, the client's disconnect cancels the handler (which is no
\* Exception), or the database fails the middleware: nothing takes back the row.
Die(q) ==
  /\ deaths < MaxDeaths
  /\ deaths' = deaths + 1
  /\ pc[q] \in {"check", "insert"} \cup Holding
  /\ pc' = [pc EXCEPT ![q] = "dead"]
  /\ UNCHANGED <<body, owner, saved, answer, effects>>

-----------------------------------------------------------------------------
Dispatch(q) == Lookup(q) \/ Insert(q) \/ Execute(q) \/ Save(q) \/ Release(q)

Next == \E q \in Attempt : Arrive(q) \/ Dispatch(q) \/ Die(q)

Spec == Init /\ [][Next]_vars

\* A dispatch that runs goes on.  Nothing forces a client to try or to retry.
FairSpec == Spec /\ \A q \in Attempt : WF_vars(Dispatch(q))
=============================================================================
