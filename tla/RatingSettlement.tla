-------------------------- MODULE RatingSettlement --------------------------
(***************************************************************************)
(* RatingService.apply_once, statement by statement, called by workers     *)
(* that finished ranked matches: the check for an existing event, the row  *)
(* locks on the two fleets, the reads of the two ratings, the insertion of *)
(* the unique event and the commit.                                        *)
(*                                                                         *)
(* PostgreSQL at READ COMMITTED: a read sees what is committed, a lock is  *)
(* held to the end of the transaction, and of two transactions that wait   *)
(* for each other one is aborted.  A rating stands for the sequence of     *)
(* matches it accounts for; a fleet without a rating row has the default   *)
(* rating, which the transaction that first reads it inserts.              *)
(*                                                                         *)
(* A "variant of X" is a plausible slip in the code X models, which a run  *)
(* must catch; no specification uses it.                                   *)
(***************************************************************************)
EXTENDS Naturals, Sequences, FiniteSets

CONSTANTS
  Match, Fleet,
  Player,       \* Player[m][slot] is the fleet in that slot of m
  Settler,      \* the workers
  NoMatch, NoSettler,
  MaxCalls,     \* bound: settlements of one match (workers that finished it)
  MaxAborts     \* bound: transactions cut by a crash or a database error

Slot == {0, 1}

ASSUME SettlementAssumption ==
  /\ Player \in [Match -> [Slot -> Fleet]]
  /\ \A m \in Match : Player[m][0] # Player[m][1]
  /\ NoMatch \notin Match
  /\ NoSettler \notin Settler
  /\ MaxCalls \in Nat /\ MaxAborts \in Nat

VARIABLES
  scored,    \* committed: the matches with a rating event
  before,    \* committed: per match and slot, the rating its event says it found
  rating,    \* committed: per fleet, the matches its rating accounts for
  lock,      \* per fleet: the transaction that holds its row
  pc, job,   \* per settler: its next statement, and its match
  view,      \* per settler and slot: the rating it read
  calls, aborts

committed == <<scored, before, rating>>
vars == <<scored, before, rating, lock, pc, job, view, calls, aborts>>

Pc == {"idle", "check", "lock0", "lock1", "rate0", "rate1", "insert", "commit"}
Unread == [i \in Slot |-> <<>>]

TypeOK ==
  /\ scored \subseteq Match
  /\ before \in [Match -> [Slot -> Seq(Match)]]
  /\ rating \in [Fleet -> Seq(Match)]
  /\ lock \in [Fleet -> Settler \cup {NoSettler}]
  /\ pc \in [Settler -> Pc]
  /\ job \in [Settler -> Match \cup {NoMatch}]
  /\ \A s \in Settler : job[s] = NoMatch <=> pc[s] = "idle"
  /\ view \in [Settler -> [Slot -> Seq(Match)]]
  /\ calls \in [Match -> Nat]
  /\ aborts \in Nat

Init ==
  /\ scored = {}
  /\ before = [m \in Match |-> Unread]
  /\ rating = [f \in Fleet |-> <<>>]
  /\ lock = [f \in Fleet |-> NoSettler]
  /\ pc = [s \in Settler |-> "idle"]
  /\ job = [s \in Settler |-> NoMatch]
  /\ view = [s \in Settler |-> Unread]
  /\ calls = [m \in Match |-> 0]
  /\ aborts = 0

-----------------------------------------------------------------------------
Seat(s, i) == Player[job[s]][i]

\* The row locks s holds are released when its transaction ends.
Released(s) == [f \in Fleet |-> IF lock[f] = s THEN NoSettler ELSE lock[f]]

\* A variant of EndTransaction: a return without a rollback or a commit.
EndTransactionLeaks(s) ==
  /\ pc' = [pc EXCEPT ![s] = "idle"]
  /\ job' = [job EXCEPT ![s] = NoMatch]
  /\ view' = [view EXCEPT ![s] = Unread]
  /\ UNCHANGED lock

\* A variant of EndTransaction: the session goes on in the old transaction.
EndTransactionNot(s) ==
  /\ pc' = [pc EXCEPT ![s] = "idle"]
  /\ lock' = Released(s)
  /\ UNCHANGED <<job, view>>

EndTransaction(s) ==
  /\ pc' = [pc EXCEPT ![s] = "idle"]
  /\ job' = [job EXCEPT ![s] = NoMatch]
  /\ view' = [view EXCEPT ![s] = Unread]
  /\ lock' = Released(s)

Go(s, from, to) == pc[s] = from /\ pc' = [pc EXCEPT ![s] = to]

\* The first commit of _finish is done: the match is finished with a winner.
Begin(s, m) ==
  /\ Go(s, "idle", "check")
  /\ calls[m] < MaxCalls
  /\ calls' = [calls EXCEPT ![m] = @ + 1]
  /\ job' = [job EXCEPT ![s] = m]
  /\ UNCHANGED <<committed, lock, view, aborts>>

\* An event that is already there is returned.
Check(s) ==
  /\ pc[s] = "check"
  /\ IF job[s] \in scored
     THEN EndTransaction(s)
     ELSE Go(s, "check", "lock0") /\ UNCHANGED <<job, view, lock>>
  /\ UNCHANGED <<committed, calls, aborts>>

\* A variant of Lock without FOR UPDATE.
LockNothing(s, i, from, to) ==
  /\ Go(s, from, to)
  /\ UNCHANGED <<committed, lock, job, view, calls, aborts>>

\* SELECT ... ORDER BY slot FOR UPDATE locks the fleets in slot order and
\* waits for each.
Lock(s, i, from, to) ==
  /\ Go(s, from, to)
  /\ lock[Seat(s, i)] = NoSettler
  /\ lock' = [lock EXCEPT ![Seat(s, i)] = s]
  /\ UNCHANGED <<committed, job, view, calls, aborts>>

Rate(s, i, from, to) ==
  /\ Go(s, from, to)
  /\ view' = [view EXCEPT ![s][i] = rating[Seat(s, i)]]
  /\ UNCHANGED <<committed, lock, job, calls, aborts>>

\* The flush of the event: the unique index on match_id makes a second insert
\* wait for the first transaction and fail if that one commits.
InsertPending(s) == \E t \in Settler \ {s} : pc[t] = "commit" /\ job[t] = job[s]

\* A variant of Insert for a match_id that is not unique.
InsertAgain(s) ==
  /\ Go(s, "insert", "commit")
  /\ UNCHANGED <<committed, job, view, lock, calls, aborts>>

Insert(s) ==
  /\ pc[s] = "insert"
  /\ ~ InsertPending(s)
  /\ IF job[s] \in scored
     THEN EndTransaction(s)
     ELSE Go(s, "insert", "commit") /\ UNCHANGED <<job, view, lock>>
  /\ UNCHANGED <<committed, calls, aborts>>

\* Both ratings and the event become visible together.
Commit(s) ==
  /\ pc[s] = "commit"
  /\ scored' = scored \cup {job[s]}
  /\ before' = [before EXCEPT ![job[s]] = view[s]]
  /\ rating' = [f \in Fleet |->
                  IF f = Seat(s, 0) THEN Append(view[s][0], job[s])
                  ELSE IF f = Seat(s, 1) THEN Append(view[s][1], job[s])
                  ELSE rating[f]]
  /\ EndTransaction(s)
  /\ UNCHANGED <<calls, aborts>>

\* A crash or a database error rolls the transaction back; no one retries it.
Abort(s) ==
  /\ pc[s] # "idle"
  /\ aborts < MaxAborts
  /\ aborts' = aborts + 1
  /\ EndTransaction(s)
  /\ UNCHANGED <<committed, calls>>

\* t holds the row that s waits for.
Awaits(s, t) ==
  /\ s # t
  /\ \/ pc[s] = "lock0" /\ lock[Seat(s, 0)] = t
     \/ pc[s] = "lock1" /\ lock[Seat(s, 1)] = t

\* PostgreSQL finds a cycle of waiting transactions and aborts one of them; the
\* error is no RatingError, so serve() gets it and finds the match finished.
Deadlock(s) ==
  /\ \E cycle \in SUBSET Settler :
       /\ s \in cycle
       /\ \A t \in cycle : (\E u \in cycle : Awaits(t, u)) /\ (\E u \in cycle : Awaits(u, t))
  /\ EndTransaction(s)
  /\ UNCHANGED <<committed, calls, aborts>>

-----------------------------------------------------------------------------
Proceed(s) ==
  \/ Check(s)
  \/ Lock(s, 0, "lock0", "lock1") \/ Lock(s, 1, "lock1", "rate0")
  \/ Rate(s, 0, "rate0", "rate1") \/ Rate(s, 1, "rate1", "insert")
  \/ Insert(s) \/ Commit(s) \/ Deadlock(s)

Next ==
  \E s \in Settler :
    \/ \E m \in Match : Begin(s, m)
    \/ Proceed(s)
    \/ Abort(s)

Spec == Init /\ [][Next]_vars

\* A transaction that can go on does; nothing forces a call or an abort.
FairSpec == Spec /\ \A s \in Settler : WF_vars(Proceed(s))

-----------------------------------------------------------------------------
(* Properties.                                                              *)

\* The events of a fleet are exactly the matches its rating accounts for, each
\* once, and each event started from the rating the previous one left: no
\* update of a rating is lost, however many workers settle at the same time.
RatingsAreChains ==
  \A f \in Fleet :
    /\ \A i \in DOMAIN rating[f] :
         /\ rating[f][i] \in scored
         /\ \E k \in Slot :
              /\ Player[rating[f][i]][k] = f
              /\ before[rating[f][i]][k] = SubSeq(rating[f], 1, i - 1)
    /\ \A m \in scored :
         (\E k \in Slot : Player[m][k] = f) =>
            \E i \in DOMAIN rating[f] : rating[f][i] = m
    /\ \A i, j \in DOMAIN rating[f] : rating[f][i] = rating[f][j] => i = j

Abstract == INSTANCE Settlement

\* Each settlement changes both ratings and writes its event in one step, from
\* the ratings that are current at that step.
ImplementsSettlement == Abstract!Spec

\* A settlement that began ends, committed or rolled back, and frees its rows:
\* no worker waits for ever for another's lock.
SettlementsEnd ==
  \A s \in Settler : pc[s] # "idle" ~> (pc[s] = "idle" /\ \A f \in Fleet : lock[f] # s)
=============================================================================
